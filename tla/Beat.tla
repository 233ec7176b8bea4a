-------------------------------- MODULE Beat --------------------------------
(***************************************************************************)
(* beat: patches in the BPS format, which carry a translation to those who *)
(* have the original.  Beat::Single::create (create.hpp) writes a patch    *)
(* from an original and a modified file, Beat::Single::apply (apply.hpp)   *)
(* replays it over an original, and main() (beat.cpp) reads and writes the *)
(* files and decides what a warning means.                                 *)
(*                                                                         *)
(* A patch is its bytes, without the 12 of the three CRC32s at the end,    *)
(* and those three.  A CRC is the data it was computed from: two different *)
(* files never have the same.  The four bytes of the mark are one byte.    *)
(* Positions count from 0, as in the code.                                 *)
(***************************************************************************)
EXTENDS SuffixArray, FiniteSetsExt

CONSTANTS
    Pairs,       \* originals and modified files a patch may be made from
    Others,      \* files somebody may take for the original
    Half,        \* a byte below this has more bytes of a number behind it: 128
    Limit,       \* lengths and distances from this on overflow: 2^30
    Threshold,   \* matches up to this length are not worth a command: 3
    Damages,     \* bytes a damaged byte may turn into
    Junk,        \* what a read outside of a file may give
    MaxFaults,   \* bound: files damaged, exchanged or written in part
    MaxRuns,     \* bound: times the patch is applied
    None         \* no such file

Byte == 0 .. 2 * Half - 1

ASSUME LimitAssumption == Limit \in Nat \ {0} /\ Half \in Nat \ {0} /\ Threshold \in Nat
ASSUME ByteAssumption  == Damages \subseteq Byte /\ Junk \subseteq Byte /\ Junk # {}
\* The dialog refuses files of 2 GiB and more.
ASSUME SizeAssumption  == \A pair \in Pairs : \A side \in 1 .. 2 :
                            pair[side] \in Seq(Byte) /\ Len(pair[side]) < 2 * Limit
ASSUME OthersAssumption == Others \subseteq Seq(Byte)

VARIABLES
    disk,      \* the files: original, modified, patch and what was written
    made,      \* what the patch was made from: [source, target, patch]
    pc,        \* idle, table, create, header, commands, decide
    source, target, beat,  \* files in memory; target grows as a patch is applied
    at,        \* outputOffset of create(), beatOffset of apply()
    sourceRelativeOffset, targetRelativeOffset,
    queued,    \* targetReadLength
    targetSize,
    astray,    \* something outside of a file was read
    result,    \* what apply() reports: "success", "warning" or "error"
    forced,    \* files kept against a warning, exchanged or cut short
    runs, faults

memory == <<source, target, beat, at, sourceRelativeOffset, targetRelativeOffset,
            queued, targetSize, astray, result>>
counters == <<forced, runs, faults>>
vars == <<disk, made, pc, memory, counters, lpf>>

Patch(body, sums) == [body |-> body, sums |-> sums]
Sums(s, t, body)  == [source |-> s, target |-> t, beat |-> <<body, s, t>>]
Wrong    == <<-1>>
NoSums   == [source |-> Wrong, target |-> Wrong, beat |-> Wrong]
NoPatch  == Patch(<<>>, NoSums)

Summed == Seq(Byte) \cup {Wrong}
PatchFile == [body : Seq(Byte),
              sums : [source : Summed, target : Summed,
                      beat : (Seq(Byte) \X Seq(Byte) \X Seq(Byte)) \cup {Wrong}]]
ASSUME NoneAssumption == None \notin PatchFile

-----------------------------------------------------------------------------
(* Numbers *)

Modulus == 4 * Limit  \* of u32
Unsigned(n) == n % Modulus
Signed(n) == LET m == n % Modulus IN IF m >= 2 * Limit THEN m - Modulus ELSE m

\* encode(): the last byte is marked, and a byte more begins at 0 again.
encode[n \in Nat] == IF n < Half THEN <<Half + n>>
                     ELSE <<n % Half>> \o encode[n \div Half - 1]

\* decode() of the marked byte at last and the n bytes in front of it.
Value(bytes, last) ==
    LET value[n \in 0 .. last] == IF n = 0 THEN bytes[last + 1] % Half
                                  ELSE (bytes[last - n + 1] % Half) + Half * (1 + value[n - 1])
    IN  value

\* A number that is not ended in the patch runs on into whatever is behind it.
Decode(bytes, p) ==
    LET ends == {q \in p .. Len(bytes) - 1 : bytes[q + 1] >= Half}
    IN  IF ends = {} THEN {[value |-> v, next |-> Len(bytes) + 1] : v \in Junk}
        ELSE {[value |-> Value(bytes, Min(ends))[Min(ends) - p], next |-> Min(ends) + 1]}

\* relativeOffset < 0 | abs(relativeOffset) << 1, in 32 bits, and its inverse.
OffsetCode(n) == Unsigned(IF n < 0 THEN 2 * (-n) + 1 ELSE 2 * n)
OffsetOf(code) == LET n == Signed(code) IN IF n % 2 = 1 THEN -(n \div 2) ELSE n \div 2

SourceRead == 0
TargetRead == 1
SourceCopy == 2
TargetCopy == 3
LengthCode(mode, length) == Unsigned(mode + 4 * (length - 1))

-----------------------------------------------------------------------------
(* create() *)

Idle == /\ source' = <<>> /\ target' = <<>> /\ beat' = NoPatch /\ at' = 0
        /\ sourceRelativeOffset' = 0 /\ targetRelativeOffset' = 0
        /\ queued' = 0 /\ targetSize' = 0 /\ astray' = FALSE /\ result' = None

Init ==
    /\ \E pair \in Pairs : disk = [original |-> pair[1], modified |-> pair[2],
                                   patch |-> None, written |-> None]
    /\ made = None /\ pc = "idle"
    /\ source = <<>> /\ target = <<>> /\ beat = NoPatch /\ at = 0
    /\ sourceRelativeOffset = 0 /\ targetRelativeOffset = 0
    /\ queued = 0 /\ targetSize = 0 /\ astray = FALSE /\ result = None
    /\ forced = {} /\ runs = 0 /\ faults = 0
    /\ NoTable

\* The mark and the sizes; the manifest is always empty.
Mark == Half
Header(s, t) == <<Mark>> \o encode[Len(s)] \o encode[Len(t)] \o encode[0]

StartCreate ==
    /\ pc = "idle" /\ disk.patch = None
    /\ source' = disk.original /\ target' = disk.modified
    /\ beat' = Patch(Header(disk.original, disk.modified), NoSums)
    /\ NewTable(disk.original, disk.modified)
    /\ pc' = "table"
    /\ UNCHANGED <<disk, made, counters, at, sourceRelativeOffset, targetRelativeOffset,
                   queued, targetSize, astray, result>>

BuildTable ==
    /\ pc = "table"
    /\ \/ NextSuffix(target) /\ UNCHANGED pc
       \/ Recurse /\ UNCHANGED pc
       \/ Finished(target) /\ FinishTable /\ pc' = "create"
    /\ UNCHANGED <<disk, made, memory, counters>>

\* The queued bytes, as one command.
Flushed == IF queued = 0 THEN <<>>
           ELSE encode[LengthCode(TargetRead, queued)] \o SubSeq(target, at - queued + 1, at)

Match(mode, length, offset) == [mode |-> mode, length |-> length, offset |-> offset]

\* The comparison is unsigned.
Longer(match, best) == IF Unsigned(match.length) > best.length THEN match ELSE best

Best(found) ==
    LET here == IF at < Len(source) THEN Common(source, at, target, at, 0) ELSE 0
        none == Match(TargetRead, Threshold, 0)
        read == Longer(Match(SourceRead, here, at), none)
        copy == Longer(Match(SourceCopy, found.length, found.offset), read)
    IN  Longer(Match(TargetCopy, lengths[at], offsets[at]), copy)

Queue ==
    /\ queued' = queued + 1 /\ at' = at + 1
    /\ UNCHANGED <<beat, sourceRelativeOffset, targetRelativeOffset>>

\* A mutant: bytes queued before a command are written behind it.
CommandBeforeQueue(match) ==
    LET relative == IF match.mode = SourceCopy THEN sourceRelativeOffset ELSE targetRelativeOffset
        command == encode[LengthCode(match.mode, match.length)]
                   \o (IF match.mode = SourceRead THEN <<>>
                       ELSE encode[OffsetCode(match.offset - relative)])
        next == match.offset + match.length
    IN  /\ beat' = [beat EXCEPT !.body = @ \o command \o Flushed]
        /\ sourceRelativeOffset' = IF match.mode = SourceCopy THEN next ELSE sourceRelativeOffset
        /\ targetRelativeOffset' = IF match.mode = TargetCopy THEN next ELSE targetRelativeOffset
        /\ queued' = 0 /\ at' = at + match.length

Command(match) ==
    LET relative == IF match.mode = SourceCopy THEN sourceRelativeOffset ELSE targetRelativeOffset
        command == encode[LengthCode(match.mode, match.length)]
                   \o (IF match.mode = SourceRead THEN <<>>
                       ELSE encode[OffsetCode(match.offset - relative)])
        next == match.offset + match.length
    IN  /\ beat' = [beat EXCEPT !.body = @ \o Flushed \o command]
        /\ sourceRelativeOffset' = IF match.mode = SourceCopy THEN next ELSE sourceRelativeOffset
        /\ targetRelativeOffset' = IF match.mode = TargetCopy THEN next ELSE targetRelativeOffset
        /\ queued' = 0 /\ at' = at + match.length

Create ==
    /\ pc = "create" /\ at < Len(target)
    /\ LET best == Best(Find(source, target, at))
       IN  IF best.mode = TargetRead THEN Queue ELSE Command(best)
    /\ UNCHANGED <<disk, made, pc, counters, lpf, source, target, targetSize, astray, result>>

FinishCreate ==
    /\ pc = "create" /\ at >= Len(target)
    /\ LET body  == beat.body \o Flushed
           patch == Patch(body, Sums(source, target, body))
       IN  /\ disk' = [disk EXCEPT !.patch = patch]
           /\ made' = [source |-> source, target |-> target, patch |-> patch]
    /\ pc' = "idle" /\ Idle /\ DropTable
    /\ UNCHANGED counters

-----------------------------------------------------------------------------
(* apply() *)

StartApply ==
    /\ pc = "idle" /\ disk.patch # None /\ runs < MaxRuns
    /\ source' = disk.original /\ beat' = disk.patch
    /\ pc' = "header" /\ runs' = runs + 1
    /\ UNCHANGED <<disk, made, forced, faults, lpf, target, at, sourceRelativeOffset,
                   targetRelativeOffset, queued, targetSize, astray, result>>

Error ==
    /\ pc' = "decide" /\ result' = "error"
    /\ UNCHANGED <<at, targetSize, astray>>

\* 19 bytes are the mark, three sizes and the CRCs.
Marked == Len(beat.body) >= 4 /\ beat.body[1] = Mark

ReadHeader ==
    /\ pc = "header"
    /\ \/ ~Marked /\ Error
       \/ /\ Marked
          /\ \E s \in Decode(beat.body, 1) :
             \/ s.value # Len(source) /\ Error
             \/ /\ s.value = Len(source)
                /\ \E t \in Decode(beat.body, s.next) : \E m \in Decode(beat.body, t.next) :
                     /\ targetSize' = t.value
                     /\ at' = m.next + m.value
                     /\ astray' = (m.next + m.value > Len(beat.body))
                /\ pc' = "commands" /\ UNCHANGED result
    /\ UNCHANGED <<disk, made, counters, lpf, source, target, beat,
                   sourceRelativeOffset, targetRelativeOffset, queued>>

\* Byte p of a file, or anything behind its end.
Get(bytes, p, junk) == IF p < Len(bytes) THEN bytes[p + 1] ELSE junk

\* A copy may run into the bytes it writes itself.
TargetByte(p, n, junk) ==
    IF p >= Len(target) THEN junk ELSE target[p + (n % (Len(target) - p)) + 1]

\* The bytes a command appends.
Run(mode, length, p, junk) ==
    [n \in 1 .. length |->
        CASE mode = SourceRead -> Get(source, Len(target) + n - 1, junk)
          [] mode = TargetRead -> Get(beat.body, p + n - 1, junk)
          [] mode = SourceCopy -> Get(source, p + n - 1, junk)
          [] mode = TargetCopy -> TargetByte(p, n - 1, junk)]

Outside(mode, length, p) ==
    CASE mode = SourceRead -> Len(target) + length > Len(source)
      [] mode = TargetRead -> p + length > Len(beat.body)
      [] mode = SourceCopy -> p + length > Len(source)
      [] mode = TargetCopy -> p >= Len(target)

ReadCommand ==
    /\ pc = "commands" /\ at < Len(beat.body)
    /\ \E c \in Decode(beat.body, at), junk \in Junk :
         LET code == Unsigned(c.value)  mode == code % 4  length == code \div 4 + 1
             Does(p, next) == /\ target' = target \o Run(mode, length, p, junk)
                              /\ at' = next
                              /\ astray' = (astray \/ Outside(mode, length, p)
                                                   \/ next > Len(beat.body))
         IN  \/ /\ mode = SourceRead /\ Does(0, c.next)
                /\ UNCHANGED <<sourceRelativeOffset, targetRelativeOffset>>
             \/ /\ mode = TargetRead /\ Does(c.next, c.next + length)
                /\ UNCHANGED <<sourceRelativeOffset, targetRelativeOffset>>
             \/ /\ mode = SourceCopy
                /\ \E o \in Decode(beat.body, c.next) :
                     LET p == Unsigned(sourceRelativeOffset + OffsetOf(o.value))
                     IN  Does(p, o.next) /\ sourceRelativeOffset' = Unsigned(p + length)
                /\ UNCHANGED targetRelativeOffset
             \/ /\ mode = TargetCopy
                /\ \E o \in Decode(beat.body, c.next) :
                     LET p == Unsigned(targetRelativeOffset + OffsetOf(o.value))
                     IN  Does(p, o.next) /\ targetRelativeOffset' = Unsigned(p + length)
                /\ UNCHANGED sourceRelativeOffset
    /\ UNCHANGED <<disk, made, pc, counters, lpf, source, beat, queued, targetSize, result>>

\* The CRCs, if the commands ended right before them.
ReadSums == IF at = Len(beat.body) THEN beat.sums ELSE NoSums

\* A mutant: what was written is not compared with its CRC.
CheckedWithoutTarget ==
    LET sums == ReadSums
    IN  /\ Len(target) = targetSize
        /\ sums.source = source
        /\ sums.beat = <<beat.body, beat.sums.source, beat.sums.target>>

Checked ==
    LET sums == ReadSums
    IN  /\ Len(target) = targetSize
        /\ sums.source = source
        /\ sums.target = target
        /\ sums.beat = <<beat.body, beat.sums.source, beat.sums.target>>

Check ==
    /\ pc = "commands" /\ at >= Len(beat.body)
    /\ result' = IF Checked THEN "success" ELSE "warning"
    /\ pc' = "decide"
    /\ UNCHANGED <<disk, made, counters, lpf, source, target, beat, at, sourceRelativeOffset,
                   targetRelativeOffset, queued, targetSize, astray>>

\* A read outside of a file may also end the program.
Fault ==
    /\ pc = "commands" /\ astray
    /\ pc' = "idle" /\ Idle
    /\ UNCHANGED <<disk, made, counters, lpf>>
-----------------------------------------------------------------------------
(* main() and the files *)

Write(file, bytes) == disk' = [disk EXCEPT ![file] = bytes]

Destinations == {"written", "original"}

\* A mutant: a warning comes with a result, and the result is kept.
KeptAnyway(unsafe) == result # "error"

\* if(result && !unsafe) return; the dialog asks whether to keep it.
Kept(unsafe) == result = "success" \/ (result = "warning" /\ unsafe)

\* Without a third name the original is overwritten.
Decide ==
    /\ pc = "decide"
    /\ \E unsafe \in BOOLEAN :
       \/ ~Kept(unsafe) /\ UNCHANGED <<disk, forced>>
       \/ /\ Kept(unsafe)
          /\ \E file \in Destinations :
               /\ Write(file, target)
               /\ forced' = IF result = "warning" /\ unsafe THEN forced \cup {file} ELSE forced
    /\ pc' = "idle" /\ Idle
    /\ UNCHANGED <<made, runs, faults, lpf>>

\* The program ends while it writes: the file was emptied before it was filled.
Crash ==
    /\ pc = "decide" /\ result = "success" /\ faults < MaxFaults
    /\ \E file \in Destinations, n \in 0 .. Len(target) - 1 :
         /\ Write(file, SubSeq(target, 1, n))
         /\ forced' = forced \cup {file}
    /\ pc' = "idle" /\ Idle /\ faults' = faults + 1
    /\ UNCHANGED <<made, runs, lpf>>

\* What becomes of a patch on its way: a byte changes, is lost, the end is cut
\* off, or a CRC changes.
Damaged(patch) ==
    LET body == patch.body
    IN  (UNION {{Patch([body EXCEPT ![n] = b], patch.sums) : b \in Damages} : n \in DOMAIN body})
        \cup {Patch(RemoveAt(body, n), patch.sums) : n \in DOMAIN body}
        \cup {Patch(SubSeq(body, 1, n), NoSums) : n \in 0 .. Len(body) - 1}
        \cup {Patch(body, [patch.sums EXCEPT ![sum] = Wrong]) : sum \in {"source", "target", "beat"}}

Damage ==
    /\ pc = "idle" /\ disk.patch # None /\ faults < MaxFaults
    /\ \E patch \in Damaged(disk.patch) : Write("patch", patch)
    /\ faults' = faults + 1
    /\ UNCHANGED <<made, pc, memory, forced, runs, lpf>>

\* The patch is given to somebody with another original.
Exchange ==
    /\ pc = "idle" /\ disk.patch # None /\ faults < MaxFaults
    /\ \E other \in Others : Write("original", other)
    /\ forced' = forced \cup {"original"} /\ faults' = faults + 1
    /\ UNCHANGED <<made, pc, memory, runs, lpf>>

Works == BuildTable \/ Create \/ FinishCreate \/ ReadHeader \/ ReadCommand \/ Check \/ Decide

Next == Works \/ StartCreate \/ StartApply \/ Fault \/ Crash \/ Damage \/ Exchange

\* A program that runs goes on.
Spec == Init /\ [][Next]_vars /\ WF_vars(Works)

-----------------------------------------------------------------------------
(* Properties *)

TypeOK ==
    /\ pc \in {"idle", "table", "create", "header", "commands", "decide"}
    /\ \A file \in {"original", "modified"} : disk[file] \in Seq(Byte)
    /\ disk.written = None \/ disk.written \in Seq(Byte)
    /\ disk.patch = None \/ disk.patch \in PatchFile
    /\ target \in Seq(Byte) /\ beat \in PatchFile
    /\ at \in Nat /\ queued \in 0 .. at
    /\ {sourceRelativeOffset, targetRelativeOffset} \subseteq 0 .. Modulus - 1
    /\ \A p \in DOMAIN lengths : lengths[p] \in -1 .. Len(target) - p
    /\ result \in {"success", "warning", "error", None}
    /\ forced \subseteq Destinations

\* induced_sort puts the suffixes of both files in their order, though it guesses
\* that of some and compares pieces of the file by their names.
SuffixesOrdered ==
    pc \in {"table", "create"} => Ordered(source, sa.input) /\ Ordered(target, sa.text)

\* The binary search for what comes next meets a match as long as any other, but
\* for the last suffix of the order, which it never looks at.
MatchesLongest ==
    pc = "create" /\ at < Len(target) => LongestMatch(source, target, at)

\* The recursion of suffix_array_lpf finds the longest previous factor of every
\* position: a length left at -1 would be taken for a match of 2^32 - 1 bytes.
FactorsLongest == pc = "create" => LongestPrevious(target)

\* A patch as it was made, over the file it was made from.
Pristine == made # None /\ beat = made.patch /\ source = made.source

\* Sizes below which no length and no distance overflows.
Small == Len(made.source) < Limit /\ Len(made.target) <= Limit

\* While it is replayed, such a patch reads nothing outside of its files and
\* writes the modified file byte after byte, and ends with it.
ReplaysTarget ==
    pc \in {"commands", "decide"} /\ Pristine /\ Small =>
        /\ ~astray
        /\ IsPrefix(target, made.target)
        /\ targetSize = Len(made.target)
        /\ pc = "decide" => result = "success" /\ target = made.target

\* However the patch, the original or an earlier result were damaged, and also
\* when a number overflowed: apply() reports success only for the modified file.
DamageNoticed ==
    pc = "decide" /\ result = "success" => source = made.source /\ target = made.target

\* Unless somebody insisted, the files only ever hold what the patch was made
\* from and for, though a result is there with every warning.
FilesWhole ==
    made # None =>
        /\ "original" \notin forced => disk.original \in {made.source, made.target}
        /\ "written" \notin forced => disk.written \in {None, made.target}

\* Every table, patch and replay that is begun ends, damaged or not.
RunsEnd == pc # "idle" ~> pc = "idle"
=============================================================================
