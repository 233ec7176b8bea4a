----------------------------- MODULE Beat_proofs -----------------------------
(***************************************************************************)
(* What becomes of files when patches are damaged, exchanged or written in *)
(* part: apply() reports success only for what the patch was made from and *)
(* for (DamageNoticed), and files nobody insisted on stay whole            *)
(* (FilesWhole).  Both rest on what damage can make of the sums of a       *)
(* patch.  The CRC of the patch covers the other two, so that no single    *)
(* sum can be believed without all three.  Nothing is asked of how the     *)
(* commands are written and replayed: the sums are all there is between a  *)
(* damaged patch and the files.                                            *)
(*                                                                         *)
(* And what the patch creator finds: where the suffixes are in their order *)
(* (SuffixesOrdered, which the runs check), the recursion that hands       *)
(* factors on from position to position ends with the longest one at every *)
(* position (FactorsLongest).                                              *)
(*                                                                         *)
(* Under the same condition the binary search finds a match as long as any *)
(* but for the last suffix of the order (MatchesLongest), so that create() *)
(* only ever writes commands for what is there, and no place, offset or    *)
(* length leaves its bounds (TypeOK).                                      *)
(*                                                                         *)
(* And where that is so, a patch put to the file it was made from gives    *)
(* the file it was made for (ReplaysTarget).  At any time the patch being  *)
(* made has a route of commands in it, from its header to the bytes that   *)
(* are still queued, each of which stands for the next bytes of the        *)
(* target.  A replay follows that route from place to place: it reads      *)
(* nothing from outside, has always written the beginning of the target,   *)
(* and ends with all of it and with success.                               *)
(***************************************************************************)
EXTENDS Beat, Recursion, FiniteSetTheorems

Names == {"original", "modified", "patch", "written"}
SumNames == {"source", "target", "beat"}

Applying == pc \in {"header", "commands", "decide"}
Creating == pc \in {"table", "create"}

\* What was summed when a patch was made.
Whole(origin) == <<origin.patch.body, origin.source, origin.target>>

\* The sums of a patch are those it was made with, or lost.
Traced(patch, origin) ==
  /\ patch = [body |-> patch.body, sums |-> patch.sums]
  /\ patch.sums = [n \in SumNames |-> patch.sums[n]]
  /\ patch.sums["beat"] \in {Whole(origin), Wrong}
  /\ patch.sums["source"] \in {origin.source, Wrong}
  /\ patch.sums["target"] \in {origin.target, Wrong}

\* The patches on disk and in memory are traced.
Patches ==
  /\ disk["patch"] # None => Traced(disk["patch"], made)
  /\ Applying => Traced(beat, made)

\* While a patch is made, memory holds the files it is made from; once it is
\* made the modified file is its target, and the original only its source or
\* its target.
Files ==
  /\ disk = [n \in Names |-> disk[n]]
  /\ Creating => source = disk["original"] /\ target = disk["modified"]
  /\ made # None \/ disk["patch"] # None \/ Applying =>
       /\ made.target = disk["modified"]
       /\ "original" \notin forced => disk["original"] \in {made.source, made.target}
  /\ "written" \notin forced => disk["written"] \in {None, disk["modified"]}

\* Success is reported only for the files the patch was made from and for.
Reported == pc = "decide" /\ result = "success" => source = made.source /\ target = made.target

IInv == Patches /\ Files /\ Reported

-----------------------------------------------------------------------------
(* Patches. *)

\* A new patch is traced to what it is made from.
LEMMA NewTraced ==
  ASSUME NEW body, NEW s, NEW t
  PROVE  Traced(Patch(body, Sums(s, t, body)),
                [source |-> s, target |-> t, patch |-> Patch(body, Sums(s, t, body))])
  BY DEF Traced, Whole, Patch, Sums, SumNames

\* Damage leaves a patch traced: whatever it does to the commands, it keeps a
\* sum or loses it.
LEMMA DamageTraced ==
  ASSUME NEW origin, NEW patch, Traced(patch, origin), NEW worse \in Damaged(patch)
  PROVE  Traced(worse, origin)
  <1>1. PICK body, sums : /\ worse = Patch(body, sums)
                          /\ \/ sums = patch.sums
                             \/ sums = NoSums
                             \/ \E n \in SumNames : sums = [patch.sums EXCEPT ![n] = Wrong]
    <2>2. CASE worse \in UNION {{Patch([patch.body EXCEPT ![n] = b], patch.sums) : b \in Damages}
                                 : n \in DOMAIN patch.body}
      <3>1. PICK n \in DOMAIN patch.body :
              worse \in {Patch([patch.body EXCEPT ![n] = b], patch.sums) : b \in Damages}
        BY <2>2, Zenon
      <3>2. PICK b : worse = Patch([patch.body EXCEPT ![n] = b], patch.sums)
        BY <3>1, Zenon
      <3> QED BY <3>2, Zenon
    <2>3. CASE worse \in {Patch(RemoveAt(patch.body, n), patch.sums) : n \in DOMAIN patch.body}
      <3>1. PICK n \in DOMAIN patch.body : worse = Patch(RemoveAt(patch.body, n), patch.sums)
        BY <2>3, Zenon
      <3> QED BY <3>1, Zenon
    <2>4. CASE worse \in {Patch(SubSeq(patch.body, 1, n), NoSums) : n \in 0 .. Len(patch.body) - 1}
      <3>1. PICK n : worse = Patch(SubSeq(patch.body, 1, n), NoSums)
        BY <2>4
      <3> QED BY <3>1, Zenon
    <2>5. CASE worse \in {Patch(patch.body, [patch.sums EXCEPT ![n] = Wrong])
                          : n \in {"source", "target", "beat"}}
      <3>1. PICK n \in SumNames : worse = Patch(patch.body, [patch.sums EXCEPT ![n] = Wrong])
        BY <2>5, Zenon DEF SumNames
      <3> QED BY <3>1, Zenon
    <2> DEFINE Changed == UNION {{Patch([patch.body EXCEPT ![n] = b], patch.sums) : b \in Damages}
                                   : n \in DOMAIN patch.body}
               Shorter == {Patch(RemoveAt(patch.body, n), patch.sums) : n \in DOMAIN patch.body}
               Cut == {Patch(SubSeq(patch.body, 1, n), NoSums) : n \in 0 .. Len(patch.body) - 1}
               Unsummed == {Patch(patch.body, [patch.sums EXCEPT ![n] = Wrong])
                              : n \in {"source", "target", "beat"}}
    <2>6. Damaged(patch) = ((Changed \cup Shorter) \cup Cut) \cup Unsummed
      BY Zenon DEF Damaged
    <2>7. worse \in Changed \/ worse \in Shorter \/ worse \in Cut \/ worse \in Unsummed
      <3> HIDE DEF Changed, Shorter, Cut, Unsummed
      <3> QED BY <2>6, Zenon
    <2> QED BY <2>2, <2>3, <2>4, <2>5, <2>7, Zenon
  <1>2. worse = [body |-> body, sums |-> sums] /\ worse.sums = sums
    BY <1>1 DEF Patch
  <1>3. CASE sums = patch.sums
    BY <1>2, <1>3 DEF Traced
  <1>4. CASE sums = NoSums
    BY <1>2, <1>4 DEF Traced, NoSums, SumNames
  <1>5. ASSUME NEW n \in SumNames, sums = [patch.sums EXCEPT ![n] = Wrong]
        PROVE  Traced(worse, origin)
    <2>1. patch.sums = [m \in SumNames |-> patch.sums[m]]
      BY DEF Traced
    <2>2. sums = [m \in SumNames |-> IF m = n THEN Wrong ELSE patch.sums[m]]
      BY <1>5, <2>1
    <2>3. \A m \in SumNames : sums[m] \in {patch.sums[m], Wrong}
      BY <2>2
    <2>4. sums = [m \in SumNames |-> sums[m]]
      BY <2>2
    <2> QED BY <1>2, <2>3, <2>4 DEF Traced, SumNames
  <1> QED BY <1>1, <1>3, <1>4, <1>5

\* The CRC of the patch is believed only with the other two, so that a patch
\* that passes is the one that was made, and so are its files.
LEMMA CheckedFiles ==
  ASSUME Traced(beat, made), Checked
  PROVE  source = made.source /\ target = made.target
  <1>1. PICK sums : sums = ReadSums
    OBVIOUS
  <1>2. /\ sums.source = source /\ sums.target = target
        /\ sums.beat = <<beat.body, beat.sums.source, beat.sums.target>>
    BY <1>1 DEF Checked
  <1>3. Wrong # <<beat.body, beat.sums.source, beat.sums.target>>
    BY DEF Wrong
  <1>4. sums = beat.sums
    BY <1>1, <1>2, <1>3 DEF ReadSums, NoSums
  <1>5. /\ beat.sums.beat = beat.sums["beat"] /\ beat.sums.source = beat.sums["source"]
        /\ beat.sums.target = beat.sums["target"]
    OBVIOUS
  <1>6. Whole(made) = <<beat.body, beat.sums.source, beat.sums.target>>
    BY <1>2, <1>3, <1>4, <1>5 DEF Traced
  <1> QED BY <1>2, <1>4, <1>6 DEF Whole

-----------------------------------------------------------------------------
(* Steps. *)

LEMMA Initially ==
  ASSUME Init
  PROVE  IInv
  <1>1. PICK pair : disk = [original |-> pair[1], modified |-> pair[2],
                            patch |-> None, written |-> None]
    BY DEF Init
  <1>2. disk = [n \in Names |-> disk[n]] /\ disk["patch"] = None /\ disk["written"] = None
    BY <1>1 DEF Names
  <1> QED BY <1>2 DEF Init, IInv, Patches, Files, Reported, Applying, Creating

\* What only works in memory keeps the files, what was made and what is replayed.
LEMMA InMemory ==
  ASSUME IInv, UNCHANGED <<disk, made, forced>>,
         \/ pc' = "idle"
         \/ Creating /\ Creating' /\ UNCHANGED <<source, target>>
         \/ Applying /\ Applying' /\ UNCHANGED <<source, beat>>,
         pc' = "decide" /\ result' = "success" => source' = made.source /\ target' = made.target
  PROVE  IInv'
  <1>1. Patches'
    BY DEF IInv, Patches, Traced, Whole, Applying, Creating
  <1>2. Files'
    BY DEF IInv, Files, Applying, Creating
  <1>3. Reported'
    BY DEF Reported
  <1> QED BY <1>1, <1>2, <1>3 DEF IInv

LEMMA Creates ==
  ASSUME IInv, StartCreate \/ BuildTable \/ Create \/ FinishCreate
  PROVE  IInv'
  <1>0. disk = [n \in Names |-> disk[n]]
    BY DEF IInv, Files
  <1>1. CASE StartCreate
    <2>1. /\ pc' = "table" /\ disk["patch"] = None /\ pc = "idle"
          /\ source' = disk["original"] /\ target' = disk["modified"]
          /\ UNCHANGED <<disk, made, forced>>
      BY <1>1, <1>0 DEF StartCreate, counters, Names
    <2> QED BY <2>1 DEF IInv, Patches, Files, Reported, Applying, Creating, Traced, Whole
  <1>2. CASE BuildTable
    BY <1>2, InMemory DEF BuildTable, memory, counters, Creating
  <1>3. CASE Create
    BY <1>3, InMemory DEF Create, counters, Creating
  <1>4. CASE FinishCreate
    <2>1. PICK body : /\ disk' = [disk EXCEPT !["patch"] = Patch(body, Sums(source, target, body))]
                      /\ made' = [source |-> source, target |-> target,
                                  patch |-> Patch(body, Sums(source, target, body))]
      BY <1>4, Zenon DEF FinishCreate
    <2>2. /\ pc = "create" /\ pc' = "idle" /\ UNCHANGED forced
      BY <1>4 DEF FinishCreate, counters
    <2>3. /\ disk' = [n \in Names |-> disk'[n]]
          /\ disk'["patch"] = Patch(body, Sums(source, target, body))
          /\ \A n \in Names : n # "patch" => disk'[n] = disk[n]
      BY <1>0, <2>1 DEF Names
    <2>4. Traced(disk'["patch"], made')
      BY <2>1, <2>3, NewTraced, Zenon
    <2>5. made'.source = source /\ made'.target = target
      BY <2>1
    <2>6. source = disk["original"] /\ target = disk["modified"]
      BY <2>2 DEF IInv, Files, Creating
    <2>7. Patches' /\ Reported'
      BY <2>2, <2>4 DEF Patches, Reported, Applying
    <2>8. Files'
      BY <2>2, <2>3, <2>5, <2>6 DEF IInv, Files, Applying, Creating, Names
    <2> QED BY <2>7, <2>8 DEF IInv
  <1> QED BY <1>1, <1>2, <1>3, <1>4

LEMMA Applies ==
  ASSUME IInv, StartApply \/ ReadHeader \/ ReadCommand \/ Check \/ Fault
  PROVE  IInv'
  <1>0. disk = [n \in Names |-> disk[n]]
    BY DEF IInv, Files
  <1>1. CASE StartApply
    <2>1. /\ pc = "idle" /\ pc' = "header" /\ disk["patch"] # None /\ beat' = disk["patch"]
          /\ UNCHANGED <<disk, made, forced>>
      BY <1>1, <1>0 DEF StartApply, Names
    <2> QED BY <2>1 DEF IInv, Patches, Files, Reported, Applying, Creating, Traced, Whole
  <1>2. CASE ReadHeader
    <2>1. /\ pc = "header" /\ UNCHANGED <<disk, made, forced, source, beat>>
          /\ pc' = "commands" \/ (pc' = "decide" /\ result' = "error")
      BY <1>2 DEF ReadHeader, Error, counters
    <2> QED BY <2>1, InMemory DEF Applying
  <1>3. CASE ReadCommand
    <2>1. pc = "commands" /\ pc' = pc /\ UNCHANGED <<disk, made, forced, source, beat>>
      BY <1>3 DEF ReadCommand, counters
    <2> QED BY <2>1, InMemory DEF Applying
  <1>4. CASE Check
    <2>1. /\ pc = "commands" /\ pc' = "decide"
          /\ UNCHANGED <<disk, made, forced, source, target, beat>>
          /\ result' = IF Checked THEN "success" ELSE "warning"
      BY <1>4 DEF Check, counters
    <2>2. Checked => source = made.source /\ target = made.target
      BY <2>1, CheckedFiles DEF IInv, Patches, Applying
    <2> QED BY <2>1, <2>2, InMemory DEF Applying
  <1>5. CASE Fault
    BY <1>5, InMemory DEF Fault, counters
  <1> QED BY <1>1, <1>2, <1>3, <1>4, <1>5

\* A file on disk is written; the others are left.
LEMMA Written ==
  ASSUME NEW d, NEW file \in Names, NEW bytes, d = [n \in Names |-> d[n]]
  PROVE  LET e == [d EXCEPT ![file] = bytes]
         IN  /\ e = [n \in Names |-> e[n]]
             /\ e[file] = bytes
             /\ \A n \in Names : n # file => e[n] = d[n]
  OBVIOUS

\* What main() decides, and the accidents that happen to files.
LEMMA Outcomes ==
  ASSUME IInv, Decide \/ Crash \/ Damage \/ Exchange
  PROVE  IInv'
  <1>0. disk = [n \in Names |-> disk[n]]
    BY DEF IInv, Files
  <1>1. CASE Decide
    <2>1. pc = "decide" /\ pc' = "idle" /\ UNCHANGED made
      BY <1>1 DEF Decide
    <2>2. CASE UNCHANGED <<disk, forced>>
      BY <2>1, <2>2, InMemory
    <2>3. ASSUME NEW unsafe \in BOOLEAN, NEW file \in Destinations,
                 Kept(unsafe), Write(file, target),
                 forced' = IF result = "warning" /\ unsafe THEN forced \cup {file} ELSE forced
          PROVE  IInv'
      <3>1. /\ disk' = [n \in Names |-> disk'[n]] /\ disk'[file] = target
            /\ \A n \in Names : n # file => disk'[n] = disk[n]
        <4>1. file \in Names
          BY DEF Destinations, Names
        <4> QED BY <1>0, <2>3, <4>1, Written DEF Write
      <3>2. /\ file \notin forced' => target = made.target
            /\ \A n : n \notin forced' => n \notin forced
        <4>1. CASE result = "success"
          <5>1. target = made.target
            BY <2>1, <4>1 DEF IInv, Reported
          <5> QED BY <2>3, <5>1
        <4>2. CASE result = "warning" /\ unsafe
          BY <2>3, <4>2
        <4> QED BY <2>3, <4>1, <4>2 DEF Kept
      <3>3. Applying /\ file \in {"original", "written"}
        BY <2>1 DEF Applying, Destinations
      <3>4. Files'
        BY <2>1, <3>1, <3>2, <3>3 DEF IInv, Files, Creating, Names
      <3>5. Patches' /\ Reported'
        BY <2>1, <3>1, <3>3 DEF IInv, Patches, Reported, Applying, Names
      <3> QED BY <3>4, <3>5 DEF IInv
    <2> QED BY <1>1, <2>2, <2>3 DEF Decide
  <1>2. CASE Crash
    <2>1. /\ pc = "decide" /\ pc' = "idle" /\ UNCHANGED made
      BY <1>2 DEF Crash
    <2>2. PICK file, bytes : /\ file \in Destinations /\ Write(file, bytes)
                             /\ forced' = forced \cup {file}
      BY <1>2, Zenon DEF Crash
    <2>3. file \in {"original", "written"} /\ file \in Names
      BY <2>2 DEF Destinations, Names
    <2>4. /\ disk' = [n \in Names |-> disk'[n]]
          /\ \A n \in Names : n # file => disk'[n] = disk[n]
      BY <1>0, <2>2, <2>3, Written DEF Write
    <2>5. Files'
      BY <2>1, <2>2, <2>3, <2>4 DEF IInv, Files, Applying, Creating, Names
    <2>6. Patches' /\ Reported'
      BY <2>1, <2>3, <2>4 DEF IInv, Patches, Reported, Applying, Names
    <2> QED BY <2>5, <2>6 DEF IInv
  <1>3. CASE Damage
    <2>1. /\ pc = "idle" /\ pc' = pc /\ disk["patch"] # None /\ UNCHANGED <<made, forced>>
      BY <1>0, <1>3 DEF Damage, Names
    <2>2. PICK patch \in Damaged(disk["patch"]) : Write("patch", patch)
      BY <1>0, <1>3 DEF Damage, Names
    <2>3. /\ disk' = [n \in Names |-> disk'[n]] /\ disk'["patch"] = patch
          /\ \A n \in Names : n # "patch" => disk'[n] = disk[n]
      <3>1. "patch" \in Names
        BY DEF Names
      <3> QED BY <1>0, <2>2, <3>1, Written DEF Write
    <2>4. Traced(disk'["patch"], made)
      <3>1. Traced(disk["patch"], made)
        BY <2>1 DEF IInv, Patches
      <3> QED BY <2>2, <2>3, <3>1, DamageTraced
    <2>5. Files'
      BY <2>1, <2>3 DEF IInv, Files, Applying, Creating, Names
    <2>6. Patches' /\ Reported'
      BY <2>1, <2>4 DEF IInv, Patches, Reported, Applying
    <2> QED BY <2>5, <2>6 DEF IInv
  <1>4. CASE Exchange
    <2>1. /\ pc = "idle" /\ pc' = pc /\ disk["patch"] # None /\ UNCHANGED made
          /\ forced' = forced \cup {"original"}
      BY <1>0, <1>4 DEF Exchange, Names
    <2>2. PICK other : Write("original", other)
      BY <1>4, Zenon DEF Exchange
    <2>3. /\ disk' = [n \in Names |-> disk'[n]]
          /\ \A n \in Names : n # "original" => disk'[n] = disk[n]
      <3>1. "original" \in Names
        BY DEF Names
      <3> QED BY <1>0, <2>2, <3>1, Written DEF Write
    <2>4. Files'
      BY <2>1, <2>3 DEF IInv, Files, Applying, Creating, Names
    <2>5. Patches' /\ Reported'
      BY <2>1, <2>3 DEF IInv, Patches, Reported, Applying, Names
    <2> QED BY <2>4, <2>5 DEF IInv
  <1> QED BY <1>1, <1>2, <1>3, <1>4

LEMMA Invariant == Spec => []IInv
  <1>1. Init => IInv
    BY Initially
  <1>2. IInv /\ [Next]_vars => IInv'
    <2>1. CASE UNCHANGED vars
      BY <2>1 DEF vars, memory, counters, IInv, Patches, Files, Reported, Applying, Creating
    <2>2. CASE Next
      BY <2>2, Creates, Applies, Outcomes DEF Next, Works
    <2> QED BY <2>1, <2>2
  <1> QED BY <1>1, <1>2, PTL DEF Spec

\* However a patch, an original or an earlier result was damaged, apply() reports
\* success only for the files the patch was made from and for.
THEOREM DamageCorrect == Spec => []DamageNoticed
  <1>1. IInv => DamageNoticed
    BY DEF IInv, Reported, DamageNoticed
  <1> QED BY <1>1, Invariant, PTL

\* Files that nobody wrote against a warning, exchanged or cut short hold what the
\* patch was made from or for, also where the original is overwritten.
THEOREM FilesCorrect == Spec => []FilesWhole
  <1>1. IInv => FilesWhole
    BY DEF IInv, Files, FilesWhole, Names
  <1> QED BY <1>1, Invariant, PTL

-----------------------------------------------------------------------------
(* The suffixes of a text in their order. *)

\* The byte at a position; the end is smaller than any.
At(t, x) == IF x < Len(t) THEN t[x + 1] ELSE -1

\* The suffixes at p and q agree in their first k bytes.
Shares(t, p, q, k) == \A m \in 0 .. k - 1 : Alike(t, p + m, t, q + m)

\* They agree in k, and then the first has the smaller byte.
Less(t, p, q, k) == Shares(t, p, q, k) /\ At(t, p + k) < At(t, q + k)
Smaller(t, p, q) == \E k \in Nat : Less(t, p, q, k)

\* Bytes are natural numbers.
LEMMA ByteFacts == Byte \subseteq Nat
  BY LimitAssumption DEF Byte

\* There is a first place where two files do not agree.
LEMMA CommonFacts ==
  ASSUME NEW s \in Seq(Byte), NEW t \in Seq(Byte), NEW p \in Nat, NEW q \in Nat, NEW k \in Nat
  PROVE  LET n == Common(s, p, t, q, k)
         IN  /\ n \in Nat /\ n >= k
             /\ \A m \in k .. n - 1 : Alike(s, p + m, t, q + m)
             /\ ~Alike(s, p + n, t, q + n)
  <1> DEFINE T == {n \in Nat : n >= k /\ ~Alike(s, p + n, t, q + n)}
             size == Len(s)
             Is(n) == /\ \A m \in k .. n - 1 : Alike(s, p + m, t, q + m)
                      /\ ~Alike(s, p + n, t, q + n)
  <1>1. size \in Nat /\ k + size \in Nat
    OBVIOUS
  <1>2. ~(p + (k + size) < Len(s))
    BY <1>1
  <1>3. k + size \in T
    BY <1>1, <1>2 DEF Alike
  <1>4. PICK n \in T : \A m \in T : n <= m
    <2>1. T \subseteq Nat /\ T # {}
      BY <1>3
    <2> HIDE DEF T
    <2> QED BY <2>1, Smallest
  <1>5. n \in k .. k + size
    <2>1. n \in Nat /\ n >= k
      OBVIOUS
    <2>2. n <= k + size
      BY <1>3, <1>4
    <2> QED BY <1>1, <2>1, <2>2
  <1>6. Is(n)
    <2>1. ASSUME NEW m \in k .. n - 1
          PROVE  Alike(s, p + m, t, q + m)
      <3>1. m \in Nat /\ m >= k /\ ~(n <= m)
        BY <1>5
      <3>2. m \notin T
        BY <1>4, <3>1
      <3> QED BY <3>1, <3>2
    <2> QED BY <2>1
  <1> HIDE DEF Is
  <1>7. \E x \in k .. k + size : Is(x)
    BY <1>5, <1>6
  <1>8. Common(s, p, t, q, k) = CHOOSE x \in k .. k + size : Is(x)
    BY DEF Common, Is
  <1>9. Common(s, p, t, q, k) \in k .. k + size /\ Is(Common(s, p, t, q, k))
    BY <1>7, <1>8, Zenon
  <1> QED BY <1>1, <1>9 DEF Is

\* What is shared lies inside, in part, and either way.
LEMMA SharesFacts ==
  ASSUME NEW t \in Seq(Byte), NEW p \in Positions(t), NEW q \in Positions(t), NEW k \in Nat,
         Shares(t, p, q, k)
  PROVE  /\ p + k <= Len(t) /\ q + k <= Len(t)
         /\ Shares(t, q, p, k)
         /\ \A m \in 0 .. k : Shares(t, p, q, m)
         /\ \A m \in 0 .. k - 1 : At(t, p + m) = At(t, q + m) /\ At(t, p + m) \in Nat
  <1>1. \A m \in 0 .. k - 1 : p + m < Len(t) /\ q + m < Len(t) /\ t[p + m + 1] = t[q + m + 1]
    BY DEF Shares, Alike
  <1>2. Shares(t, q, p, k)
    BY <1>1 DEF Shares, Alike
  <1>3. ASSUME NEW m \in 0 .. k
        PROVE  Shares(t, p, q, m)
    <2>1. \A x \in 0 .. m - 1 : x \in 0 .. k - 1
      OBVIOUS
    <2> QED BY <1>1, <2>1 DEF Shares, Alike
  <1>4. ASSUME NEW m \in 0 .. k - 1
        PROVE  At(t, p + m) = At(t, q + m) /\ At(t, p + m) \in Nat
    <2>1. p + m + 1 \in 1 .. Len(t)
      BY <1>1 DEF Positions
    <2>2. t[p + m + 1] \in Byte
      BY <2>1
    <2> QED BY <1>1, <2>2, ByteFacts DEF At
  <1>5. k > 0 => p + (k - 1) < Len(t) /\ q + (k - 1) < Len(t)
    BY <1>1
  <1>6. p + k <= Len(t) /\ q + k <= Len(t)
    BY <1>5 DEF Positions
  <1> QED BY <1>2, <1>3, <1>4, <1>6

\* Before, for positions of one text.
LEMMA BeforeSmaller ==
  ASSUME NEW t \in Seq(Byte), NEW p \in Positions(t), NEW q \in Positions(t), Before(t, p, q)
  PROVE  Smaller(t, p, q)
  <1>1. PICK n : n = Common(t, p, t, q, 0)
    OBVIOUS
  <1>2. p \in Nat /\ q \in Nat /\ Len(t) \in Nat /\ p <= Len(t) /\ q <= Len(t)
    BY DEF Positions
  <1>3. n \in Nat /\ Shares(t, p, q, n)
    BY <1>1, <1>2, CommonFacts DEF Shares
  <1>4. p + n <= Len(t) /\ q + n <= Len(t)
    BY <1>3, SharesFacts
  <1>5. p # q /\ \/ p + n = Len(t)
                 \/ q + n < Len(t) /\ t[p + n + 1] < t[q + n + 1]
    BY <1>1 DEF Before
  <1>6. q + n < Len(t)
    BY <1>2, <1>3, <1>4, <1>5
  <1>7. At(t, q + n) = t[q + n + 1] /\ t[q + n + 1] \in Nat
    <2>1. q + n + 1 \in 1 .. Len(t)
      BY <1>2, <1>3, <1>6
    <2>2. t[q + n + 1] \in Byte
      BY <2>1
    <2> QED BY <1>6, <2>2, ByteFacts DEF At
  <1>8. At(t, p + n) < At(t, q + n)
    BY <1>2, <1>3, <1>4, <1>5, <1>7 DEF At
  <1> QED BY <1>3, <1>8 DEF Smaller, Less

\* Bytes are numbers.
LEMMA AtFacts ==
  ASSUME NEW t \in Seq(Byte), NEW x \in Nat
  PROVE  At(t, x) \in Int /\ At(t, x) >= -1
  <1>1. CASE x < Len(t)
    <2>1. x + 1 \in 1 .. Len(t)
      BY <1>1
    <2>2. t[x + 1] \in Byte
      BY <2>1
    <2>3. t[x + 1] \in Nat
      BY <2>2, ByteFacts
    <2>4. At(t, x) = t[x + 1]
      BY <1>1 DEF At
    <2> QED BY <2>3, <2>4
  <1>2. CASE ~(x < Len(t))
    BY <1>2 DEF At
  <1> QED BY <1>1, <1>2

\* Of three suffixes in order, what the outer two share is shared with the one
\* between them.
LEMMA Between ==
  ASSUME NEW t \in Seq(Byte), NEW p \in Positions(t), NEW q \in Positions(t),
         NEW r \in Positions(t),
         Smaller(t, p, q), Smaller(t, q, r)
  PROVE  /\ Smaller(t, p, r)
         /\ \A k \in Nat : Shares(t, p, r, k) => Shares(t, p, q, k) /\ Shares(t, q, r, k)
  <1>1. PICK m \in Nat : Shares(t, p, q, m) /\ At(t, p + m) < At(t, q + m)
    BY DEF Smaller, Less
  <1>2. PICK n \in Nat : Shares(t, q, r, n) /\ At(t, q + n) < At(t, r + n)
    BY DEF Smaller, Less
  <1>3. p \in Nat /\ q \in Nat /\ r \in Nat
    BY DEF Positions
  <1>4. PICK l \in Nat : l <= m /\ l <= n /\ (l = m \/ l = n)
    <2>1. CASE m <= n
      BY <2>1
    <2>2. CASE n <= m
      BY <2>2
    <2> QED BY <2>1, <2>2
  <1>5. /\ Shares(t, p, q, l) /\ Shares(t, q, r, l)
        /\ l < m => At(t, p + l) = At(t, q + l)
        /\ l < n => At(t, q + l) = At(t, r + l)
    BY <1>1, <1>2, <1>4, SharesFacts
  <1>6. /\ At(t, p + l) \in Int /\ At(t, q + l) \in Int /\ At(t, r + l) \in Int
    BY <1>3, AtFacts
  <1>7. At(t, p + l) < At(t, r + l)
    BY <1>1, <1>2, <1>4, <1>5, <1>6
  <1>8. Shares(t, p, r, l)
    BY <1>5 DEF Shares, Alike
  <1>9. ASSUME NEW k \in Nat, Shares(t, p, r, k)
        PROVE  Shares(t, p, q, k) /\ Shares(t, q, r, k)
    <2>1. ~(l < k)
      <3>1. SUFFICES ASSUME l < k
                     PROVE  FALSE
        OBVIOUS
      <3>2. At(t, p + l) = At(t, r + l)
        BY <1>9, <3>1, SharesFacts
      <3> QED BY <1>6, <1>7, <3>2
    <2>2. k \in 0 .. l
      BY <2>1
    <2> QED BY <1>5, <2>2, SharesFacts
  <1> QED BY <1>7, <1>8, <1>9 DEF Smaller, Less

\* The order is one.
LEMMA Irreflexive ==
  ASSUME NEW t \in Seq(Byte), NEW p \in Positions(t)
  PROVE  ~Smaller(t, p, p)
  <1> SUFFICES ASSUME NEW k \in Nat, At(t, p + k) < At(t, p + k)
               PROVE  FALSE
    BY DEF Smaller, Less
  <1> QED BY AtFacts DEF Positions

\* Later in the order is greater.
LEMMA Ascending ==
  ASSUME NEW t \in Seq(Byte), NEW order, Ordered(t, order), NEW x \in Positions(t),
         NEW y \in Positions(t), x < y
  PROVE  Smaller(t, order[x], order[y])
  <1> DEFINE T == {n \in Nat : n <= Len(t) =>
                              \A m \in 0 .. n - 1 : Smaller(t, order[m], order[n])}
  <1>1. order \in [Positions(t) -> Positions(t)] /\ Len(t) \in Nat
    BY DEF Ordered
  <1>2. \A n \in 1 .. Len(t) : Smaller(t, order[n - 1], order[n])
    <2> SUFFICES ASSUME NEW n \in 1 .. Len(t)
                 PROVE  Smaller(t, order[n - 1], order[n])
      OBVIOUS
    <2>1. n - 1 \in Positions(t) /\ n \in Positions(t)
      BY <1>1 DEF Positions
    <2>2. order[n - 1] \in Positions(t) /\ order[n] \in Positions(t)
      BY <1>1, <2>1
    <2>3. Before(t, order[n - 1], order[n])
      BY DEF Ordered
    <2> QED BY <2>2, <2>3, BeforeSmaller
  <1>3. ASSUME NEW n \in Nat, \A m \in Nat : m < n => m \in T
        PROVE  n \in T
    <2> SUFFICES ASSUME n <= Len(t), NEW m \in 0 .. n - 1
                 PROVE  Smaller(t, order[m], order[n])
      OBVIOUS
    <2>1. n \in 1 .. Len(t) /\ n - 1 \in Nat /\ n - 1 < n /\ n - 1 <= Len(t)
      BY <1>1
    <2>2. CASE m = n - 1
      BY <1>2, <2>1, <2>2
    <2>3. CASE m # n - 1
      <3>1. m \in 0 .. (n - 1) - 1
        BY <2>1, <2>3
      <3>2. n - 1 \in T
        BY <1>3, <2>1
      <3>3. Smaller(t, order[m], order[n - 1])
        BY <2>1, <3>1, <3>2
      <3>4. m \in Positions(t) /\ n - 1 \in Positions(t) /\ n \in Positions(t)
        BY <1>1, <2>1 DEF Positions
      <3>5. order[m] \in Positions(t) /\ order[n - 1] \in Positions(t)
              /\ order[n] \in Positions(t)
        BY <1>1, <3>4
      <3>6. Smaller(t, order[n - 1], order[n])
        BY <1>2, <2>1
      <3> QED BY <3>3, <3>5, <3>6, Between
    <2> QED BY <2>2, <2>3
  <1> HIDE DEF T
  <1>4. Nat \subseteq T
    BY <1>3, Induction
  <1>5. y \in Nat /\ y <= Len(t) /\ x \in 0 .. y - 1
    BY DEF Positions
  <1> QED BY <1>4, <1>5 DEF T

\* Every position has one place in the order.
LEMMA Places ==
  ASSUME NEW t \in Seq(Byte), NEW order, Ordered(t, order)
  PROVE  /\ \A x, y \in Positions(t) : order[x] = order[y] => x = y
         /\ \A p \in Positions(t) : \E x \in Positions(t) : order[x] = p
  <1> DEFINE P == Positions(t)
             I == {order[x] : x \in P}
  <1>1. order \in [P -> P]
    BY DEF Ordered
  <1>2. ASSUME NEW x \in P, NEW y \in P, order[x] = order[y]
        PROVE  x = y
    <2>1. ASSUME NEW m \in P, NEW n \in P, m < n
          PROVE  order[m] # order[n]
      BY <1>1, <2>1, Ascending, Irreflexive
    <2> QED BY <1>2, <2>1 DEF Positions
  <1>3. IsFiniteSet(P)
    BY FS_Interval DEF Positions
  <1>4. order \in [P -> I] /\ (\A a, b \in P : order[a] = order[b] =>
          a = b) /\ \A i \in I : \E x \in P : order[x] = i
    BY <1>1, <1>2
  <1>5. order \in Bijection(P, I)
    <2> HIDE DEF P, I
    <2> QED BY <1>4 DEF Bijection, Injection, Surjection, IsInjective
  <1>6. Cardinality(I) = Cardinality(P)
    <2> HIDE DEF P, I
    <2>1. ExistsBijection(P, I)
      BY <1>5 DEF ExistsBijection
    <2> QED BY <1>3, <2>1, FS_Bijection
  <1>7. I \in SUBSET P
    BY <1>1
  <1>8. P = I
    <2> HIDE DEF P, I
    <2> QED BY <1>3, <1>6, <1>7, FS_Subset
  <1> QED BY <1>2, <1>8

Place(order, p) == CHOOSE n \in DOMAIN order : order[n] = p
Neighbour(order, p) == IF Place(order, p) = 0 THEN 0 ELSE order[Place(order, p) - 1]

\* The suffix in front of another is in the place in front of its.
LEMMA NeighbourFacts ==
  ASSUME NEW t \in Seq(Byte), NEW order, Ordered(t, order), NEW p \in 0 .. Len(t) - 1
  PROVE  /\ Place(order, p) \in 1 .. Len(t)
         /\ order[Place(order, p)] = p
         /\ Neighbour(order, p) = order[Place(order, p) - 1]
         /\ Neighbour(order, p) \in Positions(t)
         /\ Smaller(t, Neighbour(order, p), p)
  <1> DEFINE n == Place(order, p)
  <1>0. order \in [Positions(t) -> Positions(t)] /\ Len(t) \in Nat
    BY DEF Ordered
  <1>1. n \in Positions(t) /\ order[n] = p
    <2>1. p \in Positions(t) /\ DOMAIN order = Positions(t)
      BY <1>0 DEF Positions
    <2>2. \E x \in DOMAIN order : order[x] = p
      BY <2>1, Places
    <2> QED BY <2>1, <2>2 DEF Place
  <1> HIDE DEF n
  <1>2. n # 0
    <2> SUFFICES ASSUME n = 0
                 PROVE  FALSE
      OBVIOUS
    <2>1. PICK y \in Positions(t) : order[y] = Len(t)
      <3>1. Len(t) \in Positions(t)
        BY <1>0 DEF Positions
      <3> QED BY <3>1, Places
    <2>2. y # n
      BY <1>1, <2>1
    <2>3. Smaller(t, p, Len(t))
      <3>1. n < y
        BY <2>2 DEF Positions
      <3> QED BY <1>1, <2>1, <3>1, Ascending
    <2>4. PICK k \in Nat : Less(t, p, Len(t), k)
      BY <2>3 DEF Smaller
    <2>5. Len(t) + k <= Len(t)
      <3>1. p \in Positions(t) /\ Len(t) \in Positions(t)
        BY <1>0 DEF Positions
      <3> QED BY <2>4, <3>1, SharesFacts DEF Less
    <2>6. k = 0
      BY <1>0, <2>5
    <2>7. At(t, Len(t)) = -1 /\ At(t, p) >= -1 /\ At(t, p) \in Int
      BY AtFacts, <1>0 DEF At
    <2> QED BY <1>0, <2>4, <2>6, <2>7 DEF Less
  <1>3. n \in 1 .. Len(t) /\ n - 1 \in Positions(t) /\ n - 1 < n
    BY <1>0, <1>1, <1>2 DEF Positions
  <1>4. Neighbour(order, p) = order[n - 1]
    BY <1>2 DEF Neighbour, n
  <1>5. order[n - 1] \in Positions(t)
    BY <1>0, <1>3
  <1>6. Smaller(t, order[n - 1], order[n])
    BY <1>1, <1>3, Ascending
  <1> QED BY <1>1, <1>3, <1>4, <1>5, <1>6 DEF n

\* The neighbour of the suffix in place n is in place n - 1.
LEMMA NeighbourAt ==
  ASSUME NEW t \in Seq(Byte), NEW order, Ordered(t, order), NEW n \in 1 .. Len(t)
  PROVE  order[n] \in 0 .. Len(t) - 1 /\ Place(order, order[n]) = n
           /\ Neighbour(order, order[n]) = order[n - 1]
  <1>0. order \in [Positions(t) -> Positions(t)] /\ Len(t) \in Nat
    BY DEF Ordered
  <1>1. n \in Positions(t) /\ 0 \in Positions(t) /\ order[n] \in Positions(t)
    BY <1>0 DEF Positions
  <1>2. order[n] # Len(t)
    <2> SUFFICES ASSUME order[n] = Len(t)
                 PROVE  FALSE
      OBVIOUS
    <2>1. order[0] \in Positions(t) /\ Smaller(t, order[0], Len(t))
      BY <1>0, <1>1, Ascending
    <2>2. PICK k \in Nat : Less(t, order[0], Len(t), k)
      BY <2>1 DEF Smaller
    <2>3. Len(t) + k <= Len(t)
      <3>1. Len(t) \in Positions(t)
        BY <1>0 DEF Positions
      <3> QED BY <2>1, <2>2, <3>1, SharesFacts DEF Less
    <2>4. k = 0 /\ order[0] \in Nat
      BY <1>0, <2>1, <2>3 DEF Positions
    <2>5. At(t, Len(t)) = -1 /\ At(t, order[0]) >= -1 /\ At(t, order[0]) \in Int
      BY AtFacts, <1>0, <2>4 DEF At
    <2> QED BY <1>0, <2>2, <2>4, <2>5 DEF Less
  <1>3. order[n] \in 0 .. Len(t) - 1
    BY <1>0, <1>1, <1>2 DEF Positions
  <1>4. Place(order, order[n]) = n
    <2>1. Place(order, order[n]) \in Positions(t) /\ order[Place(order, order[n])] = order[n]
      BY <1>0, <1>3, NeighbourFacts DEF Positions
    <2> QED BY <1>1, <2>1, Places
  <1>5. Neighbour(order, order[n]) = order[Place(order, order[n]) - 1]
    BY <1>3, NeighbourFacts
  <1> QED BY <1>3, <1>4, <1>5

\* What a suffix shares with its neighbour, the next suffix shares with its own
\* but for the first byte.
LEMMA NextShares ==
  ASSUME NEW t \in Seq(Byte), NEW order, Ordered(t, order),
         NEW s \in 0 .. Len(t) - 1, s + 1 < Len(t), NEW k \in Nat, k > 0,
         Shares(t, s, Neighbour(order, s), k)
  PROVE  Shares(t, s + 1, Neighbour(order, s + 1), k - 1)
  <1>0. order \in [Positions(t) -> Positions(t)] /\ Len(t) \in Nat
    BY DEF Ordered
  <1>1. PICK j \in Positions(t) : j = Neighbour(order, s) /\ Smaller(t, j, s)
    BY NeighbourFacts
  <1>2. PICK m \in Nat : Shares(t, j, s, m) /\ At(t, j + m) < At(t, s + m)
    BY <1>1 DEF Smaller, Less
  <1>3. s \in Positions(t) /\ s + 1 \in Positions(t) /\ j \in Nat
    BY <1>0 DEF Positions
  <1>4. Shares(t, s, j, k) /\ Shares(t, j, s, k)
    BY <1>1, <1>3, SharesFacts
  <1>5. m >= k
    <2> SUFFICES ASSUME m < k
                 PROVE  FALSE
      OBVIOUS
    <2>1. At(t, j + m) = At(t, s + m)
      BY <1>3, <1>4, <2>1, SharesFacts
    <2>2. At(t, j + m) \in Int /\ At(t, s + m) \in Int
      BY <1>3, AtFacts
    <2> QED BY <1>2, <2>1, <2>2
  <1>6. j + 1 \in Positions(t) /\ j # s
    <2>1. j + k <= Len(t)
      BY <1>3, <1>4, SharesFacts
    <2>2. j # s
      BY <1>1, <1>3, Irreflexive
    <2> QED BY <1>0, <1>3, <2>1, <2>2 DEF Positions
  <1>7. Shares(t, s + 1, j + 1, k - 1)
    <2> SUFFICES ASSUME NEW x \in 0 .. (k - 1) - 1
                 PROVE  Alike(t, (s + 1) + x, t, (j + 1) + x)
      BY DEF Shares
    <2>1. x + 1 \in 0 .. k - 1
      OBVIOUS
    <2>2. Alike(t, s + (x + 1), t, j + (x + 1))
      BY <1>4, <2>1 DEF Shares
    <2>3. s + (x + 1) = (s + 1) + x /\ j + (x + 1) = (j + 1) + x
      BY <1>3
    <2> QED BY <2>2, <2>3
  <1>8. Smaller(t, j + 1, s + 1)
    <2>1. Shares(t, j + 1, s + 1, m - 1)
      <3> SUFFICES ASSUME NEW x \in 0 .. (m - 1) - 1
                   PROVE  Alike(t, (j + 1) + x, t, (s + 1) + x)
        BY DEF Shares
      <3>1. x + 1 \in 0 .. m - 1
        OBVIOUS
      <3>2. Alike(t, j + (x + 1), t, s + (x + 1))
        BY <1>2, <3>1 DEF Shares
      <3>3. s + (x + 1) = (s + 1) + x /\ j + (x + 1) = (j + 1) + x
        BY <1>3
      <3> QED BY <3>2, <3>3
    <2>2. m - 1 \in Nat /\ (j + 1) + (m - 1) = j + m /\ (s + 1) + (m - 1) = s + m
      BY <1>3, <1>5
    <2>3. Less(t, j + 1, s + 1, m - 1)
      BY <1>2, <2>1, <2>2 DEF Less
    <2> QED BY <2>2, <2>3 DEF Smaller
  <1>9. PICK x \in Positions(t) : order[x] = j + 1
    BY <1>6, Places
  <1>10. PICK y \in 1 .. Len(t) : order[y] = s + 1 /\ Neighbour(order, s + 1) = order[y - 1]
    <2>1. s + 1 \in 0 .. Len(t) - 1
      BY <1>0
    <2>2. /\ Place(order, s + 1) \in 1 .. Len(t) /\ order[Place(order, s + 1)] = s + 1
          /\ Neighbour(order, s + 1) = order[Place(order, s + 1) - 1]
      BY <2>1, NeighbourFacts
    <2> QED BY <2>2
  <1>11. y \in Positions(t) /\ y - 1 \in Positions(t)
    BY <1>0 DEF Positions
  <1>12. x <= y - 1
    <2>1. x # y
      BY <1>3, <1>6, <1>9, <1>10
    <2>2. ~(y < x)
      <3> SUFFICES ASSUME y < x
                   PROVE  FALSE
        OBVIOUS
      <3>1. Smaller(t, s + 1, j + 1)
        BY <1>9, <1>10, <1>11, Ascending
      <3>2. Smaller(t, s + 1, s + 1)
        BY <1>3, <1>6, <1>8, <3>1, Between
      <3> QED BY <1>3, <3>2, Irreflexive
    <2> QED BY <1>11, <2>1, <2>2 DEF Positions
  <1>13. CASE x = y - 1
    BY <1>7, <1>9, <1>10, <1>13
  <1>14. CASE x < y - 1
    <2>1. order[y - 1] \in Positions(t)
      BY <1>0, <1>11
    <2>2. Smaller(t, j + 1, order[y - 1])
      BY <1>9, <1>11, <1>14, Ascending
    <2>3. Smaller(t, order[y - 1], s + 1)
      <3>1. y - 1 < y
        OBVIOUS
      <3> QED BY <1>10, <1>11, <3>1, Ascending
    <2>4. k - 1 \in Nat /\ Shares(t, j + 1, s + 1, k - 1)
      BY <1>3, <1>6, <1>7, SharesFacts
    <2>5. PICK q, l : q = order[y - 1] /\ l = k - 1
      OBVIOUS
    <2>6. Shares(t, q, s + 1, l)
      <3>1. /\ q \in Positions(t) /\ l \in Nat /\ Shares(t, j + 1, s + 1, l)
            /\ Smaller(t, j + 1, q) /\ Smaller(t, q, s + 1)
        BY <2>1, <2>2, <2>3, <2>4, <2>5
      <3> QED BY <1>3, <1>6, <3>1, Between
    <2>7. Shares(t, s + 1, q, l)
      BY <1>3, <2>1, <2>4, <2>5, <2>6, SharesFacts
    <2> QED BY <1>10, <2>5, <2>7
  <1> QED BY <1>11, <1>12, <1>13, <1>14 DEF Positions

\* What neighbours share links all that share as much.
LEMMA NeighboursLink ==
  ASSUME NEW t \in Seq(Byte), NEW order, Ordered(t, order), NEW S, NEW k \in Nat,
         \A s \in 0 .. Len(t) - 1 : Shares(t, s, Neighbour(order, s), k) => (s \in S <=>
           Neighbour(order, s) \in S)
  PROVE  \A p, q \in Positions(t) : Shares(t, p, q, k) => (p \in S <=> q \in S)
  <1> DEFINE T == {n \in Nat : n <= Len(t) =>
                 \A m \in 0 .. n - 1 :
                   Shares(t, order[m], order[n], k) => (order[m] \in S <=> order[n] \in S)}
  <1>0. order \in [Positions(t) -> Positions(t)] /\ Len(t) \in Nat
    BY DEF Ordered
  <1>1. ASSUME NEW n \in 1 .. Len(t), Shares(t, order[n - 1], order[n], k)
        PROVE  order[n - 1] \in S <=> order[n] \in S
    <2>1. order[n] \in 0 .. Len(t) - 1 /\ Neighbour(order, order[n]) = order[n - 1]
      BY NeighbourAt
    <2>2. order[n - 1] \in Positions(t) /\ order[n] \in Positions(t)
      BY <1>0 DEF Positions
    <2>3. Shares(t, order[n], order[n - 1], k)
      BY <1>1, <2>2, SharesFacts
    <2> QED BY <2>1, <2>3
  <1>2. ASSUME NEW n \in Nat, \A m \in Nat : m < n => m \in T
        PROVE  n \in T
    <2> SUFFICES ASSUME n <= Len(t), NEW m \in 0 .. n - 1, Shares(t, order[m], order[n], k)
                 PROVE  order[m] \in S <=> order[n] \in S
      OBVIOUS
    <2>1. n \in 1 .. Len(t) /\ n - 1 \in Nat /\ n - 1 < n /\ n - 1 <= Len(t)
      BY <1>0
    <2>2. CASE m = n - 1
      BY <1>1, <2>1, <2>2
    <2>3. CASE m # n - 1
      <3>1. m \in 0 .. (n - 1) - 1 /\ m < n - 1
        BY <2>1, <2>3
      <3>2. m \in Positions(t) /\ n - 1 \in Positions(t) /\ n \in Positions(t)
        BY <1>0, <2>1 DEF Positions
      <3>3. order[m] \in Positions(t) /\ order[n - 1] \in Positions(t)
              /\ order[n] \in Positions(t)
        BY <1>0, <3>2
      <3>4. Smaller(t, order[m], order[n - 1]) /\ Smaller(t, order[n - 1], order[n])
        BY <2>1, <3>1, <3>2, Ascending
      <3>5. Shares(t, order[m], order[n - 1], k) /\ Shares(t, order[n - 1], order[n], k)
        BY <3>3, <3>4, Between
      <3>6. n - 1 \in T
        BY <1>2, <2>1
      <3>7. order[m] \in S <=> order[n - 1] \in S
        BY <2>1, <3>1, <3>5, <3>6
      <3>8. order[n - 1] \in S <=> order[n] \in S
        BY <1>1, <2>1, <3>5
      <3> QED BY <3>7, <3>8
    <2> QED BY <2>2, <2>3
  <1> HIDE DEF T
  <1>3. Nat \subseteq T
    BY <1>2, Induction
  <1>4. ASSUME NEW x \in Positions(t), NEW y \in Positions(t),
               Shares(t, order[x], order[y], k), x < y
        PROVE  order[x] \in S <=> order[y] \in S
    <2>1. y \in Nat /\ y <= Len(t) /\ x \in 0 .. y - 1
      BY <1>4 DEF Positions
    <2> QED BY <1>3, <1>4, <2>1 DEF T
  <1>5. ASSUME NEW p \in Positions(t), NEW q \in Positions(t), Shares(t, p, q, k)
        PROVE  p \in S <=> q \in S
    <2>1. PICK x \in Positions(t) : order[x] = p
      BY Places
    <2>2. PICK y \in Positions(t) : order[y] = q
      BY Places
    <2>3. CASE x < y
      BY <1>4, <1>5, <2>1, <2>2, <2>3
    <2>4. CASE y < x
      <3>1. Shares(t, q, p, k)
        BY <1>5, SharesFacts
      <3> QED BY <1>4, <2>1, <2>2, <2>4, <3>1
    <2>5. CASE x = y
      BY <2>1, <2>2, <2>5
    <2> QED BY <2>3, <2>4, <2>5 DEF Positions
  <1> QED BY <1>5

\* S is what is behind a neighbour and s in the order.
Cuts(S, t, order, s) ==
  /\ s \in S /\ Neighbour(order, s) \notin S
  /\ \A r \in 0 .. Len(t) - 1 : r # s => (r \in S <=> Neighbour(order, r) \in S)

\* Nothing but a suffix and its neighbour links what is before it in the order
\* to what is behind.
LEMMA NeighboursCut ==
  ASSUME NEW t \in Seq(Byte), NEW order, Ordered(t, order), NEW s \in 0 .. Len(t) - 1
  PROVE  \E S \in SUBSET Positions(t) : Cuts(S, t, order, s)
  <1>0. order \in [Positions(t) -> Positions(t)] /\ Len(t) \in Nat
    BY DEF Ordered
  <1>1. PICK n \in 1 .. Len(t) : n = Place(order, s) /\ order[n] = s
               /\ Neighbour(order, s) = order[n - 1]
    <2>1. /\ Place(order, s) \in 1 .. Len(t) /\ order[Place(order, s)] = s
          /\ Neighbour(order, s) = order[Place(order, s) - 1]
      BY NeighbourFacts
    <2> QED BY <2>1
  <1> DEFINE S == {p \in Positions(t) : \E x \in n .. Len(t) : order[x] = p}
  <1>2. \A x \in Positions(t) : order[x] \in S <=> x >= n
    <2> SUFFICES ASSUME NEW x \in Positions(t)
                 PROVE  order[x] \in S <=> x >= n
      OBVIOUS
    <2>1. ASSUME x >= n
          PROVE  order[x] \in S
      BY <1>0, <2>1 DEF Positions
    <2>2. ASSUME order[x] \in S
          PROVE  x >= n
      <3>1. PICK y \in n .. Len(t) : order[y] = order[x]
        BY <2>2
      <3>2. y \in Positions(t)
        BY <1>0 DEF Positions
      <3>3. x = y
        BY <3>1, <3>2, Places
      <3> QED BY <3>1, <3>3
    <2> QED BY <2>1, <2>2
  <1> HIDE DEF S
  <1>3. s \in S /\ Neighbour(order, s) \notin S
    <2>1. n \in Positions(t) /\ n - 1 \in Positions(t)
      BY <1>0 DEF Positions
    <2> QED BY <1>1, <1>2, <2>1
  <1>4. ASSUME NEW r \in 0 .. Len(t) - 1, r # s
        PROVE  r \in S <=> Neighbour(order, r) \in S
    <2>1. PICK m \in 1 .. Len(t) : order[m] = r /\ Neighbour(order, r) = order[m - 1]
      <3>1. /\ Place(order, r) \in 1 .. Len(t) /\ order[Place(order, r)] = r
            /\ Neighbour(order, r) = order[Place(order, r) - 1]
        BY NeighbourFacts
      <3> QED BY <3>1
    <2>2. m # n
      BY <1>1, <1>4, <2>1
    <2>3. m \in Positions(t) /\ m - 1 \in Positions(t)
      BY <1>0 DEF Positions
    <2>4. m >= n <=> m - 1 >= n
      BY <2>2
    <2> QED BY <1>2, <2>1, <2>3, <2>4
  <1>5. S \in SUBSET Positions(t)
    BY DEF S
  <1> QED BY <1>3, <1>4, <1>5 DEF Cuts

-----------------------------------------------------------------------------
(* The recursion that fills the table of factors. *)

\* Names of the pairs that are linked: the factor of a position by it, and
Called == -1
Waiting(s) == -2 - s
Nobody == Len(target) + 1

Linked(S, p, q) == p \in S <=> q \in S

\* S separates no pair that shares k bytes or more, but for the one named e: the
\* positions and their factors, the pair of the call, and neighbours that are
\* still to come.
Keeps(S, k, e) ==
  /\ \A p \in Positions(target) : lengths[p] >= k /\ p # e => Linked(S, p, offsets[p])
  /\ call # NoCall /\ call.k >= k /\ e # Called => Linked(S, call.i, call.j)
  /\ \A s \in suffix .. Len(target) - 1 :
       Shares(target, s, Phi(s), k) /\ e # Waiting(s) => Linked(S, s, Phi(s))

Entries ==
  /\ lengths \in [Positions(target) -> Int] /\ offsets \in [Positions(target) -> Int]
  /\ \A p \in Positions(target) : lengths[p] >= -1
  /\ \A p \in Positions(target) : lengths[p] >= 0 =>
       offsets[p] \in 0 .. p - 1 /\ Shares(target, p, offsets[p], lengths[p])

Current ==
  /\ suffix \in Positions(target) /\ common \in Nat
  /\ suffix < Len(target) => Shares(target, suffix, Phi(suffix), common)
  /\ call # NoCall =>
       /\ call.i \in Positions(target) /\ call.j \in 0 .. call.i - 1 /\ call.k \in Nat
       /\ Shares(target, call.i, call.j, call.k)

Links ==
  \A k \in Nat, S \in SUBSET Positions(target) :
    Keeps(S, k, Nobody) => \A p, q \in Positions(target) : Shares(target, p, q, k) =>
      Linked(S, p, q)

Bridge(e, p, q) == \E S \in SUBSET Positions(target) : Keeps(S, 0, e) /\ ~Linked(S, p, q)

Bridges ==
  /\ \A p \in Positions(target) : lengths[p] >= 0 => Bridge(p, p, offsets[p])
  /\ call # NoCall => Bridge(Called, call.i, call.j)
  /\ \A s \in suffix .. Len(target) - 1 : Bridge(Waiting(s), s, Phi(s))

Sorted == target \in Seq(Byte) /\ Ordered(target, sa.text)

TableInv == Entries /\ Current /\ Links /\ Bridges

\* How far two suffixes agree is the most they share.
LEMMA CommonShares ==
  ASSUME NEW t \in Seq(Byte), NEW p \in Positions(t), NEW q \in Positions(t), NEW k \in Nat
  PROVE  /\ Common(t, p, t, q, 0) \in Nat
         /\ Shares(t, p, q, k) <=> k <= Common(t, p, t, q, 0)
  <1>1. PICK n : n = Common(t, p, t, q, 0)
    OBVIOUS
  <1>2. n \in Nat /\ Shares(t, p, q, n) /\ ~Alike(t, p + n, t, q + n)
    BY <1>1, CommonFacts DEF Shares, Positions
  <1>3. ASSUME Shares(t, p, q, k)
        PROVE  k <= n
    BY <1>2, <1>3 DEF Shares
  <1>4. ASSUME k <= n
        PROVE  Shares(t, p, q, k)
    BY <1>2, <1>4, SharesFacts
  <1> QED BY <1>1, <1>2, <1>3, <1>4

\* Phi of the code is the neighbour of a suffix, and another suffix.
LEMMA PhiFacts ==
  ASSUME Sorted, NEW s \in 0 .. Len(target) - 1
  PROVE  /\ Phi(s) = Neighbour(sa.text, s)
         /\ Phi(s) \in Positions(target) /\ Phi(s) # s /\ s \in Positions(target)
  <1>1. Phi(s) = Neighbour(sa.text, s)
    BY DEF Phi, Neighbour, Place
  <1>2. s \in Positions(target)
    BY DEF Positions
  <1>3. Neighbour(sa.text, s) \in Positions(target)
          /\ Smaller(target, Neighbour(sa.text, s), s)
    BY NeighbourFacts DEF Sorted
  <1> QED BY <1>1, <1>2, <1>3, Irreflexive DEF Sorted

\* The two positions of a call are put in order, the later one first.
LEMMA CallFacts ==
  ASSUME NEW p \in Nat, NEW q \in Nat, NEW k \in Nat, p # q
  PROVE  /\ Call(p, q, k) # NoCall
         /\ \/ p > q /\ Call(p, q, k).i = p /\ Call(p, q, k).j = q
            \/ q > p /\ Call(p, q, k).i = q /\ Call(p, q, k).j = p
         /\ Call(p, q, k).k = k
  <1>1. Call(p, q, k) \in [i : Nat, j : Nat, k : Nat]
    BY DEF Call
  <1>2. Call(p, q, k) # NoCall
    BY <1>1, CallAssumption
  <1> QED BY <1>2 DEF Call

\* The first table: nothing is known, and all neighbours are still to come.
Empty ==
  /\ lengths = [p \in Positions(target) |-> -1] /\ offsets = [p \in Positions(target) |-> -1]
  /\ suffix = 0 /\ common = 0 /\ call = NoCall

\* At first nothing is known, and the neighbours of the order link and cut all.
LEMMA TableBegins == Sorted /\ Empty => TableInv
  <1> SUFFICES ASSUME Sorted, Empty
               PROVE  TableInv
    OBVIOUS
  <1> USE DEF Empty
  <1>1. Len(target) \in Nat
    BY DEF Sorted
  <1>2. Entries
    BY DEF Entries
  <1>3. Current
    BY <1>1 DEF Current, Shares, Positions
  <1>4. Links
    <2> SUFFICES ASSUME NEW k \in Nat, NEW S, Keeps(S, k, Nobody)
                 PROVE  \A p, q \in Positions(target) : Shares(target, p, q, k) =>
                          Linked(S, p, q)
      BY DEF Links
    <2>1. ASSUME NEW s \in 0 .. Len(target) - 1, Shares(target, s, Neighbour(sa.text, s), k)
          PROVE  s \in S <=> Neighbour(sa.text, s) \in S
      <3>1. Nobody # Waiting(s)
        BY <1>1 DEF Nobody, Waiting
      <3>2. Phi(s) = Neighbour(sa.text, s)
        BY PhiFacts
      <3> QED BY <2>1, <3>1, <3>2 DEF Keeps, Linked
    <2> QED BY <2>1, NeighboursLink DEF Sorted, Linked
  <1>5. Bridges
    <2>1. ASSUME NEW s \in 0 .. Len(target) - 1
          PROVE  Bridge(Waiting(s), s, Phi(s))
      <3>1. PICK S \in SUBSET Positions(target) : Cuts(S, target, sa.text, s)
        BY NeighboursCut DEF Sorted
      <3>2. ASSUME NEW r \in 0 .. Len(target) - 1, Waiting(s) # Waiting(r)
            PROVE  Linked(S, r, Phi(r))
        BY <3>1, <3>2, PhiFacts DEF Linked, Waiting, Cuts
      <3>3. ~Linked(S, s, Phi(s))
        BY <3>1, PhiFacts DEF Linked, Cuts
      <3>4. Keeps(S, 0, Waiting(s))
        BY <3>2 DEF Keeps
      <3> QED BY <3>3, <3>4 DEF Bridge
    <2> QED BY <2>1 DEF Bridges
  <1> QED BY <1>2, <1>3, <1>4, <1>5 DEF TableInv

\* The neighbours that were next become the pair of the call.
LEMMA NextSuffixStep ==
  ASSUME Sorted, TableInv, NextSuffix(target), UNCHANGED target
  PROVE  TableInv'
  <1>1. PICK s, j, k : s = suffix /\ j = Phi(s) /\ k = Common(target, s, target, j, common)
    OBVIOUS
  <1>2. /\ call = NoCall /\ s \in 0 .. Len(target) - 1 /\ Len(target) \in Nat
        /\ call' = Call(s, j, k) /\ common' = (IF k > 0 THEN k - 1 ELSE 0) /\ suffix' = s + 1
        /\ UNCHANGED <<sa, lengths, offsets, target>>
    BY <1>1 DEF NextSuffix, TableInv, Current, Sorted, Positions
  <1>3. j \in Positions(target) /\ s \in Positions(target) /\ j # s
          /\ j = Neighbour(sa.text, s)
    BY <1>1, <1>2, PhiFacts
  <1>4. common \in Nat /\ Shares(target, s, j, common)
    BY <1>1, <1>2 DEF TableInv, Current
  <1>5. k \in Nat /\ k >= common /\ ~Alike(target, s + k, target,
          j + k) /\ \A m \in common .. k - 1 : Alike(target, s + m, target, j + m)
    <2>1. target \in Seq(Byte) /\ s \in Nat /\ j \in Nat
      BY <1>3 DEF Sorted, Positions
    <2> QED BY <1>1, <1>4, <2>1, CommonFacts
  <1>6. Shares(target, s, j, k)
    BY <1>4, <1>5 DEF Shares
  <1>7. ASSUME NEW n \in Nat, Shares(target, s, j, n)
        PROVE  n <= k
    BY <1>5, <1>7 DEF Shares
  <1>8. /\ call' # NoCall
        /\ \/ s > j /\ call'.i = s /\ call'.j = j
           \/ j > s /\ call'.i = j /\ call'.j = s
        /\ call'.k = k
    <2>1. s \in Nat /\ j \in Nat /\ k \in Nat /\ s # j
      BY <1>3, <1>5 DEF Positions
    <2>2. /\ Call(s, j, k) # NoCall
          /\ \/ s > j /\ Call(s, j, k).i = s /\ Call(s, j, k).j = j
             \/ j > s /\ Call(s, j, k).i = j /\ Call(s, j, k).j = s
          /\ Call(s, j, k).k = k
      BY <2>1, CallFacts
    <2>3. call' = Call(s, j, k)
      BY <1>2
    <2> QED BY <2>2, <2>3
  <1>9. \A r : Phi(r)' = Phi(r)
    BY <1>2 DEF Phi
  <1>10. Entries'
    BY <1>2 DEF TableInv, Entries
  <1>11. Current'
    <2>1. suffix' \in Positions(target) /\ common' \in Nat
      BY <1>2, <1>5 DEF Positions
    <2>2. s + 1 < Len(target) => Shares(target, s + 1, Phi(s + 1), common')
      <3>1. CASE k > 0 /\ s + 1 < Len(target)
        <4>1. Shares(target, s + 1, Neighbour(sa.text, s + 1), k - 1)
          BY <1>2, <1>3, <1>5, <1>6, <3>1, NextShares DEF Sorted
        <4>2. Phi(s + 1) = Neighbour(sa.text, s + 1)
          BY <1>2, <3>1, PhiFacts
        <4> QED BY <1>2, <3>1, <4>1, <4>2
      <3>2. CASE ~(k > 0)
        BY <1>2, <3>2 DEF Shares
      <3> QED BY <3>1, <3>2
    <2>3. /\ call'.i \in Positions(target) /\ call'.j \in 0 .. call'.i - 1 /\ call'.k \in Nat
          /\ Shares(target, call'.i, call'.j, call'.k)
      <3>1. Shares(target, j, s, k)
        BY <1>3, <1>5, <1>6, SharesFacts DEF Sorted
      <3>2. s \in Nat /\ j \in Nat
        BY <1>3 DEF Positions
      <3> QED BY <1>3, <1>5, <1>6, <1>8, <3>1, <3>2
    <2> QED BY <1>2, <1>9, <2>1, <2>2, <2>3 DEF Current
  <1>12. ASSUME NEW S, NEW n \in Nat, NEW e \in Int, NEW d \in Int,
                \A p \in Positions(target) : p # d => p # e,
                \A r \in s + 1 .. Len(target) - 1 : d # Waiting(r) => e # Waiting(r),
                d # Waiting(s) /\ n <= k => e # Called,
                Keeps(S, n, e)'
         PROVE  Keeps(S, n, d)
    <2>1. \A p \in Positions(target) : lengths[p] >= n /\ p # d => Linked(S, p, offsets[p])
      BY <1>2, <1>12 DEF Keeps, Linked
    <2>2. ASSUME NEW r \in s .. Len(target) - 1, Shares(target, r, Phi(r), n), d # Waiting(r)
          PROVE  Linked(S, r, Phi(r))
      <3>1. CASE r = s
        <4>1. n <= k /\ e # Called
          BY <1>1, <1>7, <1>12, <2>2, <3>1
        <4>2. Linked(S, call'.i, call'.j)
          BY <1>5, <1>8, <1>12, <4>1 DEF Keeps, Linked
        <4> QED BY <1>1, <1>8, <3>1, <4>2 DEF Linked
      <3>2. CASE r # s
        <4>1. r \in s + 1 .. Len(target) - 1
          BY <1>2, <3>2
        <4> QED BY <1>2, <1>9, <1>12, <2>2, <4>1 DEF Keeps, Linked
      <3> QED BY <3>1, <3>2
    <2> QED BY <1>1, <1>2, <2>1, <2>2 DEF Keeps
  <1>13. Links'
    <2> SUFFICES ASSUME NEW n \in Nat, NEW S \in SUBSET Positions(target),
                        Keeps(S, n, Nobody)'
                 PROVE  \A p, q \in Positions(target) : Shares(target, p, q, n) =>
                          Linked(S, p, q)
      BY <1>2 DEF Links, Linked
    <2>1. Keeps(S, n, Nobody)
      <3>1. Nobody' = Nobody /\ Nobody # Called /\ Nobody \in Int
        BY <1>2 DEF Nobody, Called
      <3> QED BY <1>12, <3>1
    <2> QED BY <2>1 DEF TableInv, Links
  <1>14. ASSUME NEW S, NEW e \in Int, NEW d \in Int, Keeps(S, 0, d),
                \A p \in Positions(target) : p # e => p # d,
                \A r \in s + 1 .. Len(target) - 1 : e # Waiting(r) => d # Waiting(r),
                e # Called => d # Waiting(s)
         PROVE  Keeps(S, 0, e)'
    <2>1. \A p \in Positions(target) : lengths[p] >= 0 /\ p # e => Linked(S, p, offsets[p])
      BY <1>14 DEF Keeps
    <2>2. \A r \in s + 1 .. Len(target) - 1 : e # Waiting(r) => Linked(S, r, Phi(r))
      BY <1>1, <1>2, <1>14 DEF Keeps, Shares
    <2>3. e # Called => Linked(S, s, j)
      BY <1>1, <1>2, <1>14 DEF Keeps, Shares
    <2>4. e # Called => Linked(S, call'.i, call'.j)
      BY <1>8, <2>3 DEF Linked
    <2> QED BY <1>2, <1>9, <2>1, <2>2, <2>4 DEF Keeps, Linked
  <1>15. Bridges'
    <2>1. ASSUME NEW p \in Positions(target), lengths[p] >= 0
          PROVE  Bridge(p, p, offsets[p])'
      <3>1. PICK S \in SUBSET Positions(target) : Keeps(S, 0, p) /\ ~Linked(S, p, offsets[p])
        BY <2>1 DEF TableInv, Bridges, Bridge
      <3>2. Keeps(S, 0, p)'
        <4>1. p \in Int /\ p # Waiting(s)
          BY <1>2 DEF Waiting, Positions
        <4> QED BY <1>14, <3>1, <4>1
      <3> QED BY <1>2, <3>1, <3>2 DEF Bridge, Linked
    <2>2. Bridge(Called, call.i, call.j)'
      <3>1. PICK S \in SUBSET Positions(target) : Keeps(S, 0, Waiting(s)) /\ ~Linked(S, s, j)
        BY <1>1, <1>2 DEF TableInv, Bridges, Bridge
      <3>2. Keeps(S, 0, Called)'
        <4>1. /\ Waiting(s) \in Int /\ Called \in Int
              /\ \A p \in Positions(target) : p # Waiting(s)
              /\ \A r \in s + 1 .. Len(target) - 1 : Waiting(s) # Waiting(r)
          BY <1>2 DEF Waiting, Called, Positions
        <4> QED BY <1>14, <3>1, <4>1
      <3>3. ~Linked(S, call'.i, call'.j)
        BY <1>8, <3>1 DEF Linked
      <3> QED BY <1>2, <3>2, <3>3 DEF Bridge, Linked
    <2>3. ASSUME NEW r \in s + 1 .. Len(target) - 1
          PROVE  Bridge(Waiting(r), r, Phi(r))'
      <3>1. PICK S \in SUBSET Positions(target) :
                   Keeps(S, 0, Waiting(r)) /\ ~Linked(S, r, Phi(r))
        <4>1. r \in suffix .. Len(target) - 1
          BY <1>1, <1>2
        <4> QED BY <4>1 DEF TableInv, Bridges, Bridge
      <3>2. Keeps(S, 0, Waiting(r))'
        <4>1. Waiting(r) \in Int /\ Waiting(r) # Waiting(s)
          BY <1>2 DEF Waiting
        <4> QED BY <1>14, <3>1, <4>1
      <3> QED BY <1>2, <1>9, <3>1, <3>2 DEF Bridge, Linked, Waiting
    <2> QED BY <1>2, <2>1, <2>2, <2>3 DEF Bridges
  <1> QED BY <1>10, <1>11, <1>13, <1>15 DEF TableInv

\* What a position learns of: of two factors the longer one stays, and the later
\* of both sources learns of the shorter.
LEMMA RecurseStep ==
  ASSUME Sorted, TableInv, Recurse, UNCHANGED target
  PROVE  TableInv'
  <1>0. \A p \in Positions(target) : p # Called
    BY DEF Called, Positions
  <1>1. PICK i, b, m : i = call.i /\ b = call.j /\ m = call.k
    OBVIOUS
  <1>2. PICK a, l : a = offsets[i] /\ l = lengths[i]
    OBVIOUS
  <1>3. /\ call # NoCall
        /\ lengths' = (IF l < m THEN [lengths EXCEPT ![i] = m] ELSE lengths)
        /\ offsets' = (IF l < m THEN [offsets EXCEPT ![i] = b] ELSE offsets)
        /\ call' = (IF ~(l >= 0) THEN NoCall ELSE Call(a, b, IF l < m THEN l ELSE m))
        /\ UNCHANGED <<sa, suffix, common, target>>
    BY <1>1, <1>2 DEF Recurse
  <1>4. /\ i \in Positions(target) /\ b \in 0 .. i - 1 /\ m \in Nat /\ Shares(target, i, b, m)
        /\ b \in Positions(target) /\ l \in Int /\ l >= -1
        /\ l >= 0 => a \in 0 .. i - 1 /\ Shares(target, i, a, l) /\ a \in Positions(target)
    BY <1>1, <1>2, <1>3 DEF TableInv, Current, Entries, Positions
  <1>5. /\ lengths \in [Positions(target) -> Int] /\ offsets \in [Positions(target) -> Int]
        /\ target \in Seq(Byte)
    BY DEF TableInv, Entries, Sorted
  <1>6. Phi(0)' = Phi(0) /\ \A r : Phi(r)' = Phi(r)
    BY <1>3 DEF Phi
  <1>7. /\ lengths' \in [Positions(target) -> Int] /\ offsets' \in [Positions(target) -> Int]
        /\ \A p \in Positions(target) : p # i =>
             lengths'[p] = lengths[p] /\ offsets'[p] = offsets[p]
        /\ l < m => lengths'[i] = m /\ offsets'[i] = b
        /\ ~(l < m) => lengths'[i] = l /\ offsets'[i] = a
    BY <1>2, <1>3, <1>4, <1>5
  <1>8. Entries'
    BY <1>3, <1>4, <1>7 DEF TableInv, Entries
  <1>9. ASSUME l >= 0
        PROVE  a # b
    <2>1. PICK S \in SUBSET Positions(target) : Keeps(S, 0, Called) /\ ~Linked(S, i, b)
      BY <1>1, <1>3 DEF TableInv, Bridges, Bridge
    <2>2. i # Called
      BY <1>4 DEF Called, Positions
    <2>3. Linked(S, i, a)
      BY <1>2, <1>4, <1>9, <2>1, <2>2 DEF Keeps
    <2> QED BY <2>1, <2>3
  <1>10. PICK w : w = IF l < m THEN l ELSE m
    OBVIOUS
  <1>11. ASSUME l >= 0
         PROVE  /\ call' # NoCall /\ call'.k = w /\ w \in Nat /\ w <= l /\ w <= m
                /\ \/ a > b /\ call'.i = a /\ call'.j = b
                   \/ b > a /\ call'.i = b /\ call'.j = a
    <2>1. a \in Nat /\ b \in Nat /\ w \in Nat /\ a # b
      BY <1>4, <1>9, <1>10, <1>11 DEF Positions
    <2>2. /\ Call(a, b, w) # NoCall
          /\ \/ a > b /\ Call(a, b, w).i = a /\ Call(a, b, w).j = b
             \/ b > a /\ Call(a, b, w).i = b /\ Call(a, b, w).j = a
          /\ Call(a, b, w).k = w
      BY <2>1, CallFacts
    <2>3. call' = Call(a, b, w)
      BY <1>3, <1>10, <1>11
    <2>4. w <= l /\ w <= m
      BY <1>4, <1>10
    <2> QED BY <2>1, <2>2, <2>3, <2>4
  <1>12. ASSUME ~(l >= 0)
         PROVE  call' = NoCall /\ l < m /\ lengths'[i] = m /\ offsets'[i] = b
    BY <1>3, <1>4, <1>7, <1>12
  <1>13. Current'
    <2>1. ASSUME l >= 0
          PROVE  Shares(target, a, b, w) /\ Shares(target, b, a, w)
      <3>1. w \in 0 .. l /\ w \in 0 .. m /\ l \in Nat
        BY <1>4, <1>11, <2>1
      <3>2. Shares(target, i, a, w) /\ Shares(target, i, b, w)
        BY <1>4, <1>5, <2>1, <3>1, SharesFacts
      <3>3. Shares(target, a, b, w)
        BY <3>2 DEF Shares, Alike
      <3> QED BY <1>4, <1>5, <2>1, <3>1, <3>3, SharesFacts
    <2>2. ASSUME l >= 0
          PROVE  /\ call'.i \in Positions(target) /\ call'.j \in 0 .. call'.i - 1
                      /\ call'.k \in Nat
                 /\ Shares(target, call'.i, call'.j, call'.k)
      BY <1>4, <1>11, <2>1, <2>2
    <2>3. call' # NoCall => l >= 0
      BY <1>3
    <2> QED BY <1>3, <1>6, <2>2, <2>3 DEF TableInv, Current
  <1>14. Links'
    <2> SUFFICES ASSUME NEW n \in Nat, NEW S \in SUBSET Positions(target),
                        Keeps(S, n, Nobody)'
                 PROVE  Keeps(S, n, Nobody)
      <3>1. Positions(target)' = Positions(target)
        BY <1>3
      <3>2. ASSUME NEW n \in Nat, NEW S \in SUBSET Positions(target), Keeps(S, n, Nobody)
            PROVE  \A p, q \in Positions(target) : Shares(target, p, q, n) => Linked(S, p, q)
        BY <3>2 DEF TableInv, Links
      <3> QED BY <1>3, <3>1, <3>2 DEF Links, Linked
    <2>1. /\ Nobody' = Nobody /\ Nobody # Called /\ Nobody \notin Positions(target)
          /\ \A s \in suffix .. Len(target) - 1 : Nobody # Waiting(s)
      BY <1>3, <1>5 DEF Nobody, Called, Waiting, Positions, TableInv, Current
    <2>2. \A p \in Positions(target) : lengths'[p] >= n => Linked(S, p, offsets'[p])
      BY <1>3, <2>1 DEF Keeps, Linked
    <2>3. l >= 0 /\ n <= w => Linked(S, a, b)
      BY <1>3, <1>11, <2>1 DEF Keeps, Linked
    <2>4. \A s \in suffix .. Len(target) - 1 : Shares(target, s, Phi(s), n) =>
            Linked(S, s, Phi(s))
      BY <1>3, <1>6, <2>1 DEF Keeps, Linked
    <2>5. n <= m => Linked(S, i, b)
      <3>1. CASE l < m
        BY <1>4, <1>7, <2>2, <3>1
      <3>2. CASE ~(l < m) /\ n <= m
        <4>1. Linked(S, i, a)
          BY <1>4, <1>7, <2>2, <3>2
        <4>2. Linked(S, a, b)
          BY <1>4, <1>10, <2>3, <3>2
        <4> QED BY <4>1, <4>2 DEF Linked
      <3> QED BY <3>1, <3>2
    <2>6. n <= l => Linked(S, i, a)
      <3>1. CASE ~(l < m)
        BY <1>4, <1>7, <2>2, <3>1
      <3>2. CASE l < m /\ n <= l
        <4>1. Linked(S, a, b)
          BY <1>4, <1>10, <2>3, <3>2
        <4>2. Linked(S, i, b)
          BY <1>4, <2>5, <3>2
        <4> QED BY <4>1, <4>2 DEF Linked
      <3> QED BY <3>1, <3>2
    <2>7. \A p \in Positions(target) : lengths[p] >= n => Linked(S, p, offsets[p])
      BY <1>2, <1>7, <2>2, <2>6
    <2> QED BY <1>1, <2>4, <2>5, <2>7 DEF Keeps
  \* A set keeps the new pairs together if it keeps the two that are taken apart,
  \* or separates just one of them.
  <1>15. ASSUME NEW S \in SUBSET Positions(target), NEW e \in Int,
                \A p \in Positions(target) : p # e /\ p # i /\ lengths[p] >= 0 =>
                  Linked(S, p, offsets[p]),
                e # i => Linked(S, i, offsets'[i]),
                l >= 0 /\ e # Called => Linked(S, a, b),
                \A s \in suffix .. Len(target) - 1 : e # Waiting(s) => Linked(S, s, Phi(s))
         PROVE  Keeps(S, 0, e)'
    <2>1. \A p \in Positions(target) : lengths'[p] >= 0 /\ p # e => Linked(S, p, offsets'[p])
      BY <1>7, <1>15
    <2>2. call' # NoCall /\ e # Called => Linked(S, call'.i, call'.j)
      <3>1. call' # NoCall => l >= 0
        BY <1>3
      <3> QED BY <1>11, <1>15, <3>1 DEF Linked
    <2> QED BY <1>3, <1>6, <1>15, <2>1, <2>2 DEF Keeps, Linked
  <1>16. ASSUME NEW S \in SUBSET Positions(target), NEW e \in Int, Keeps(S, 0, e)
         PROVE  /\ \A p \in Positions(target) : p # e /\ lengths[p] >= 0 =>
                     Linked(S, p, offsets[p])
                /\ e # i /\ l >= 0 => Linked(S, i, a)
                /\ e # Called => Linked(S, i, b)
                /\ \A s \in suffix .. Len(target) - 1 : e # Waiting(s) => Linked(S, s, Phi(s))
    <2>1. \A s : Shares(target, s, Phi(s), 0)
      BY DEF Shares
    <2>2. call.k >= 0
      BY <1>1, <1>4
    <2>3. Linked(S, call.i, call.j) <=> Linked(S, i, b)
      BY <1>1
    <2>4. \A p \in Positions(target) : p # e /\ lengths[p] >= 0 => Linked(S, p, offsets[p])
      BY <1>16 DEF Keeps
    <2> QED BY <1>2, <1>3, <1>4, <1>16, <2>1, <2>2, <2>3, <2>4 DEF Keeps
  <1>17. i # Called /\ \A s \in suffix .. Len(target) - 1 :
           i # Waiting(s) /\ Called # Waiting(s) /\ Waiting(s) \in Int
             /\ Waiting(s) \notin Positions(target)
    BY <1>4, <1>5 DEF Called, Waiting, Positions, TableInv, Current
  <1>18. ASSUME NEW S \in SUBSET Positions(target), NEW e \in Int, e # i, e # Called,
                Keeps(S, 0, e)
         PROVE  Keeps(S, 0, e)'
    <2>1. Linked(S, i, b) /\ (l >= 0 => Linked(S, i, a))
      BY <1>16, <1>18
    <2>2. l >= 0 => Linked(S, a, b)
      BY <2>1 DEF Linked
    <2>3. Linked(S, i, offsets'[i])
      BY <1>4, <1>7, <2>1
    <2> QED BY <1>15, <1>16, <1>18, <2>2, <2>3
  <1>19. ASSUME NEW p \in Positions(target), p # i, lengths[p] >= 0
         PROVE  Bridge(p, p, offsets[p])'
    <2>1. PICK S \in SUBSET Positions(target) : Keeps(S, 0, p) /\ ~Linked(S, p, offsets[p])
      BY <1>19 DEF TableInv, Bridges, Bridge
    <2>2. p \in Int /\ p # Called
      BY DEF Called, Positions
    <2>3. Keeps(S, 0, p)'
      BY <1>18, <1>19, <2>1, <2>2
    <2> QED BY <1>3, <1>7, <1>19, <2>1, <2>3 DEF Bridge, Linked
  <1>20. ASSUME NEW s \in suffix .. Len(target) - 1
         PROVE  Bridge(Waiting(s), s, Phi(s))'
    <2>1. PICK S \in SUBSET Positions(target) :
                 Keeps(S, 0, Waiting(s)) /\ ~Linked(S, s, Phi(s))
      BY DEF TableInv, Bridges, Bridge
    <2>2. Keeps(S, 0, Waiting(s))'
      BY <1>17, <1>18, <2>1
    <2>3. Waiting(s)' = Waiting(s)
      BY DEF Waiting
    <2> QED BY <1>3, <1>6, <2>1, <2>2, <2>3 DEF Bridge, Linked
  <1>21. PICK B \in SUBSET Positions(target) : Keeps(B, 0, Called) /\ ~Linked(B, i, b)
    BY <1>1, <1>3 DEF TableInv, Bridges, Bridge
  <1>22. i \in Int /\ Called \in Int
    BY <1>4 DEF Called, Positions
  <1>23. CASE ~(l >= 0)
    <2>1. Keeps(B, 0, i)'
      <3>1. \A p \in Positions(target) : p # i /\ lengths[p] >= 0 => Linked(B, p, offsets[p])
        BY <1>16, <1>21, <1>22, <1>0
      <3>2. \A s \in suffix .. Len(target) - 1 : Linked(B, s, Phi(s))
        BY <1>16, <1>17, <1>21, <1>22
      <3> QED BY <1>15, <1>22, <1>23, <3>1, <3>2
    <2>2. Bridge(i, i, offsets[i])'
      BY <1>3, <1>12, <1>21, <1>23, <2>1 DEF Bridge, Linked
    <2>3. call' = NoCall
      BY <1>12, <1>23
    <2> QED BY <1>3, <1>8, <1>7, <1>13, <1>14, <1>19, <1>20, <2>2, <2>3 DEF TableInv, Bridges
  <1>24. CASE l >= 0
    <2>1. PICK A \in SUBSET Positions(target) : Keeps(A, 0, i) /\ ~Linked(A, i, a)
      BY <1>2, <1>4, <1>24 DEF TableInv, Bridges, Bridge
    <2>2. Linked(A, i, b) /\ Linked(B, i, a)
      BY <1>16, <1>17, <1>21, <1>22, <1>24, <2>1
    \* What just one of them holds apart.
    <2>0. PICK D : D = {p \in Positions(target) : ~(p \in A <=> p \in B)}
      OBVIOUS
    <2>3. \A p, q \in Positions(target) : Linked(A, p, q) /\ Linked(B, p, q) =>
            Linked(D, p, q)
      BY <2>0 DEF Linked
    <2>4. D \in SUBSET Positions(target) /\ Linked(D, a, b) /\ ~Linked(D, i, a)
            /\ ~Linked(D, i, b)
      BY <1>4, <1>21, <1>24, <2>0, <2>1, <2>2 DEF Linked
    <2>5. /\ \A p \in Positions(target) : p # i /\ lengths[p] >= 0 =>
               Linked(A, p, offsets[p]) /\ Linked(B, p, offsets[p])
          /\ \A s \in suffix .. Len(target) - 1 : Linked(A, s, Phi(s)) /\ Linked(B, s, Phi(s))
      <3>1. \A p \in Positions(target) : p # i /\ lengths[p] >= 0 => Linked(A, p, offsets[p])
        BY <1>16, <1>22, <2>1
      <3>2. \A p \in Positions(target) : lengths[p] >= 0 => Linked(B, p, offsets[p])
        BY <1>16, <1>21, <1>22, <1>0
      <3>3. \A s \in suffix .. Len(target) - 1 : Linked(A, s, Phi(s))
        BY <1>16, <1>17, <1>22, <2>1
      <3>4. \A s \in suffix .. Len(target) - 1 : Linked(B, s, Phi(s))
        BY <1>16, <1>17, <1>21, <1>22
      <3> QED BY <3>1, <3>2, <3>3, <3>4
    <2>6. Keeps(D, 0, i)'
      <3>1. \A p \in Positions(target) : p # i /\ lengths[p] >= 0 => Linked(D, p, offsets[p])
        <4>1. \A p \in Positions(target) : lengths[p] >= 0 => offsets[p] \in Positions(target)
          BY DEF TableInv, Entries, Positions
        <4> QED BY <2>3, <2>5, <4>1
      <3>2. \A s \in suffix .. Len(target) - 1 : Linked(D, s, Phi(s))
        <4>1. suffix \in Nat
          BY DEF TableInv, Current, Positions
        <4>2. \A s \in suffix .. Len(target) - 1 :
                s \in Positions(target) /\ Phi(s) \in Positions(target)
          BY <4>1, PhiFacts
        <4> QED BY <2>3, <2>5, <4>2
      <3> QED BY <1>15, <1>22, <2>4, <3>1, <3>2
    <2>7. Bridge(i, i, offsets[i])'
      <3>1. ~Linked(D, i, offsets'[i])
        BY <1>7, <2>4
      <3> QED BY <1>3, <2>4, <2>6, <3>1 DEF Bridge, Linked
    <2>8. Bridge(Called, call.i, call.j)'
      <3>1. CASE l < m
        <4>1. Keeps(A, 0, Called)'
          BY <1>7, <1>15, <1>17, <1>22, <2>2, <2>5, <3>1
        <4>2. ~Linked(A, call'.i, call'.j)
          BY <1>11, <1>24, <2>1, <2>2 DEF Linked
        <4> QED BY <1>3, <4>1, <4>2 DEF Bridge, Linked
      <3>2. CASE ~(l < m)
        <4>1. Keeps(B, 0, Called)'
          BY <1>7, <1>15, <1>17, <1>22, <2>2, <2>5, <3>2
        <4>2. ~Linked(B, call'.i, call'.j)
          BY <1>11, <1>21, <1>24, <2>2 DEF Linked
        <4> QED BY <1>3, <4>1, <4>2 DEF Bridge, Linked
      <3> QED BY <3>1, <3>2
    <2> QED BY <1>3, <1>7, <1>8, <1>13, <1>14, <1>19, <1>20, <2>7, <2>8 DEF TableInv, Bridges
  <1> QED BY <1>23, <1>24

-----------------------------------------------------------------------------
(* The finished table. *)

\* What holds p together with all that learned from p, directly or not, of n
\* bytes or more.
Learners(p, n, X) ==
  /\ p \in X
  /\ \A i \in Positions(target) : lengths[i] >= n /\ offsets[i] \in X => i \in X

\* When all pairs are gone, only factors link positions: a position whose factor is
\* shorter than n is the first of those it shares n bytes with.
LEMMA FactorFound ==
  ASSUME Sorted, TableInv, call = NoCall, suffix = Len(target),
         NEW p \in Positions(target), NEW q \in 0 .. p - 1, NEW n \in Nat,
         Shares(target, p, q, n)
  PROVE  lengths[p] >= n
  <1> SUFFICES ASSUME ~(lengths[p] >= n)
               PROVE  FALSE
    OBVIOUS
  <1>1. ASSUME NEW i \in Positions(target), lengths[i] >= n
        PROVE  offsets[i] \in 0 .. i - 1 /\ offsets[i] \in Positions(target)
    <2>1. lengths[i] \in Int
      BY DEF TableInv, Entries
    <2>2. offsets[i] \in 0 .. i - 1
      BY <1>1, <2>1 DEF TableInv, Entries
    <2> QED BY <2>2 DEF Positions
  <1>2. PICK U : U = {x \in Positions(target) : x >= p}
    OBVIOUS
  <1>3. Learners(p, n, U) /\ U \in SUBSET Positions(target)
    BY <1>1, <1>2 DEF Learners, Positions
  <1>4. PICK S : S = {x \in U :
                    \A X \in SUBSET Positions(target) : Learners(p, n, X) => x \in X}
    OBVIOUS
  <1>5. Learners(p, n, S)
    <2>1. p \in S
      BY <1>3, <1>4 DEF Learners
    <2>2. ASSUME NEW i \in Positions(target), lengths[i] >= n, offsets[i] \in S
          PROVE  i \in S
      <3>1. ASSUME NEW X \in SUBSET Positions(target), Learners(p, n, X)
            PROVE  i \in X
        <4>1. offsets[i] \in X
          BY <1>4, <2>2, <3>1
        <4> QED BY <2>2, <3>1, <4>1 DEF Learners
      <3>2. i \in U
        BY <1>3, <3>1
      <3> QED BY <1>4, <3>1, <3>2
    <2> QED BY <2>1, <2>2 DEF Learners
  <1>6. S \in SUBSET Positions(target)
    BY <1>3, <1>4
  <1>7. ASSUME NEW i \in Positions(target), lengths[i] >= n
        PROVE  Linked(S, i, offsets[i])
    <2>1. offsets[i] \in S => i \in S
      BY <1>5, <1>7 DEF Learners
    <2>2. SUFFICES ASSUME i \in S, offsets[i] \notin S
                   PROVE  FALSE
      BY <2>1 DEF Linked
    <2>3. Learners(p, n, S \ {i})
      <3>1. p \in S \ {i}
        BY <1>5, <1>7 DEF Learners
      <3>2. ASSUME NEW x \in Positions(target), lengths[x] >= n, offsets[x] \in S \ {i}
            PROVE  x \in S \ {i}
        BY <1>5, <2>2, <3>2 DEF Learners
      <3> QED BY <3>1, <3>2 DEF Learners
    <2>4. S \ {i} \in SUBSET Positions(target)
      BY <1>6
    <2> QED BY <1>4, <2>2, <2>3, <2>4
  <1>8. Keeps(S, n, Nobody)
    <2>1. suffix .. Len(target) - 1 = {}
      BY DEF Sorted
    <2> QED BY <1>7, <2>1 DEF Keeps
  <1>9. q \in Positions(target)
    BY DEF Positions
  <1>10. Linked(S, p, q)
    BY <1>6, <1>8, <1>9 DEF TableInv, Links
  <1>11. q \in U
    BY <1>4, <1>5, <1>10 DEF Learners, Linked
  <1> QED BY <1>2, <1>11 DEF Positions

\* The table is right when it is finished.
LEMMA TableEnds ==
  ASSUME Sorted, TableInv, Finished(target), FinishTable, UNCHANGED target
  PROVE  LongestPrevious(target)'
  <1>1. /\ call = NoCall /\ suffix = Len(target) /\ UNCHANGED target
        /\ lengths' = [lengths EXCEPT ![0] = 0] /\ offsets' = [offsets EXCEPT ![0] = 0]
    BY DEF Finished, FinishTable
  <1>2. /\ lengths \in [Positions(target) -> Int] /\ offsets \in [Positions(target) -> Int]
        /\ target \in Seq(Byte) /\ Len(target) \in Nat
    BY DEF TableInv, Entries, Sorted
  <1>3. ASSUME NEW p \in 0 .. Len(target) - 1
        PROVE  /\ \A q \in 0 .. p - 1 : Common(target, q, target, p, 0) <= lengths'[p]
               /\ lengths'[p] > 0 =>
                    /\ offsets'[p] \in 0 .. p - 1
                    /\ Common(target, offsets'[p], target, p, 0) >= lengths'[p]
               /\ lengths'[p] >= 0
    <2>1. p \in Positions(target) /\ p \in Nat
      BY DEF Positions
    <2>2. CASE p = 0
      BY <1>1, <1>2, <2>1, <2>2
    <2>3. CASE p # 0
      <3>1. lengths'[p] = lengths[p] /\ offsets'[p] = offsets[p]
        BY <1>1, <1>2, <2>1, <2>3
      <3>2. ASSUME NEW q \in 0 .. p - 1
            PROVE  Common(target, q, target, p, 0) \in Nat
                     /\ Common(target, q, target, p, 0) <= lengths[p]
        <4>1. PICK n : n = Common(target, q, target, p, 0)
          OBVIOUS
        <4>2. q \in Positions(target)
          BY <2>1 DEF Positions
        <4>3. n \in Nat /\ Shares(target, q, p, n)
          <5>1. n \in Nat
            BY <1>2, <2>1, <4>1, <4>2, CommonShares
          <5>2. Shares(target, q, p, n) <=> n <= n
            BY <1>2, <2>1, <4>1, <4>2, <5>1, CommonShares
          <5> QED BY <5>1, <5>2
        <4>4. Shares(target, p, q, n)
          BY <1>2, <2>1, <4>2, <4>3, SharesFacts
        <4>5. lengths[p] >= n
          BY <1>1, <2>1, <4>3, <4>4, FactorFound
        <4> QED BY <4>1, <4>3, <4>5, <1>2, <2>1
      <3>3. lengths[p] >= 0
        <4>1. 0 \in 0 .. p - 1
          BY <2>1, <2>3
        <4>2. lengths[p] \in Int
          BY <1>2, <2>1
        <4> QED BY <3>2, <4>1, <4>2
      <3>4. offsets[p] \in 0 .. p - 1 /\ Shares(target, p, offsets[p], lengths[p])
        BY <2>1, <3>3 DEF TableInv, Entries
      <3>5. Common(target, offsets[p], target, p, 0) >= lengths[p]
        <4>1. PICK q, n : q = offsets[p] /\ n = lengths[p]
          OBVIOUS
        <4>2. q \in Positions(target) /\ n \in Nat
          BY <1>2, <2>1, <3>3, <3>4, <4>1 DEF Positions
        <4>3. Shares(target, q, p, n)
          BY <1>2, <2>1, <3>4, <4>1, <4>2, SharesFacts
        <4>4. n <= Common(target, q, target, p, 0)
          BY <1>2, <2>1, <4>2, <4>3, CommonShares
        <4>5. Common(target, q, target, p, 0) \in Nat
          BY <1>2, <2>1, <4>2, CommonShares
        <4> QED BY <4>1, <4>2, <4>4, <4>5
      <3> QED BY <3>1, <3>2, <3>3, <3>4, <3>5
    <2> QED BY <2>2, <2>3
  <1> QED BY <1>1, <1>3 DEF LongestPrevious

\* The modified file is never written, so that what a patch is made for are bytes;
\* while the table is filled it holds what the order says, and then the factors.
Modified == disk["modified"] \in Seq(Byte)
Filling == pc = "table" => TableInv

FInv == IInv /\ Modified /\ Filling /\ FactorsLongest

\* While a patch is made, the order is that of the file it is made for.
LEMMA OrderThere ==
  ASSUME FInv, SuffixesOrdered, Creating
  PROVE  Sorted
  <1>1. target = disk["modified"]
    BY DEF FInv, IInv, Files
  <1> QED BY <1>1 DEF Sorted, SuffixesOrdered, FInv, Modified, Creating

\* At first nothing is filled.
LEMMA FactorsBegin ==
  ASSUME Init
  PROVE  FInv
  <1>1. PICK pair \in Pairs : disk = [original |-> pair[1], modified |-> pair[2],
                            patch |-> None, written |-> None]
    BY DEF Init
  <1>2. disk["modified"] = pair[2]
    BY <1>1
  <1>3. pair[2] \in Seq(Byte)
    BY SizeAssumption
  <1> QED BY <1>2, <1>3, Initially DEF Init, FInv, Modified, Filling, FactorsLongest

\* No step writes the modified file.
LEMMA ModifiedStays ==
  ASSUME IInv, [Next]_vars
  PROVE  disk'["modified"] = disk["modified"]
  <1>1. disk = [n \in Names |-> disk[n]] /\ "modified" \in Names
    BY DEF IInv, Files, Names
  <1>2. ASSUME NEW file, NEW bytes, file # "modified", Write(file, bytes)
        PROVE  disk'["modified"] = disk["modified"]
    BY <1>1, <1>2 DEF Write
  <1>3. CASE Decide
    BY <1>2, <1>3 DEF Decide, Destinations
  <1>4. CASE Crash
    BY <1>2, <1>4 DEF Crash, Destinations
  <1>5. CASE Damage
    BY <1>2, <1>5 DEF Damage
  <1>6. CASE Exchange
    BY <1>2, <1>6 DEF Exchange
  <1>7. CASE FinishCreate
    <2>1. PICK body : disk' = [disk EXCEPT !["patch"] = body]
      BY <1>7 DEF FinishCreate
    <2> QED BY <1>1, <2>1
  <1>8. CASE \/ StartCreate \/ BuildTable \/ Create \/ StartApply
             \/ ReadHeader \/ ReadCommand \/ Check \/ Fault
    BY <1>8 DEF StartCreate, BuildTable, Create, StartApply, ReadHeader, ReadCommand, Check,
       Fault
  <1>9. CASE UNCHANGED vars
    BY <1>9 DEF vars
  <1> QED BY <1>3, <1>4, <1>5, <1>6, <1>7, <1>8, <1>9 DEF Next, Works

\* Every step keeps what the table of factors stands for.
LEMMA FactorsStep ==
  ASSUME FInv, SuffixesOrdered, SuffixesOrdered', [Next]_vars
  PROVE  FInv'
  <1>1. IInv'
    <2>1. CASE UNCHANGED vars
      BY <2>1 DEF vars, memory, counters, FInv, IInv, Patches, Files, Reported, Applying,
         Creating
    <2>2. CASE Next
      BY <2>2, Creates, Applies, Outcomes DEF FInv, Next, Works
    <2> QED BY <2>1, <2>2
  <1>2. Modified'
    BY ModifiedStays DEF FInv, Modified
  <1>3. ASSUME pc' \notin {"table", "create"}
        PROVE  Filling' /\ FactorsLongest'
    BY <1>3 DEF Filling, FactorsLongest
  <1>4. ASSUME UNCHANGED <<pc, target, lpf>>
        PROVE  FInv'
    <2>1. UNCHANGED <<pc, target, sa, lengths, offsets, suffix, common, call>>
      BY <1>4 DEF lpf
    <2>2. TableInv => TableInv'
      <3>1. \A i : Phi(i)' = Phi(i)
        BY <2>1 DEF Phi
      <3>2. Entries => Entries'
        BY <2>1 DEF Entries
      <3>3. Current => Current'
        BY <2>1, <3>1 DEF Current
      <3>4. \A S, k, e : Keeps(S, k, e)' <=> Keeps(S, k, e)
        BY <2>1, <3>1 DEF Keeps, Linked
      <3>5. Links => Links'
        BY <2>1, <3>4 DEF Links, Linked, Nobody
      <3>6. Bridges => Bridges'
        <4>1. \A e, p, q : Bridge(e, p, q) =>
                (\E S \in SUBSET Positions(target) : Keeps(S, 0, e)' /\ ~Linked(S, p, q))
          BY <3>4 DEF Bridge
        <4>2. ASSUME Bridges, NEW p \in Positions(target), lengths[p] >= 0
              PROVE  Bridge(p, p, offsets[p])'
          <5>1. \E S \in SUBSET Positions(target) :
                  Keeps(S, 0, p)' /\ ~Linked(S, p, offsets[p])
            BY <4>1, <4>2 DEF Bridges
          <5> QED BY <2>1, <5>1 DEF Bridge, Linked
        <4>3. ASSUME Bridges, call # NoCall
              PROVE  Bridge(Called, call.i, call.j)'
          <5>1. \E S \in SUBSET Positions(target) :
                  Keeps(S, 0, Called)' /\ ~Linked(S, call.i, call.j)
            BY <4>1, <4>3 DEF Bridges
          <5> QED BY <2>1, <5>1 DEF Bridge, Linked, Called
        <4>4. ASSUME Bridges, NEW s \in suffix .. Len(target) - 1
              PROVE  Bridge(Waiting(s), s, Phi(s))'
          <5>1. \E S \in SUBSET Positions(target) :
                  Keeps(S, 0, Waiting(s))' /\ ~Linked(S, s, Phi(s))
            BY <4>1, <4>4 DEF Bridges
          <5> QED BY <2>1, <3>1, <5>1 DEF Bridge, Linked, Waiting
        <4> QED BY <2>1, <4>2, <4>3, <4>4 DEF Bridges
      <3> QED BY <3>2, <3>3, <3>5, <3>6 DEF TableInv
    <2>3. FactorsLongest'
      BY <2>1 DEF FInv, FactorsLongest, LongestPrevious
    <2> QED BY <1>1, <1>2, <2>1, <2>2, <2>3 DEF FInv, Filling
  <1>5. CASE StartCreate
    <2>1. /\ pc' = "table" /\ lengths' = [p \in Positions(target') |-> -1]
          /\ offsets' = [p \in Positions(target') |-> -1]
          /\ suffix' = 0 /\ common' = 0 /\ call' = NoCall
      BY <1>5 DEF StartCreate, NewTable
    <2>2. Empty'
      BY <2>1 DEF Empty
    <2>3. Sorted'
      <3>1. Creating'
        BY <2>1 DEF Creating
      <3>2. target' = disk'["modified"] /\ disk'["modified"] \in Seq(Byte)
        BY <1>1, <1>2, <3>1 DEF IInv, Files, Modified
      <3> QED BY <2>1, <3>2 DEF Sorted, SuffixesOrdered
    <2>4. TableInv'
      BY <2>2, <2>3, TableBegins, PTL
    <2> QED BY <1>1, <1>2, <2>1, <2>4 DEF FInv, Filling, FactorsLongest
  <1>6. CASE BuildTable
    <2>1. pc = "table" /\ UNCHANGED target
      BY <1>6 DEF BuildTable, memory
    <2>2. Sorted /\ TableInv
      BY <2>1, OrderThere DEF FInv, Filling, Creating
    <2>3. CASE NextSuffix(target) /\ UNCHANGED pc
      <3>1. TableInv'
        BY <2>1, <2>2, <2>3, NextSuffixStep
      <3> QED BY <1>1, <1>2, <2>1, <2>3, <3>1 DEF FInv, Filling, FactorsLongest
    <2>4. CASE Recurse /\ UNCHANGED pc
      <3>1. TableInv'
        BY <2>1, <2>2, <2>4, RecurseStep
      <3> QED BY <1>1, <1>2, <2>1, <2>4, <3>1 DEF FInv, Filling, FactorsLongest
    <2>5. CASE Finished(target) /\ FinishTable /\ pc' = "create"
      <3>1. LongestPrevious(target)'
        BY <2>1, <2>2, <2>5, TableEnds
      <3> QED BY <1>1, <1>2, <2>5, <3>1 DEF FInv, Filling, FactorsLongest
    <2> QED BY <1>6, <2>3, <2>4, <2>5 DEF BuildTable
  <1>7. CASE Create
    <2>1. UNCHANGED <<pc, target, lpf>>
      BY <1>7 DEF Create
    <2> QED BY <1>4, <2>1
  <1>8. CASE \/ FinishCreate \/ StartApply \/ ReadHeader \/ ReadCommand
             \/ Check \/ Fault \/ Decide \/ Crash
    <2>1. pc' \notin {"table", "create"}
      BY <1>8 DEF FinishCreate, StartApply, ReadHeader, Error, ReadCommand, Check, Fault,
         Decide, Crash
    <2> QED BY <1>1, <1>2, <1>3, <2>1 DEF FInv
  <1>9. CASE Damage \/ Exchange \/ UNCHANGED vars
    <2>1. UNCHANGED <<pc, target, lpf>>
      BY <1>9 DEF Damage, Exchange, vars, memory
    <2> QED BY <1>4, <2>1
  <1> QED BY <1>5, <1>6, <1>7, <1>8, <1>9 DEF Next, Works

\* Where the suffixes are in their order, the recursion finds the longest previous
\* factor of every position, whatever it hands on to whom.
THEOREM FactorsCorrect == Spec /\ []SuffixesOrdered => []FactorsLongest
  <1>1. FInv => FactorsLongest
    BY DEF FInv
  <1>2. Init => FInv
    BY FactorsBegin
  <1>3. FInv /\ SuffixesOrdered /\ SuffixesOrdered' /\ [Next]_vars => FInv'
    BY FactorsStep
  <1> QED BY <1>1, <1>2, <1>3, PTL DEF Spec

-----------------------------------------------------------------------------
(* The search. *)

\* s from p and t from q agree in k bytes.
Matches(s, p, t, q, k) == \A m \in 0 .. k - 1 : Alike(s, p + m, t, q + m)

\* The bytes of s from p come before those of t from q.
Below(s, p, t, q) ==
  \E k \in Nat : Matches(s, p, t, q, k) /\ At(s, p + k) < At(t, q + k)

\* How far two texts agree is the most they share, and ends inside both.
LEMMA CommonMatches ==
  ASSUME NEW s \in Seq(Byte), NEW t \in Seq(Byte), NEW p \in Positions(s),
         NEW q \in Positions(t)
  PROVE  LET n == Common(s, p, t, q, 0)
         IN  /\ n \in Nat /\ Matches(s, p, t, q, n) /\ p + n <= Len(s) /\ q + n <= Len(t)
             /\ ~Alike(s, p + n, t, q + n)
             /\ \A k \in Nat : Matches(s, p, t, q, k) => k <= n
  <1>1. PICK n : n = Common(s, p, t, q, 0)
    OBVIOUS
  <1>2. p \in Nat
          /\ q \in Nat /\ p <= Len(s) /\ q <= Len(t) /\ Len(s) \in Nat /\ Len(t) \in Nat
    BY DEF Positions
  <1>3. n \in Nat /\ Matches(s, p, t, q, n) /\ ~Alike(s, p + n, t, q + n)
    BY <1>1, <1>2, CommonFacts DEF Matches
  <1>4. \A k \in Nat : Matches(s, p, t, q, k) => k <= n
    BY <1>3 DEF Matches
  <1>5. n > 0 => p + (n - 1) < Len(s) /\ q + (n - 1) < Len(t)
    BY <1>3 DEF Matches, Alike
  <1>6. p + n <= Len(s) /\ q + n <= Len(t)
    BY <1>2, <1>3, <1>5
  <1> QED BY <1>1, <1>3, <1>4, <1>6

\* Bytes that are alike are the same.
LEMMA AlikeAt ==
  ASSUME NEW s \in Seq(Byte), NEW t \in Seq(Byte), NEW x \in Nat, NEW y \in Nat
  PROVE  Alike(s, x, t, y) <=> At(s, x) = At(t, y) /\ At(s, x) >= 0
  <1>1. Len(s) \in Nat /\ Len(t) \in Nat
    OBVIOUS
  <1>2. ASSUME NEW u \in Seq(Byte), NEW z \in Nat, z < Len(u)
        PROVE  At(u, z) = u[z + 1] /\ u[z + 1] >= 0
    <2>1. z + 1 \in 1 .. Len(u)
      BY <1>2
    <2>2. u[z + 1] \in Byte
      BY <2>1
    <2>3. u[z + 1] \in Nat
      BY <2>2, ByteFacts
    <2>4. At(u, z) = u[z + 1]
      BY <1>2 DEF At
    <2> QED BY <2>3, <2>4
  <1>3. CASE x < Len(s) /\ y < Len(t)
    BY <1>2, <1>3 DEF Alike
  <1>4. CASE ~(x < Len(s))
    BY <1>4 DEF Alike, At
  <1>5. CASE x < Len(s) /\ ~(y < Len(t))
    <2>1. At(s, x) >= 0 /\ At(t, y) = -1 /\ At(s, x) \in Int
      BY <1>2, <1>5, AtFacts DEF At
    <2> QED BY <1>5, <2>1 DEF Alike
  <1> QED BY <1>3, <1>4, <1>5

\* Positions behind a position hold numbers, the same ones where texts match.
LEMMA AtsFrom ==
  ASSUME NEW s \in Seq(Byte), NEW p \in Nat
  PROVE  \A x \in Nat : At(s, p + x) \in Int
  <1> SUFFICES ASSUME NEW x \in Nat
               PROVE  At(s, p + x) \in Int
    OBVIOUS
  <1>1. p + x \in Nat
    OBVIOUS
  <1> QED BY <1>1, AtFacts

\* Where texts match their bytes are the same.
LEMMA MatchesAt ==
  ASSUME NEW s \in Seq(Byte), NEW t \in Seq(Byte), NEW p \in Nat, NEW q \in Nat,
         NEW k \in Nat,
         Matches(s, p, t, q, k)
  PROVE  \A x \in 0 .. k - 1 : At(s, p + x) = At(t, q + x)
  <1> SUFFICES ASSUME NEW x \in 0 .. k - 1
               PROVE  At(s, p + x) = At(t, q + x)
    OBVIOUS
  <1>1. p + x \in Nat /\ q + x \in Nat
    OBVIOUS
  <1>2. Alike(s, p + x, t, q + x)
    BY DEF Matches
  <1> QED BY <1>1, <1>2, AlikeAt

\* Of two suffixes in front of t the second shares as much with it.
LEMMA BelowShares ==
  ASSUME NEW s \in Seq(Byte), NEW t \in Seq(Byte), NEW p \in Positions(s),
         NEW q \in Positions(s),
         NEW r \in Positions(t), Smaller(s, p, q), Below(s, q, t, r), NEW k \in Nat,
         Matches(s, p, t, r, k)
  PROVE  Matches(s, q, t, r, k)
  <1>1. PICK m \in Nat : Shares(s, p, q, m) /\ At(s, p + m) < At(s, q + m)
    BY DEF Smaller, Less
  <1>2. PICK n \in Nat : Matches(s, q, t, r, n) /\ At(s, q + n) < At(t, r + n)
    BY DEF Below
  <1>3. p \in Nat /\ q \in Nat /\ r \in Nat
    BY DEF Positions
  <1>4. /\ \A x \in 0 .. m - 1 : At(s, p + x) = At(s, q + x)
        /\ \A x \in 0 .. n - 1 : At(s, q + x) = At(t, r + x)
        /\ \A x \in 0 .. k - 1 : At(s, p + x) = At(t, r + x)
    <2>1. Matches(s, p, s, q, m)
      BY <1>1 DEF Shares, Matches
    <2>2. \A x \in 0 .. m - 1 : At(s, p + x) = At(s, q + x)
      BY <1>3, <2>1, MatchesAt
    <2>3. \A x \in 0 .. n - 1 : At(s, q + x) = At(t, r + x)
      BY <1>2, <1>3, MatchesAt
    <2>4. \A x \in 0 .. k - 1 : At(s, p + x) = At(t, r + x)
      BY <1>3, MatchesAt
    <2> QED BY <2>2, <2>3, <2>4
  <1>5. \A x \in Nat : At(s, p + x) \in Int /\ At(s, q + x) \in Int /\ At(t, r + x) \in Int
    BY <1>3, AtsFrom
  <1>6. k <= n
    <2> SUFFICES ASSUME n < k
                 PROVE  FALSE
      OBVIOUS
    <2>1. At(s, p + n) = At(t, r + n)
      BY <1>4
    <2>2. CASE n < m
      BY <1>2, <1>4, <1>5, <2>1, <2>2
    <2>3. CASE n = m
      BY <1>1, <1>2, <1>5, <2>1, <2>3
    <2>4. CASE m < n
      <3>1. At(s, p + m) = At(t, r + m) /\ At(s, q + m) = At(t, r + m)
        BY <1>4, <2>4
      <3> QED BY <1>1, <1>5, <3>1
    <2> QED BY <2>2, <2>3, <2>4
  <1> QED BY <1>2, <1>6 DEF Matches

\* Of two suffixes behind t the first shares as much with it.
LEMMA AboveShares ==
  ASSUME NEW s \in Seq(Byte), NEW t \in Seq(Byte), NEW p \in Positions(s),
         NEW q \in Positions(s),
         NEW r \in Positions(t), Smaller(s, p, q), Below(t, r, s, p), NEW k \in Nat,
         Matches(s, q, t, r, k)
  PROVE  Matches(s, p, t, r, k)
  <1>1. PICK m \in Nat : Shares(s, p, q, m) /\ At(s, p + m) < At(s, q + m)
    BY DEF Smaller, Less
  <1>2. PICK n \in Nat : Matches(t, r, s, p, n) /\ At(t, r + n) < At(s, p + n)
    BY DEF Below
  <1>3. p \in Nat /\ q \in Nat /\ r \in Nat
    BY DEF Positions
  <1>4. /\ \A x \in 0 .. m - 1 : At(s, p + x) = At(s, q + x)
        /\ \A x \in 0 .. n - 1 : At(t, r + x) = At(s, p + x)
        /\ \A x \in 0 .. k - 1 : At(s, q + x) = At(t, r + x)
    <2>1. Matches(s, p, s, q, m)
      BY <1>1 DEF Shares, Matches
    <2>2. \A x \in 0 .. m - 1 : At(s, p + x) = At(s, q + x)
      BY <1>3, <2>1, MatchesAt
    <2>3. \A x \in 0 .. n - 1 : At(t, r + x) = At(s, p + x)
      BY <1>2, <1>3, MatchesAt
    <2>4. \A x \in 0 .. k - 1 : At(s, q + x) = At(t, r + x)
      BY <1>3, MatchesAt
    <2> QED BY <2>2, <2>3, <2>4
  <1>5. \A x \in Nat : At(s, p + x) \in Int /\ At(s, q + x) \in Int /\ At(t, r + x) \in Int
    BY <1>3, AtsFrom
  <1>6. k <= n
    <2> SUFFICES ASSUME n < k
                 PROVE  FALSE
      OBVIOUS
    <2>1. At(s, q + n) = At(t, r + n)
      BY <1>4
    <2>2. CASE n < m
      BY <1>2, <1>4, <1>5, <2>1, <2>2
    <2>3. CASE n = m
      BY <1>1, <1>2, <1>5, <2>1, <2>3
    <2>4. CASE m < n
      <3>1. At(s, q + m) = At(t, r + m) /\ At(s, p + m) = At(t, r + m)
        BY <1>4, <2>4
      <3> QED BY <1>1, <1>5, <3>1
    <2> QED BY <2>2, <2>3, <2>4
  <1> QED BY <1>2, <1>6 DEF Matches, Alike

\* A place the search has looked at is on its side of what is looked for, and
\* shares no more with it than was found.
Passed(input, text, place, n, w) ==
  /\ Below(input, sa.input[n], text, place)
  /\ Common(input, sa.input[n], text, place, 0) <= w.length
Ahead(input, text, place, n, w) ==
  /\ Below(text, place, input, sa.input[n])
  /\ Common(input, sa.input[n], text, place, 0) <= w.length

\* All bytes are found, or the window is between two places that were looked at.
Searched(input, text, place, w) ==
  /\ w \in Window /\ w.r <= Len(input)
  /\ w.offset \in Positions(input) /\ w.length <= Common(input, w.offset, text, place, 0)
  /\ \/ place + w.length = Len(text)
     \/ /\ w.l < w.r \/ Len(input) = 0
        /\ w.l > 0 => Passed(input, text, place, w.l, w)
        /\ w.r < Len(input) => Ahead(input, text, place, w.r, w)

\* What one round does: the middle suffix shares k bytes.
LEMMA SideFound ==
  ASSUME NEW input \in Seq(Byte), NEW text \in Seq(Byte), NEW place \in 0 .. Len(text) - 1,
         NEW s \in 0 .. Len(input) - 1, NEW k, k = Common(input, s, text, place, 0)
  PROVE  /\ k \in Nat /\ place + k <= Len(text)
         /\ place + k < Len(text) /\ GoesLeft(input, s, text, place, k) =>
             Below(text, place, input, s)
         /\ place + k < Len(text) /\ ~GoesLeft(input, s, text, place, k) =>
             Below(input, s, text, place)
  <1>1. s \in Positions(input) /\ place \in Positions(text) /\ s \in Nat /\ place \in Nat
        /\ Len(text) \in Nat /\ Len(input) \in Nat
    BY DEF Positions
  <1>2. /\ k \in Nat /\ Matches(input, s, text, place, k)
             /\ s + k <= Len(input) /\ place + k <= Len(text)
        /\ ~Alike(input, s + k, text, place + k)
    BY <1>1, CommonMatches
  <1>3. Matches(text, place, input, s, k)
    BY <1>2 DEF Matches, Alike
  <1> SUFFICES ASSUME place + k < Len(text)
               PROVE  IF GoesLeft(input, s, text, place, k) THEN Below(text, place, input, s)
                      ELSE Below(input, s, text, place)
    BY <1>2
  <1>4. At(text, place + k) = text[place + k + 1] /\ At(text, place + k) \in Int
          /\ At(text, place + k) >= 0
    <2>1. place + k + 1 \in 1 .. Len(text)
      BY <1>1, <1>2
    <2>2. text[place + k + 1] \in Byte
      BY <2>1
    <2>3. text[place + k + 1] \in Nat
      BY <2>2, ByteFacts
    <2>4. At(text, place + k) = text[place + k + 1]
      BY DEF At
    <2> QED BY <2>3, <2>4
  <1>5. CASE s + k < Len(input)
    <2>1. At(input, s + k) = input[s + k + 1]
      BY <1>5 DEF At
    <2>2. At(input, s + k) \in Int
      BY <1>1, <1>2, AtsFrom
    <2>3. GoesLeft(input, s, text, place, k) <=> At(text, place + k) < At(input, s + k)
      BY <1>1, <1>2, <1>4, <1>5, <2>1 DEF GoesLeft
    <2>4. At(text, place + k) # At(input, s + k)
      BY <1>2, <1>4, <1>5, <2>1 DEF Alike
    <2>5. At(text, place + k) < At(input, s + k) => Below(text, place, input, s)
      BY <1>2, <1>3 DEF Below
    <2>6. At(input, s + k) < At(text, place + k) => Below(input, s, text, place)
      BY <1>2 DEF Below
    <2> QED BY <1>4, <2>2, <2>3, <2>4, <2>5, <2>6
  <1>6. CASE s + k = Len(input)
    <2>1. k - 1 \in 0 .. k - 1 /\ k \in Nat /\ k > 0
      BY <1>1, <1>2, <1>6
    <2>2. Alike(input, s + (k - 1), text, place + (k - 1))
      BY <1>2, <2>1 DEF Matches
    <2>3. s + (k - 1) + 1 = s + k /\ place + (k - 1) + 1 = place + k
      <3>1. s \in Nat /\ place \in Nat /\ k \in Nat
        BY <1>1, <1>2
      <3> QED BY <3>1
    <2>4. input[s + k] = text[place + k]
      BY <2>2, <2>3 DEF Alike
    <2>5. place + k \in 1 .. Len(text)
      BY <1>1, <1>2, <2>1
    <2>6. text[place + k] \in Nat
      <3>1. text[place + k] \in Byte
        BY <2>5
      <3> QED BY <3>1, ByteFacts
    <2>7. ~GoesLeft(input, s, text, place, k)
      <3>1. GoesLeft(input, s, text, place, k) <=>
              text[place + (k - 1) + 1] < input[s + (k - 1) + 1]
        BY <1>6 DEF GoesLeft
      <3> QED BY <2>3, <2>4, <2>6, <3>1
    <2>8. At(input, s + k) = -1
      BY <1>6 DEF At
    <2>9. Below(input, s, text, place)
      BY <1>2, <1>4, <2>8 DEF Below
    <2> QED BY <2>7, <2>9
  <1> QED BY <1>1, <1>2, <1>5, <1>6

\* One round keeps what the search knows, and narrows the window or ends.
LEMMA RoundKeeps ==
  ASSUME NEW input \in Seq(Byte), NEW text \in Seq(Byte), NEW place \in 0 .. Len(text) - 1,
         Ordered(input, sa.input), NEW w, Searched(input, text, place, w),
         NEW v, v = Narrowed(input, text, place)[w]
  PROVE  /\ Searched(input, text, place, v)
         /\ place + w.length = Len(text) => place + v.length = Len(text)
         /\ w.l >= w.r - 1 => v = w
         /\ w.l < w.r - 1 => place + v.length = Len(text) \/ v.r - v.l < w.r - w.l
  <1>1. w \in Window /\ w.l \in Nat /\ w.r \in Nat /\ w.length \in Nat /\ w.r <= Len(input)
    BY DEF Searched, Window
  <1>2. CASE w.l >= w.r - 1
    <2>1. v = w
      BY <1>1, <1>2 DEF Narrowed
    <2>2. ~(w.l < w.r - 1)
      BY <1>1, <1>2
    <2> QED BY <2>1, <2>2
  <1>3. CASE w.l < w.r - 1
    <2> DEFINE mid == (w.l + w.r) \div 2
               suf == sa.input[mid]
               com == Common(input, suf, text, place, 0)
    <2>1. PICK m, s, k : m = mid /\ s = suf /\ k = com
      OBVIOUS
    <2> HIDE DEF mid, suf, com
    <2>2. m \in Nat /\ w.l < m /\ m < w.r
      BY <1>1, <1>3, <2>1 DEF mid
    <2>3. m \in 1 .. Len(input) /\ m < Len(input)
      BY <1>1, <2>2
    <2>4. s = sa.input[m] /\ s \in 0 .. Len(input) - 1
      <3>1. s = sa.input[m]
        BY <2>1 DEF suf
      <3> QED BY <2>3, <3>1, NeighbourAt
    <2>5. k = Common(input, s, text, place, 0)
      BY <2>1 DEF com
    <2>6. /\ k \in Nat /\ place + k <= Len(text)
          /\ place + k < Len(text) /\ GoesLeft(input, s, text, place, k) =>
             Below(text, place, input, s)
          /\ place + k < Len(text) /\ ~GoesLeft(input, s, text, place, k) =>
             Below(input, s, text, place)
      BY <2>4, <2>5, SideFound
    <2>7. PICK best : best = IF k > w.length THEN [w EXCEPT !.length = k, !.offset = s] ELSE w
      OBVIOUS
    <2>8. /\ best \in Window /\ best.l = w.l /\ best.r = w.r
          /\ best.offset \in Positions(input)
               /\ best.length <= Common(input, best.offset, text, place, 0)
          /\ best.length >= k /\ best.length >= w.length /\ best.length \in {k, w.length}
      <3>1. CASE k > w.length
        <4>1. best = [l |-> w.l, r |-> w.r, length |-> k, offset |-> s]
          BY <1>1, <2>7, <3>1 DEF Window
        <4>2. s \in Nat /\ s \in Positions(input)
          BY <2>4 DEF Positions
        <4> QED BY <1>1, <2>5, <2>6, <3>1, <4>1, <4>2 DEF Window
      <3>2. CASE ~(k > w.length)
        BY <1>1, <2>6, <2>7, <3>2 DEF Searched
      <3> QED BY <3>1, <3>2
    <2>9. v = IF k > w.length /\ place + k = Len(text) THEN [best EXCEPT !.l = w.r]
              ELSE IF GoesLeft(input, s, text, place, k) THEN [best EXCEPT !.r = m]
              ELSE [best EXCEPT !.l = m]
      <3>1. ~(w.l >= w.r - 1)
        BY <1>1, <1>3
      <3>2. Narrowed(input, text, place)[w] =
              LET mm == (w.l + w.r) \div 2
                  ss == sa.input[mm]
                  kk == Common(input, ss, text, place, 0)
                  bb == IF kk > w.length THEN [w EXCEPT !.length = kk, !.offset = ss] ELSE w
              IN  IF w.l >= w.r - 1 THEN w
                  ELSE IF kk > w.length /\ place + kk = Len(text) THEN [bb EXCEPT !.l = w.r]
                  ELSE IF GoesLeft(input, ss, text, place, kk) THEN [bb EXCEPT !.r = mm]
                  ELSE [bb EXCEPT !.l = mm]
        BY <1>1, Zenon DEF Narrowed
      <3>3. m = (w.l + w.r) \div 2 /\ s = sa.input[m] /\ k = Common(input, s, text, place, 0)
        BY <2>1 DEF mid, suf, com
      <3> QED BY <2>7, <3>1, <3>2, <3>3, Zenon
    <2>10. PICK left, right : v = [l |-> left, r |-> right, length |-> best.length,
                  offset |-> best.offset]
                  /\ \/ k > w.length /\ place + k = Len(text) /\ left = w.r /\ right = w.r
                     \/ GoesLeft(input, s, text, place, k) /\ left = w.l /\ right = m
                     \/ ~GoesLeft(input, s, text, place, k) /\ left = m /\ right = w.r
      BY <2>8, <2>9 DEF Window
    <2>11. left \in Nat /\ right \in Nat /\ right <= Len(input)
      BY <1>1, <2>2, <2>3, <2>10
    <2>12. /\ v \in Window /\ v.r <= Len(input)
           /\ v.offset \in Positions(input)
                /\ v.length <= Common(input, v.offset, text, place, 0)
           /\ v.l = left /\ v.r = right /\ v.length = best.length
      BY <2>8, <2>10, <2>11 DEF Window
    <2>13. place \in Nat /\ Len(text) \in Nat /\ best.length \in Nat
             /\ place + best.length <= Len(text)
      <3>1. w.offset \in Positions(input) /\ place \in Positions(text)
              /\ w.length <= Common(input, w.offset, text, place, 0)
        BY DEF Positions, Searched
      <3>2. Common(input, w.offset, text, place, 0) \in Nat
              /\ place + Common(input, w.offset, text, place, 0) <= Len(text)
        BY <3>1, CommonMatches
      <3>3. best.length \in Nat
        BY <2>8 DEF Window
      <3>4. place + w.length <= Len(text)
        BY <1>1, <3>1, <3>2
      <3> QED BY <2>6, <2>8, <3>3, <3>4
    <2>14. CASE place + best.length = Len(text)
      <3>1. Searched(input, text, place, v)
        BY <2>12, <2>14 DEF Searched
      <3>2. ~(w.l >= w.r - 1)
        BY <1>1, <1>3
      <3> QED BY <2>12, <2>14, <3>1, <3>2
    <2>15. CASE place + best.length # Len(text)
      <3>1. place + k < Len(text) /\ place + w.length # Len(text) /\ place + best.length < Len(text)
        BY <1>1, <2>6, <2>8, <2>13, <2>15
      <3>2. /\ w.l > 0 => Passed(input, text, place, w.l, w)
            /\ w.r < Len(input) => Ahead(input, text, place, w.r, w)
        BY <3>1 DEF Searched
      <3>3. ASSUME NEW n \in 0 .. Len(input)
            PROVE  Common(input, sa.input[n], text, place, 0) \in Nat
        <4>1. sa.input \in [Positions(input) -> Positions(input)]
          BY DEF Ordered
        <4>2. n \in Positions(input) /\ place \in Positions(text)
          BY DEF Positions
        <4>3. sa.input[n] \in Positions(input)
          BY <4>1, <4>2
        <4> QED BY <4>2, <4>3, CommonMatches
      <3>4. /\ w.l > 0 => Passed(input, text, place, w.l, v)
            /\ w.r < Len(input) => Ahead(input, text, place, w.r, v)
        <4>1. w.l \in 0 .. Len(input) /\ w.r \in 0 .. Len(input)
          BY <1>1, <1>3
        <4>2. v.length >= w.length /\ v.length \in Nat
          BY <2>8, <2>12, <2>13
        <4> QED BY <1>1, <3>2, <3>3, <4>1, <4>2 DEF Passed, Ahead
      <3>5. CASE GoesLeft(input, s, text, place, k)
        <4>1. left = w.l /\ right = m
          BY <2>10, <3>1, <3>5
        <4>2. Ahead(input, text, place, m, v)
          BY <2>4, <2>5, <2>6, <2>8, <2>12, <3>1, <3>5 DEF Ahead
        <4>3. Searched(input, text, place, v)
          BY <2>2, <2>12, <3>4, <4>1, <4>2 DEF Searched
        <4> QED BY <1>1, <1>3, <2>2, <2>12, <3>1, <4>1, <4>3
      <3>6. CASE ~GoesLeft(input, s, text, place, k)
        <4>1. left = m /\ right = w.r
          BY <2>10, <3>1, <3>6
        <4>2. Passed(input, text, place, m, v)
          BY <2>4, <2>5, <2>6, <2>8, <2>12, <3>1, <3>6 DEF Passed
        <4>3. Searched(input, text, place, v)
          BY <2>2, <2>12, <3>4, <4>1, <4>2 DEF Searched
        <4> QED BY <1>1, <1>3, <2>2, <2>12, <3>1, <4>1, <4>3
      <3> QED BY <3>5, <3>6
    <2> QED BY <2>14, <2>15
  <1> QED BY <1>1, <1>2, <1>3

\* g has the windows of all rounds.
Search(g, input, text, place) ==
  /\ \A n \in Nat : Searched(input, text, place, g[n])
  /\ g[0] = [l |-> 0, r |-> Len(input), length |-> 0, offset |-> 0]
  /\ \A n \in Nat : g[n + 1] = Narrowed(input, text, place)[g[n]]

\* The rounds of the search are defined, and the last is what is found.
LEMMA RoundsFacts ==
  ASSUME NEW input \in Seq(Byte), NEW text \in Seq(Byte), NEW place \in 0 .. Len(text) - 1,
         Ordered(input, sa.input)
  PROVE  \E g : Search(g, input, text, place) /\ Find(input, text, place) = g[Len(input)]
  <1> DEFINE D == {w \in Window : Searched(input, text, place, w)}
             start == [l |-> 0, r |-> Len(input), length |-> 0, offset |-> 0]
             step == [w \in D |-> Narrowed(input, text, place)[w]]
             Round(f) == [n \in Nat |-> IF n = 0 THEN start
               ELSE Narrowed(input, text, place)[f[n - 1]]]
  <1>1. start \in D
    <2>1. Len(input) \in Nat /\ 0 \in Positions(input) /\ place \in Positions(text)
      BY DEF Positions
    <2>2. Common(input, 0, text, place, 0) \in Nat
      BY <2>1, CommonMatches
    <2>3. start \in Window
      BY <2>1 DEF Window
    <2> QED BY <2>1, <2>2, <2>3 DEF Searched
  <1>2. step \in [D -> D]
    <2> SUFFICES ASSUME NEW w \in D
                 PROVE  Narrowed(input, text, place)[w] \in D
      OBVIOUS
    <2>1. PICK v : v = Narrowed(input, text, place)[w]
      OBVIOUS
    <2>2. Searched(input, text, place, v)
      BY <2>1, RoundKeeps
    <2>3. v \in Window
      BY <2>2 DEF Searched
    <2> QED BY <2>1, <2>2, <2>3
  <1>3. PICK g \in [Nat -> D] : g[0] = start /\ \A n \in Nat : g[n + 1] = step[g[n]]
    <2> HIDE DEF D, start, step
    <2>1. PICK E, a, b : E = D /\ a = start /\ b = step
      OBVIOUS
    <2>2. a \in E /\ b \in [E -> E]
      BY <1>1, <1>2, <2>1
    <2>3. \E g : Iterates(g, E, a, b)
      BY <2>2, Iterated
    <2> QED BY <2>1, <2>3 DEF Iterates
  <1>4. \A n \in Nat : g[n] \in D
    BY <1>3
  <1>5. \A n \in Nat : step[g[n]] = Narrowed(input, text, place)[g[n]]
    BY <1>4
  <1>6. \A n \in Nat : Searched(input, text, place, g[n])
    BY <1>4
  <1> HIDE DEF D, start, step
  <1>7. ASSUME NEW n \in Nat
        PROVE  g[n] = IF n = 0 THEN start ELSE Narrowed(input, text, place)[g[n - 1]]
    <2>1. CASE n = 0
      BY <1>3, <2>1
    <2>2. CASE n # 0
      <3>1. n - 1 \in Nat /\ (n - 1) + 1 = n
        BY <2>2
      <3>2. g[(n - 1) + 1] = Narrowed(input, text, place)[g[n - 1]]
        BY <1>3, <1>5, <3>1
      <3> QED BY <2>2, <3>1, <3>2
    <2> QED BY <2>1, <2>2
  <1>8. g = Round(g)
    BY <1>3, <1>7
  <1>9. PICK f : f = Rounds(input, text, place)
    OBVIOUS
  <1>10. f = CHOOSE h : h = Round(h)
    BY <1>9 DEF Rounds, start
  <1>11. f = Round(f)
    <2> HIDE DEF Round
    <2> QED BY <1>8, <1>10, Zenon
  <1>12. \A n \in Nat : f[n] = IF n = 0 THEN start ELSE Narrowed(input, text, place)[f[n - 1]]
    BY <1>11
  <1> DEFINE T == {n \in Nat : f[n] = g[n]}
  <1>13. ASSUME NEW n \in Nat, \A m \in Nat : m < n => m \in T
         PROVE  n \in T
    <2>1. CASE n = 0
      BY <1>7, <1>12, <2>1
    <2>2. CASE n # 0
      <3>1. n - 1 \in Nat /\ n - 1 < n
        BY <2>2
      <3>2. f[n - 1] = g[n - 1]
        BY <1>13, <3>1
      <3> QED BY <1>7, <1>12, <2>2, <3>2
    <2> QED BY <2>1, <2>2
  <1> HIDE DEF T
  <1>14. Nat \subseteq T
    BY <1>13, Induction
  <1>15. Find(input, text, place) = g[Len(input)]
    <2>1. Len(input) \in Nat
      OBVIOUS
    <2>2. f[Len(input)] = g[Len(input)]
      BY <1>14, <2>1 DEF T
    <2> QED BY <1>9, <2>2 DEF Find
  <1>16. g[0] = [l |-> 0, r |-> Len(input), length |-> 0, offset |-> 0]
    BY <1>3 DEF start
  <1>17. Search(g, input, text, place)
    BY <1>3, <1>5, <1>6, <1>16 DEF Search
  <1> QED BY <1>15, <1>17

\* The search ends with a match, and no place in the order but the last has a
\* longer one.
LEMMA FindFacts ==
  ASSUME NEW input \in Seq(Byte), NEW text \in Seq(Byte), NEW place \in 0 .. Len(text) - 1,
         Ordered(input, sa.input)
  PROVE  /\ Find(input, text, place) \in Window
         /\ Find(input, text, place).offset \in Positions(input)
         /\ LongestMatch(input, text, place)
  <1>1. Len(input) \in Nat /\ Len(text) \in Nat /\ place \in Positions(text) /\ place \in Nat
    BY DEF Positions
  <1>2. PICK w : w = Find(input, text, place)
    OBVIOUS
  <1>3. PICK g : Search(g, input, text, place) /\ w = g[Len(input)]
    <2>1. \E g : Search(g, input, text, place) /\ Find(input, text, place) = g[Len(input)]
      BY RoundsFacts
    <2> QED BY <1>2, <2>1
  <1>4. /\ \A n \in Nat : Searched(input, text, place, g[n])
        /\ g[0] = [l |-> 0, r |-> Len(input), length |-> 0, offset |-> 0]
        /\ \A n \in Nat : g[n + 1] = Narrowed(input, text, place)[g[n]]
    BY <1>3 DEF Search
  <1> DEFINE Done(v) == place + v.length = Len(text) \/ v.l >= v.r - 1
             T == {n \in Nat : Done(g[n]) \/ g[n].r - g[n].l <= Len(input) - n}
  <1>5. ASSUME NEW n \in Nat, \A m \in Nat : m < n => m \in T
        PROVE  n \in T
    <2>1. CASE n = 0
      <3>1. g[0].r - g[0].l <= Len(input) - 0
        BY <1>1, <1>4
      <3> QED BY <2>1, <3>1
    <2>2. CASE n # 0
      <3>1. PICK m \in Nat : n = m + 1 /\ m < n
        <4>1. n - 1 \in Nat /\ n = (n - 1) + 1 /\ n - 1 < n
          BY <2>2
        <4> QED BY <4>1
      <3>2. PICK a, b : a = g[m] /\ b = g[n]
        OBVIOUS
      <3>3. Searched(input, text, place, a) /\ Searched(input, text, place, b)
              /\ b = Narrowed(input, text, place)[a]
        BY <1>4, <3>1, <3>2
      <3>4. /\ place + a.length = Len(text) => place + b.length = Len(text)
            /\ a.l >= a.r - 1 => b = a
            /\ a.l < a.r - 1 => place + b.length = Len(text) \/ b.r - b.l < a.r - a.l
        BY <3>3, RoundKeeps
      <3>5. a.l \in Nat /\ a.r \in Nat /\ b.l \in Nat /\ b.r \in Nat
        BY <3>3 DEF Searched, Window
      <3>6. Done(a) \/ a.r - a.l <= Len(input) - m
        BY <1>5, <3>1, <3>2
      <3>7. Done(b) \/ b.r - b.l <= Len(input) - n
        BY <1>1, <3>1, <3>4, <3>5, <3>6
      <3> QED BY <3>2, <3>7
    <2> QED BY <2>1, <2>2
  <1> HIDE DEF T
  <1>6. Nat \subseteq T
    BY <1>5, Induction
  <1>7. Searched(input, text, place, w)
    BY <1>1, <1>3, <1>4
  <1>8. Done(w)
    <2>1. Done(w) \/ w.r - w.l <= Len(input) - Len(input)
      BY <1>1, <1>3, <1>4, <1>6 DEF T
    <2>2. w.l \in Nat /\ w.r \in Nat
      BY <1>7 DEF Searched, Window
    <2> QED BY <1>1, <2>1, <2>2
  <1>9. \A n \in 0 .. Len(input) - 1 : Common(input, sa.input[n], text, place, 0) <= w.length
    <2> SUFFICES ASSUME NEW n \in 0 .. Len(input) - 1
                 PROVE  Common(input, sa.input[n], text, place, 0) <= w.length
      OBVIOUS
    <2>1. w.l \in Nat /\ w.r \in Nat /\ w.length \in Nat /\ w.r <= Len(input)
      BY <1>7 DEF Searched, Window
    <2>2. sa.input \in [Positions(input) -> Positions(input)]
      BY DEF Ordered
    <2>3. n \in Positions(input) /\ 0 \in Positions(input) /\ n \in Nat
      BY <1>1 DEF Positions
    <2>4. PICK p, k : p = sa.input[n] /\ k = Common(input, sa.input[n], text, place, 0)
      OBVIOUS
    <2>5. p \in Positions(input)
      BY <2>2, <2>3, <2>4
    <2>6. /\ k \in Nat /\ Matches(input, p, text, place, k)
               /\ p + k <= Len(input) /\ place + k <= Len(text)
      BY <1>1, <2>4, <2>5, CommonMatches
    <2>7. CASE place + w.length = Len(text)
      BY <1>1, <2>1, <2>4, <2>6, <2>7
    <2>8. CASE place + w.length # Len(text)
      <3>1. /\ w.l >= w.r - 1
            /\ w.l > 0 => Passed(input, text, place, w.l, w)
            /\ w.r < Len(input) => Ahead(input, text, place, w.r, w)
        BY <1>7, <1>8, <2>8 DEF Searched
      <3>2. CASE n = 0
        <4>1. p = Len(input)
          <5> SUFFICES ASSUME p # Len(input)
                       PROVE  FALSE
            OBVIOUS
          <5>1. p \in 0 .. Len(input) - 1
            BY <2>5 DEF Positions
          <5>2. Place(sa.input, p) \in 1 .. Len(input) /\ sa.input[Place(sa.input, p)] = p
            BY <5>1, NeighbourFacts
          <5>3. Place(sa.input, p) \in Positions(input)
            BY <1>1, <5>2 DEF Positions
          <5>4. Place(sa.input, p) = 0
            BY <2>3, <2>4, <3>2, <5>2, <5>3, Places
          <5> QED BY <5>2, <5>4
        <4>2. k = 0
          BY <1>1, <2>6, <4>1
        <4> QED BY <2>1, <2>4, <4>2
      <3>3. CASE n # 0 /\ n <= w.l
        <4>1. PICK q, m : q = sa.input[w.l] /\ m = Common(input, q, text, place, 0)
          OBVIOUS
        <4>2. w.l > 0 /\ w.l \in Positions(input)
          <5>1. w.l <= w.r \/ w.l <= Len(input)
            BY <1>7, <2>1, <2>8 DEF Searched
          <5> QED BY <1>1, <2>1, <2>3, <3>3, <5>1 DEF Positions
        <4>3. Below(input, q, text, place) /\ m <= w.length
          BY <3>1, <4>1, <4>2 DEF Passed
        <4>4. q \in Positions(input)
          BY <2>2, <4>1, <4>2
        <4>5. Matches(input, q, text, place, k)
          <5>1. CASE n = w.l
            BY <2>4, <2>6, <4>1, <5>1
          <5>2. CASE n # w.l
            <6>1. n < w.l
              BY <2>1, <2>3, <3>3, <5>2
            <6>2. Smaller(input, p, q)
              BY <2>3, <2>4, <4>1, <4>2, <6>1, Ascending
            <6> QED BY <1>1, <2>5, <2>6, <4>3, <4>4, <6>2, BelowShares
          <5> QED BY <5>1, <5>2
        <4>6. m \in Nat /\ k <= m
          BY <1>1, <2>6, <4>1, <4>4, <4>5, CommonMatches
        <4> QED BY <2>1, <2>4, <2>6, <4>3, <4>6
      <3>4. CASE n > w.l
        <4>1. PICK q, m : q = sa.input[w.r] /\ m = Common(input, q, text, place, 0)
          OBVIOUS
        <4>2. w.r <= n /\ w.r < Len(input) /\ w.r \in Positions(input)
          BY <1>1, <2>1, <2>3, <3>1, <3>4 DEF Positions
        <4>3. Below(text, place, input, q) /\ m <= w.length
          BY <3>1, <4>1, <4>2 DEF Ahead
        <4>4. q \in Positions(input)
          BY <2>2, <4>1, <4>2
        <4>5. Matches(input, q, text, place, k)
          <5>1. CASE n = w.r
            BY <2>4, <2>6, <4>1, <5>1
          <5>2. CASE n # w.r
            <6>1. w.r < n
              BY <2>1, <2>3, <4>2, <5>2
            <6>2. Smaller(input, q, p)
              BY <2>3, <2>4, <4>1, <4>2, <6>1, Ascending
            <6> QED BY <1>1, <2>5, <2>6, <4>3, <4>4, <6>2, AboveShares
          <5> QED BY <5>1, <5>2
        <4>6. m \in Nat /\ k <= m
          BY <1>1, <2>6, <4>1, <4>4, <4>5, CommonMatches
        <4> QED BY <2>1, <2>4, <2>6, <4>3, <4>6
      <3> QED BY <2>1, <2>3, <3>2, <3>3, <3>4
    <2> QED BY <2>7, <2>8
  <1> QED BY <1>2, <1>7, <1>9 DEF Searched, LongestMatch

-----------------------------------------------------------------------------
(* Numbers and their bytes. *)

\* The digits of a number: the one that is written, and what is left behind it.
LEMMA HalfFacts ==
  /\ \A n \in Nat : n % Half \in 0 .. Half - 1 /\ n % Half \in Byte
  /\ \A n \in Nat : n < Half => Half + n \in Byte /\ n % Half = n /\ (Half + n) % Half = n
  /\ \A n \in Nat :
       n >= Half =>
         n \div Half - 1 \in 0 .. n - 1 /\ n = (n % Half) + Half * (1 + (n \div Half - 1))
  <1>1. Half \in Nat /\ Half > 0
    BY LimitAssumption
  <1>2. ASSUME NEW n \in Nat
        PROVE  n % Half \in 0 .. Half - 1 /\ n % Half \in Byte
    <2>1. n % Half \in 0 .. Half - 1
      BY <1>1
    <2> QED BY <1>1, <2>1 DEF Byte
  <1>3. ASSUME NEW n \in Nat, n < Half
        PROVE  Half + n \in Byte /\ n % Half = n /\ (Half + n) % Half = n
    <2>1. Half + n \in Byte
      BY <1>1, <1>3 DEF Byte
    <2>2. n % Half = n
      BY <1>1, <1>3
    <2>3. (Half + n) % Half = n
      <3>1. PICK d, r : d = (Half + n) \div Half /\ r = (Half + n) % Half
        OBVIOUS
      <3>2. d \in Int /\ r \in 0 .. Half - 1 /\ Half + n = Half * d + r
        BY <1>1, <3>1
      <3>3. d = 1
        <4>1. CASE d >= 2
          <5>1. Half * d >= 2 * Half
            BY <1>1, <3>2, <4>1
          <5> QED BY <1>1, <1>3, <3>2, <5>1
        <4>2. CASE d <= 0
          <5>1. Half * d <= 0
            BY <1>1, <3>2, <4>2
          <5> QED BY <1>1, <1>3, <3>2, <5>1
        <4> QED BY <3>2, <4>1, <4>2
      <3>4. r = n
        BY <1>1, <3>2, <3>3
      <3> QED BY <3>1, <3>4
    <2> QED BY <2>1, <2>2, <2>3
  <1>4. ASSUME NEW n \in Nat, n >= Half
        PROVE  n \div Half - 1 \in 0 .. n - 1
                 /\ n = (n % Half) + Half * (1 + (n \div Half - 1))
    <2>1. PICK d, r : d = n \div Half /\ r = n % Half
      OBVIOUS
    <2>2. d \in Int /\ r \in 0 .. Half - 1 /\ n = Half * d + r
      BY <1>1, <2>1
    <2>3. d >= 1
      <3>1. CASE d <= 0
        <4>1. Half * d <= 0
          BY <1>1, <2>2, <3>1
        <4> QED BY <1>1, <1>4, <2>2, <4>1
      <3> QED BY <2>2, <3>1
    <2>4. d <= n
      <3>1. Half * d >= d
        BY <1>1, <2>2, <2>3
      <3> QED BY <1>1, <2>2, <3>1
    <2>5. 1 + (d - 1) = d
      BY <2>2
    <2>6. n = r + Half * (1 + (d - 1))
      <3>1. Half * d \in Int
        BY <1>1, <2>2
      <3> QED BY <2>2, <2>5, <3>1
    <2>7. d - 1 \in 0 .. n - 1
      BY <2>2, <2>3, <2>4
    <2> QED BY <2>1, <2>6, <2>7
  <1> QED BY <1>2, <1>3, <1>4

\* encode[n] is defined for every number.
LEMMA EncodeFacts ==
  /\ encode \in [Nat -> Seq(Byte)]
  /\ \A n \in Nat : encode[n] = IF n < Half THEN <<Half + n>>
                                ELSE <<n % Half>> \o encode[n \div Half - 1]
  <1> DEFINE D == Seq(Byte)
             Code(n, f) == IF n < Half THEN <<Half + n>> ELSE <<n % Half>> \o f[n \div Half - 1]
             G == [n \in Nat |-> [f \in [0 .. n - 1 -> D] |-> Code(n, f)]]
             Is(f) == f = [n \in Nat |-> Code(n, f)]
  <1>1. ASSUME NEW n \in Nat, NEW f \in [0 .. n - 1 -> D]
        PROVE  Code(n, f) \in D
    <2>1. CASE n < Half
      <3>1. Half + n \in Byte
        BY <2>1, HalfFacts
      <3> QED BY <2>1, <3>1
    <2>2. CASE ~(n < Half)
      <3>1. n \div Half - 1 \in 0 .. n - 1 /\ n % Half \in Byte
        <4>1. n >= Half
          BY <2>2, LimitAssumption
        <4> QED BY <4>1, HalfFacts
      <3>2. f[n \div Half - 1] \in Seq(Byte)
        BY <3>1
      <3>3. <<n % Half>> \in Seq(Byte)
        BY <3>1
      <3> QED BY <2>2, <3>2, <3>3
    <2> QED BY <2>1, <2>2
  <1>2. Builds(G, D)
    <2> HIDE DEF D, Code
    <2> QED BY <1>1 DEF Builds
  <1>3. \A n \in Nat : \A f \in [0 .. n - 1 -> D] : G[n][f] = Code(n, f)
    OBVIOUS
  <1>4. PICK g \in [Nat -> D] : \A n \in Nat : g[n] = G[n][Prior(g, n)]
    <2> HIDE DEF G, D
    <2> QED BY <1>2, Recursive
  <1>5. ASSUME NEW n \in Nat
        PROVE  g[n] = Code(n, g)
    <2>1. Prior(g, n) \in [0 .. n - 1 -> D] /\ \A k \in 0 .. n - 1 : Prior(g, n)[k] = g[k]
      <3> HIDE DEF D
      <3> QED BY <1>4 DEF Prior
    <2>2. g[n] = Code(n, Prior(g, n))
      <3> HIDE DEF Code, D, G
      <3> QED BY <1>3, <1>4, <2>1
    <2>3. n < Half \/ n \div Half - 1 \in 0 .. n - 1
      <3>1. n < Half \/ n >= Half
        BY LimitAssumption
      <3> QED BY <3>1, HalfFacts
    <2> HIDE DEF D, G
    <2> QED BY <2>1, <2>2, <2>3
  <1>6. Is(g)
    <2> HIDE DEF Code, D, G
    <2> QED BY <1>4, <1>5
  <1>7. encode = CHOOSE f : Is(f)
    BY DEF encode
  <1>8. Is(encode)
    <2> HIDE DEF Is
    <2> QED BY <1>6, <1>7, Zenon
  <1>9. \A n \in Nat : encode[n] = Code(n, encode)
    BY <1>8
  <1> DEFINE T == {n \in Nat : encode[n] \in Seq(Byte)}
  <1>10. ASSUME NEW n \in Nat, \A m \in Nat : m < n => m \in T
         PROVE  n \in T
    <2>1. CASE n < Half
      <3>1. Half + n \in Byte
        BY <2>1, HalfFacts
      <3>2. encode[n] = <<Half + n>>
        BY <1>9, <2>1
      <3>3. encode[n] \in Seq(Byte)
        BY <3>1, <3>2
      <3> QED BY <3>3
    <2>2. CASE ~(n < Half)
      <3>1. n \div Half - 1 \in 0 .. n - 1 /\ n % Half \in Byte
        <4>1. n >= Half
          BY <2>2, LimitAssumption
        <4> QED BY <4>1, HalfFacts
      <3>2. n \div Half - 1 \in Nat /\ n \div Half - 1 < n
        BY <3>1
      <3>3. encode[n \div Half - 1] \in Seq(Byte)
        BY <1>10, <3>2
      <3>4. <<n % Half>> \in Seq(Byte)
        BY <3>1
      <3>5. encode[n] = <<n % Half>> \o encode[n \div Half - 1]
        BY <1>9, <2>2
      <3>6. encode[n] \in Seq(Byte)
        BY <3>3, <3>4, <3>5
      <3> QED BY <3>6
    <2> QED BY <2>1, <2>2
  <1> HIDE DEF T
  <1>11. Nat \subseteq T
    BY <1>10, Induction
  <1>12. \A n \in Nat : encode[n] \in Seq(Byte)
    BY <1>11 DEF T
  <1>13. encode = [n \in Nat |-> encode[n]]
    BY <1>8
  <1> QED BY <1>9, <1>12, <1>13

\* Where the elements of two sequences are, when one is put behind the other.
LEMMA ConcatFacts ==
  ASSUME NEW S, NEW a \in Seq(S), NEW b \in Seq(S)
  PROVE  /\ a \o b \in Seq(S) /\ Len(a \o b) = Len(a) + Len(b)
         /\ \A i \in 1 .. Len(a) : (a \o b)[i] = a[i]
         /\ \A i \in 1 .. Len(b) : (a \o b)[Len(a) + i] = b[i]
  <1>1. Len(a) \in Nat /\ Len(b) \in Nat
    OBVIOUS
  <1>2. a \o b \in Seq(S) /\ Len(a \o b) = Len(a) + Len(b)
    OBVIOUS
  <1>3. \A i \in 1 .. Len(a) : (a \o b)[i] = a[i]
    OBVIOUS
  <1>4. ASSUME NEW i \in 1 .. Len(b)
        PROVE  (a \o b)[Len(a) + i] = b[i]
    <2>1. Len(a) + i \in 1 .. Len(a) + Len(b)
            /\ ~(Len(a) + i <= Len(a)) /\ (Len(a) + i) - Len(a) = i
      BY <1>1
    <2> QED BY <1>1, <2>1
  <1> QED BY <1>2, <1>3, <1>4

\* The number n is encoded in bytes from p to q.
Reads(bytes, p, n, q) ==
  /\ q = p + Len(encode[n]) /\ q <= Len(bytes)
  /\ \A i \in 1 .. Len(encode[n]) : bytes[p + i] = encode[n][i]

\* A number is one marked byte, or a digit and a smaller number.
LEMMA ReadsFacts ==
  ASSUME NEW bytes, NEW p \in Nat, NEW n \in Nat, NEW q, Reads(bytes, p, n, q)
  PROVE  /\ n < Half => q = p + 1 /\ bytes[p + 1] = Half + n
         /\ n >= Half => /\ bytes[p + 1] = n % Half
                         /\ Reads(bytes, p + 1, n \div Half - 1, q)
  <1>1. CASE n < Half
    <2>1. encode[n] = <<Half + n>>
      BY <1>1, EncodeFacts
    <2>2. Len(encode[n]) = 1 /\ encode[n][1] = Half + n
      BY <2>1
    <2>3. ~(n >= Half)
      BY <1>1, LimitAssumption
    <2> QED BY <2>2, <2>3 DEF Reads
  <1>2. CASE n >= Half
    <2>1. ~(n < Half)
      BY <1>2, LimitAssumption
    <2>2. PICK m : m = n \div Half - 1
      OBVIOUS
    <2>3. m \in Nat /\ encode[n] = <<n % Half>> \o encode[m]
      <3>1. m \in 0 .. n - 1
        BY <1>2, <2>2, HalfFacts
      <3>2. encode[n] = <<n % Half>> \o encode[n \div Half - 1]
        BY <2>1, EncodeFacts
      <3> QED BY <2>2, <3>1, <3>2
    <2>4. PICK e, d : e = encode[m] /\ d = <<n % Half>>
      OBVIOUS
    <2>5. e \in Seq(Byte) /\ d \in Seq(Byte) /\ Len(d) = 1 /\ d[1] = n % Half
      BY <2>3, <2>4, EncodeFacts, HalfFacts
    <2>6. /\ Len(d \o e) = 1 + Len(e) /\ (d \o e)[1] = n % Half
          /\ \A i \in 1 .. Len(e) : (d \o e)[i + 1] = e[i]
      <3>4. d \in Seq(Byte) /\ e \in Seq(Byte)
        BY <2>5
      <3>1. /\ d \o e \in Seq(Byte) /\ Len(d \o e) = Len(d) + Len(e)
            /\ \A i \in 1 .. Len(d) : (d \o e)[i] = d[i]
            /\ \A i \in 1 .. Len(e) : (d \o e)[Len(d) + i] = e[i]
        BY <3>4, ConcatFacts
      <3>2. \A i \in 1 .. Len(e) : 1 + i = i + 1
        OBVIOUS
      <3>3. 1 \in 1 .. Len(d)
        BY <2>5
      <3> QED BY <2>5, <3>1, <3>2, <3>3
    <2>7. encode[n] = d \o e
      BY <2>3, <2>4
    <2>8. /\ q = p + (1 + Len(e)) /\ q <= Len(bytes)
          /\ \A i \in 1 .. 1 + Len(e) : bytes[p + i] = (d \o e)[i]
      BY <2>6, <2>7 DEF Reads
    <2>9. Len(e) \in Nat
      BY <2>5
    <2>10. bytes[p + 1] = n % Half
      BY <2>6, <2>8, <2>9
    <2>11. ASSUME NEW i \in 1 .. Len(e)
           PROVE  bytes[(p + 1) + i] = e[i]
      <3>1. i + 1 \in 1 .. 1 + Len(e) /\ p + (i + 1) = (p + 1) + i
        BY <2>9
      <3>2. bytes[p + (i + 1)] = (d \o e)[i + 1]
        BY <2>8, <3>1
      <3> QED BY <2>6, <3>1, <3>2
    <2>12. Reads(bytes, p + 1, m, q)
      <3>1. q = (p + 1) + Len(e) /\ q <= Len(bytes)
        BY <2>8, <2>9
      <3>2. Len(encode[m]) = Len(e) /\ \A i : encode[m][i] = e[i]
        BY <2>4
      <3> QED BY <2>11, <3>1, <3>2 DEF Reads
    <2> QED BY <2>1, <2>2, <2>10, <2>12
  <1> QED BY <1>1, <1>2, LimitAssumption

\* Value is defined for every number of bytes in front of the last.
LEMMA ValueFacts ==
  ASSUME NEW bytes \in Seq(Byte), NEW last \in 0 .. Len(bytes) - 1
  PROVE  /\ \A n \in 0 .. last : Value(bytes, last)[n] \in Nat
         /\ \A n \in 0 .. last : Value(bytes, last)[n] =
              IF n = 0 THEN bytes[last + 1] % Half
              ELSE (bytes[last - n + 1] % Half) + Half * (1 + Value(bytes, last)[n - 1])
  <1> DEFINE Digit(n) == IF n <= last THEN bytes[last - n + 1] % Half ELSE 0
             Number(n, f) == IF n = 0 THEN bytes[last + 1] % Half
                             ELSE (bytes[last - n + 1] % Half) + Half * (1 + f[n - 1])
             Is(f) == f = [n \in 0 .. last |-> Number(n, f)]
             Step(n, f) == IF n = 0 THEN Digit(0) ELSE Digit(n) + Half * (1 + f[n - 1])
             G == [n \in Nat |-> [f \in [0 .. n - 1 -> Nat] |-> Step(n, f)]]
  <1>1. Value(bytes, last) = CHOOSE f : Is(f)
    BY DEF Value
  <1>2. Half \in Nat /\ last \in Nat /\ Len(bytes) \in Nat
    BY LimitAssumption
  <1>3. ASSUME NEW n \in Nat
        PROVE  Digit(n) \in Nat
    <2>1. CASE n <= last
      <3>1. last - n + 1 \in 1 .. Len(bytes)
        BY <1>2, <2>1
      <3>2. bytes[last - n + 1] \in Nat
        <4>1. bytes[last - n + 1] \in Byte
          BY <3>1
        <4> QED BY <4>1, ByteFacts
      <3>3. PICK x : x = bytes[last - n + 1]
        OBVIOUS
      <3>4. x % Half \in Nat
        <4>1. x \in Nat
          BY <3>2, <3>3
        <4> QED BY <1>2, <4>1, HalfFacts
      <3> QED BY <2>1, <3>3, <3>4
    <2> QED BY <2>1
  <1> HIDE DEF Digit
  <1>4. ASSUME NEW n \in Nat, NEW f \in [0 .. n - 1 -> Nat]
        PROVE  Step(n, f) \in Nat
    <2>1. CASE n = 0
      BY <1>3, <2>1
    <2>2. CASE n # 0
      <3>1. f[n - 1] \in Nat
        BY <2>2
      <3>2. PICK x, d : x = Half * (1 + f[n - 1]) /\ d = Digit(n)
        OBVIOUS
      <3>3. x \in Nat
        <4>1. 1 + f[n - 1] \in Nat
          BY <3>1
        <4> QED BY <1>2, <3>2, <4>1
      <3>4. d \in Nat
        BY <1>3, <3>2
      <3>5. d + x \in Nat
        BY <3>3, <3>4
      <3> QED BY <2>2, <3>2, <3>5
    <2> QED BY <2>1, <2>2
  <1>5. Builds(G, Nat)
    <2> HIDE DEF Step
    <2> QED BY <1>4 DEF Builds
  <1>6. PICK g \in [Nat -> Nat] : \A n \in Nat : g[n] = G[n][Prior(g, n)]
    <2> HIDE DEF G
    <2>1. PICK D, B : D = Nat /\ B = G
      OBVIOUS
    <2>2. Builds(B, D)
      BY <1>5, <2>1
    <2>3. \E g \in [Nat -> D] : \A n \in Nat : g[n] = B[n][Prior(g, n)]
      BY <2>2, Recursive
    <2> QED BY <2>1, <2>3
  <1>7. ASSUME NEW n \in Nat
        PROVE  g[n] = Step(n, g)
    <2>1. Prior(g, n) \in [0 .. n - 1 -> Nat] /\ \A k \in 0 .. n - 1 : Prior(g, n)[k] = g[k]
      BY <1>6 DEF Prior
    <2>2. g[n] = Step(n, Prior(g, n))
      <3> HIDE DEF Step
      <3> QED BY <1>6, <2>1
    <2>3. n = 0 \/ n - 1 \in 0 .. n - 1
      OBVIOUS
    <2> QED BY <2>1, <2>2, <2>3
  <1> DEFINE h == [n \in 0 .. last |-> g[n]]
  <1>8. ASSUME NEW n \in 0 .. last
        PROVE  h[n] = Number(n, h)
    <2>1. n = 0 \/ n - 1 \in 0 .. last
      BY <1>2
    <2>2. Digit(n) = bytes[last - n + 1] % Half
      BY <1>2 DEF Digit
    <2>3. n = 0 => last - n + 1 = last + 1
      BY <1>2
    <2>4. CASE n = 0
      <3>1. h[n] = g[n] /\ g[n] = Digit(0)
        BY <1>7, <2>4
      <3> QED BY <2>2, <2>3, <2>4, <3>1
    <2>5. CASE n # 0
      <3>1. h[n] = g[n] /\ h[n - 1] = g[n - 1]
        BY <2>1, <2>5
      <3>2. n \in Nat
        BY <1>2
      <3>3. g[n] = Digit(n) + Half * (1 + g[n - 1])
        BY <1>7, <2>5, <3>2
      <3>4. h[n] = (bytes[last - n + 1] % Half) + Half * (1 + h[n - 1])
        <4> HIDE DEF h
        <4> QED BY <2>2, <3>1, <3>3
      <3> QED BY <2>5, <3>4
    <2> QED BY <2>4, <2>5
  <1>9. Is(h)
    <2> HIDE DEF Number
    <2> QED BY <1>8
  <1>10. PICK f : f = Value(bytes, last)
    OBVIOUS
  <1>11. Is(f)
    <2> HIDE DEF Is
    <2> QED BY <1>1, <1>9, <1>10, Zenon
  <1>12. \A n \in 0 .. last : f[n] = Number(n, f)
    BY <1>11
  <1> DEFINE T == {n \in Nat : n <= last => f[n] = g[n]}
  <1>13. ASSUME NEW n \in Nat, \A m \in Nat : m < n => m \in T
         PROVE  n \in T
    <2> SUFFICES ASSUME n <= last
                 PROVE  f[n] = g[n]
      OBVIOUS
    <2>1. n \in 0 .. last
      BY <1>2
    <2>2. h[n] = g[n] /\ h[n] = Number(n, h) /\ f[n] = Number(n, f)
      BY <1>8, <1>12, <2>1
    <2>3. CASE n = 0
      BY <2>2, <2>3
    <2>4. CASE n # 0
      <3>1. n - 1 \in Nat /\ n - 1 < n /\ n - 1 \in 0 .. last
        BY <1>2, <2>1, <2>4
      <3>2. f[n - 1] = g[n - 1]
        <4>1. n - 1 \in T
          BY <1>13, <3>1
        <4> QED BY <3>1, <4>1
      <3>4. h[n - 1] = g[n - 1]
        BY <3>1
      <3> QED BY <2>2, <2>4, <3>2, <3>4
    <2> QED BY <2>3, <2>4
  <1> HIDE DEF T
  <1>14. Nat \subseteq T
    BY <1>13, Induction
  <1>15. \A n \in 0 .. last : f[n] \in Nat
    <2> SUFFICES ASSUME NEW n \in 0 .. last
                 PROVE  f[n] \in Nat
      OBVIOUS
    <2>1. n \in Nat /\ n <= last
      BY <1>2
    <2>2. n \in T
      BY <1>14, <2>1
    <2> QED BY <1>6, <2>1, <2>2 DEF T
  <1> QED BY <1>10, <1>12, <1>15

-----------------------------------------------------------------------------
(* What is decoded. *)

\* The number n ends with the marked byte q.
Ended(bytes, p, n, q) ==
  /\ q \in Nat /\ p < q /\ q <= Len(bytes) /\ bytes[q] >= Half
  /\ \A x \in p + 1 .. q - 1 : bytes[x] < Half
  /\ Value(bytes, q - 1)[q - 1 - p] = n

\* The bytes of a number are read as the number.
LEMMA ReadsEnded ==
  ASSUME NEW bytes \in Seq(Byte), NEW q
  PROVE  \A n \in Nat : \A p \in Nat : Reads(bytes, p, n, q) => Ended(bytes, p, n, q)
  <1> DEFINE T == {n \in Nat : \A p \in Nat : Reads(bytes, p, n, q) => Ended(bytes, p, n, q)}
  <1>0. Half \in Nat /\ Half > 0 /\ Len(bytes) \in Nat
    BY LimitAssumption
  <1>1. ASSUME NEW n \in Nat, \A m \in Nat : m < n => m \in T
        PROVE  n \in T
    <2> SUFFICES ASSUME NEW p \in Nat, Reads(bytes, p, n, q)
                 PROVE  Ended(bytes, p, n, q)
      OBVIOUS
    <2>1. q <= Len(bytes)
      BY DEF Reads
    <2>2. CASE n < Half
      <3>1. q = p + 1 /\ bytes[p + 1] = Half + n
        BY <2>2, ReadsFacts
      <3>2. q - 1 \in 0 .. Len(bytes) - 1 /\ q - 1 - p = 0 /\ (q - 1) + 1 = p + 1
        BY <1>0, <2>1, <3>1
      <3>3. Value(bytes, q - 1)[0] = bytes[(q - 1) + 1] % Half
        <4>1. PICK v, last : v = Value(bytes, last) /\ last = q - 1
          OBVIOUS
        <4>2. last \in 0 .. Len(bytes) - 1 /\ 0 \in 0 .. last
          BY <1>0, <3>2, <4>1
        <4>3. Value(bytes, last)[0] = bytes[last + 1] % Half
          BY <4>2, ValueFacts
        <4> QED BY <4>1, <4>3
      <3>4. (Half + n) % Half = n
        BY <2>2, HalfFacts
      <3>5. Value(bytes, q - 1)[q - 1 - p] = n
        BY <3>1, <3>2, <3>3, <3>4
      <3>6. bytes[q] >= Half
        BY <1>0, <3>1
      <3>7. q \in Nat /\ p < q /\ \A x \in p + 1 .. q - 1 : bytes[x] < Half
        BY <3>1
      <3> QED BY <2>1, <3>5, <3>6, <3>7 DEF Ended
    <2>3. CASE n >= Half
      <3>1. PICK m : m = n \div Half - 1
        OBVIOUS
      <3>2. m \in Nat /\ m < n /\ n = (n % Half) + Half * (1 + m)
        <4>1. m \in 0 .. n - 1 /\ n = (n % Half) + Half * (1 + m)
          BY <2>3, <3>1, HalfFacts
        <4> QED BY <4>1
      <3>3. bytes[p + 1] = n % Half /\ Reads(bytes, p + 1, m, q)
        BY <2>3, <3>1, ReadsFacts
      <3>4. Ended(bytes, p + 1, m, q)
        <4>1. m \in T /\ p + 1 \in Nat
          BY <1>1, <3>2
        <4> QED BY <3>3, <4>1
      <3>5. /\ q \in Nat /\ p + 1 < q /\ bytes[q] >= Half
            /\ \A x \in (p + 1) + 1 .. q - 1 : bytes[x] < Half
            /\ Value(bytes, q - 1)[q - 1 - (p + 1)] = m
        BY <3>4 DEF Ended
      <3>6. PICK last, v, k : last = q - 1 /\ v = Value(bytes, last) /\ k = q - 1 - p
        OBVIOUS
      <3>7. /\ last \in 0 .. Len(bytes) - 1 /\ k \in 0 .. last /\ k # 0
                 /\ last - k + 1 = p + 1
            /\ k - 1 = q - 1 - (p + 1)
        BY <1>0, <2>1, <3>5, <3>6
      <3>8. v[k] = (bytes[last - k + 1] % Half) + Half * (1 + v[k - 1])
        <4>1. Value(bytes, last)[k] = (bytes[last - k + 1] % Half)
                                      + Half * (1 + Value(bytes, last)[k - 1])
          BY <3>7, ValueFacts
        <4> QED BY <3>6, <4>1
      <3>9. v[k - 1] = m
        BY <3>5, <3>6, <3>7
      <3>10. PICK r : r = n % Half
        OBVIOUS
      <3>11. r \in Nat /\ r < Half /\ r % Half = r
        <4>1. r \in 0 .. Half - 1
          BY <3>10, HalfFacts
        <4>2. r \in Nat /\ r < Half
          BY <1>0, <4>1
        <4> QED BY <4>2, HalfFacts
      <3>12. bytes[last - k + 1] % Half = r
        BY <3>3, <3>7, <3>10, <3>11
      <3>13. v[k] = n
        BY <3>2, <3>8, <3>9, <3>10, <3>12
      <3>14. \A x \in p + 1 .. q - 1 : bytes[x] < Half
        <4> SUFFICES ASSUME NEW x \in p + 1 .. q - 1
                     PROVE  bytes[x] < Half
          OBVIOUS
        <4>1. CASE x = p + 1
          BY <3>3, <3>10, <3>11, <4>1
        <4>2. CASE x # p + 1
          <5>1. x \in (p + 1) + 1 .. q - 1
            BY <3>5, <4>2
          <5> QED BY <3>5, <5>1
        <4> QED BY <4>1, <4>2
      <3>15. p < q
        BY <3>5
      <3> QED BY <2>1, <3>5, <3>6, <3>13, <3>14, <3>15 DEF Ended
    <2> QED BY <1>0, <2>2, <2>3
  <1> HIDE DEF T
  <1>2. Nat \subseteq T
    BY <1>1, Induction
  <1> QED BY <1>2 DEF T

\* A number that was encoded is the only one that is decoded.
LEMMA DecodeReads ==
  ASSUME NEW bytes \in Seq(Byte), NEW p \in Nat, NEW n \in Nat, NEW q, Reads(bytes, p, n, q)
  PROVE  q \in Nat /\ p < q /\ Decode(bytes, p) = {[value |-> n, next |-> q]}
  <1>1. Ended(bytes, p, n, q)
    BY ReadsEnded
  <1>2. /\ q \in Nat /\ p < q /\ q <= Len(bytes) /\ bytes[q] >= Half
        /\ \A x \in p + 1 .. q - 1 : bytes[x] < Half
        /\ Value(bytes, q - 1)[q - 1 - p] = n
    BY <1>1 DEF Ended
  <1>3. PICK ends : ends = {x \in p .. Len(bytes) - 1 : bytes[x + 1] >= Half}
    OBVIOUS
  <1>4. q - 1 \in ends
    BY <1>2, <1>3
  <1>5. \A x \in ends : q - 1 <= x /\ x \in Int
    <2> SUFFICES ASSUME NEW x \in ends, x < q - 1
                 PROVE  FALSE
      BY <1>2, <1>3
    <2>1. x + 1 \in p + 1 .. q - 1 /\ bytes[x + 1] >= Half
      BY <1>2, <1>3
    <2>2. bytes[x + 1] < Half
      BY <1>2, <2>1
    <2>3. bytes[x + 1] \in Nat
      <3>1. x + 1 \in 1 .. Len(bytes)
        BY <1>2, <2>1
      <3>2. bytes[x + 1] \in Byte
        BY <3>1
      <3> QED BY <3>2, ByteFacts
    <2>4. Half \in Nat
      BY LimitAssumption
    <2> QED BY <2>1, <2>2, <2>3, <2>4
  <1>6. Min(ends) = q - 1
    <2>1. Min(ends) = CHOOSE x \in ends : \A y \in ends : x <= y
      BY DEF Min
    <2>2. \A x \in ends : (\A y \in ends : x <= y) => x = q - 1
      BY <1>2, <1>4, <1>5
    <2>3. \A y \in ends : q - 1 <= y
      BY <1>5
    <2> QED BY <1>4, <2>1, <2>2, <2>3
  <1>7. ends # {}
    BY <1>4
  <1>8. (q - 1) + 1 = q
    BY <1>2
  <1> QED BY <1>2, <1>3, <1>6, <1>7, <1>8 DEF Decode

\* What is decoded from any bytes are numbers.
LEMMA DecodeType ==
  ASSUME NEW bytes \in Seq(Byte), NEW p \in Nat, NEW d \in Decode(bytes, p)
  PROVE  d.value \in Nat /\ d.next \in Nat
  <1>0. Len(bytes) \in Nat
    OBVIOUS
  <1>1. PICK ends : ends = {x \in p .. Len(bytes) - 1 : bytes[x + 1] >= Half}
    OBVIOUS
  <1>2. CASE ends = {}
    <2>1. d \in {[value |-> v, next |-> Len(bytes) + 1] : v \in Junk}
      BY <1>1, <1>2 DEF Decode
    <2>2. PICK v \in Junk : d = [value |-> v, next |-> Len(bytes) + 1]
      BY <2>1
    <2>3. v \in Nat
      BY ByteAssumption, ByteFacts
    <2> QED BY <1>0, <2>2, <2>3
  <1>3. CASE ends # {}
    <2>1. ends \subseteq Nat
      BY <1>1
    <2>2. PICK x \in ends : \A y \in ends : x <= y
      BY <1>3, <2>1, Smallest
    <2>3. Min(ends) \in ends
      <3>1. Min(ends) = CHOOSE z \in ends : \A y \in ends : z <= y
        BY DEF Min
      <3> QED BY <2>2, <3>1
    <2>4. PICK last : last = Min(ends)
      OBVIOUS
    <2>5. last \in p .. Len(bytes) - 1
      BY <1>1, <2>3, <2>4
    <2>6. last \in 0 .. Len(bytes) - 1 /\ last - p \in 0 .. last /\ last + 1 \in Nat
      BY <1>0, <2>5
    <2>7. Value(bytes, last)[last - p] \in Nat
      BY <2>6, ValueFacts
    <2>8. d = [value |-> Value(bytes, last)[last - p], next |-> last + 1]
      BY <1>1, <1>3, <2>4 DEF Decode
    <2> QED BY <2>6, <2>7, <2>8
  <1> QED BY <1>2, <1>3

\* Numbers of 32 bits.
LEMMA UnsignedFacts ==
  /\ Modulus \in Nat /\ Modulus = 4 * Limit /\ Limit \in Nat /\ Limit > 0
  /\ \A n \in Int : Unsigned(n) \in 0 .. Modulus - 1
  /\ \A n \in Nat : n < Modulus => Unsigned(n) = n
  <1>1. Modulus \in Nat /\ Modulus > 0 /\ Modulus = 4 * Limit /\ Limit \in Nat /\ Limit > 0
    BY LimitAssumption DEF Modulus
  <1>2. \A n \in Int : n % Modulus \in 0 .. Modulus - 1
    BY <1>1
  <1>3. \A n \in Nat : n < Modulus => n % Modulus = n
    BY <1>1
  <1> QED BY <1>1, <1>2, <1>3 DEF Unsigned

-----------------------------------------------------------------------------
(* The match that is chosen. *)

\* A match is where it says, in the file it is copied from and in the target.
Suits(match) ==
  /\ match.mode \in {SourceRead, SourceCopy, TargetCopy}
  /\ match.length \in Nat /\ match.offset \in Nat /\ at + match.length <= Len(target)
  /\ match.mode # TargetCopy =>
       /\ match.offset + match.length <= Len(source)
       /\ Matches(source, match.offset, target, at, match.length)
  /\ match.mode = SourceRead => match.offset = at
  /\ match.mode = TargetCopy =>
       match.offset < at /\ Matches(target, match.offset, target, at, match.length)

Candidate(match) ==
  match.length \in Nat /\ match.length < Modulus /\ (match.length > 0 => Suits(match))
Chosen(match) ==
  \/ match = Match(TargetRead, Threshold, 0)
  \/ Suits(match) /\ match.length > Threshold

\* Of a candidate and what was chosen before, the longer one is chosen.
LEMMA LongerFacts ==
  ASSUME NEW match, NEW best, Candidate(match), Chosen(best)
  PROVE  Chosen(Longer(match, best))
  <1>1. Unsigned(match.length) = match.length
    BY UnsignedFacts DEF Candidate
  <1>2. best.length \in Nat /\ best.length >= Threshold /\ Threshold \in Nat
    BY LimitAssumption DEF Chosen, Match, Suits
  <1>3. CASE match.length > best.length
    <2>1. match.length > Threshold /\ Suits(match)
      BY <1>2, <1>3 DEF Candidate
    <2> QED BY <1>1, <1>3, <2>1 DEF Longer, Chosen
  <1>4. CASE ~(match.length > best.length)
    BY <1>1, <1>4 DEF Longer
  <1> QED BY <1>3, <1>4

\* What is shared up to a place is shared before it.
LEMMA MatchesLess ==
  ASSUME NEW s, NEW p, NEW t, NEW q, NEW k \in Nat, NEW n \in Nat,
         n <= k, Matches(s, p, t, q, k)
  PROVE  Matches(s, p, t, q, n)
  BY DEF Matches

\* The position create() is at, in files without overflow.
Reached ==
  /\ source \in Seq(Byte) /\ target \in Seq(Byte)
  /\ Len(source) < 2 * Limit /\ Len(target) < 2 * Limit
  /\ at \in 0 .. Len(target) - 1

\* create() writes a command only for a match.
LEMMA BestFacts ==
  ASSUME Reached, Ordered(source, sa.input), LongestPrevious(target), lengths[at] \in Int
  PROVE  Chosen(Best(Find(source, target, at)))
  <1>1. /\ source \in Seq(Byte) /\ target \in Seq(Byte) /\ Len(source) \in Nat
             /\ Len(target) \in Nat
        /\ Len(source) < Modulus /\ Len(target) < Modulus /\ at \in Nat /\ at < Len(target)
        /\ at \in Positions(target) /\ Modulus \in Nat /\ 0 < Modulus
    BY UnsignedFacts DEF Reached, Positions
  <1>2. PICK found : found = Find(source, target, at)
    OBVIOUS
  <1>3. PICK here : here = IF at < Len(source) THEN Common(source, at, target, at, 0) ELSE 0
    OBVIOUS
  <1> DEFINE none == Match(TargetRead, Threshold, 0)
             read == Match(SourceRead, here, at)
             copy == Match(SourceCopy, found.length, found.offset)
             past == Match(TargetCopy, lengths[at], offsets[at])
  <1>4. Candidate(read)
    <2>1. CASE at < Len(source)
      <3>1. at \in Positions(source)
        BY <1>1, <2>1 DEF Positions
      <3>2. /\ here \in Nat /\ Matches(source, at, target, at, here)
            /\ at + here <= Len(source) /\ at + here <= Len(target)
        BY <1>1, <1>3, <2>1, <3>1, CommonMatches
      <3>3. here < Modulus
        BY <1>1, <3>2
      <3> QED BY <1>1, <3>2, <3>3 DEF Candidate, Suits, Match, SourceRead, SourceCopy,
            TargetCopy
    <2>2. CASE ~(at < Len(source))
      BY <1>1, <1>3, <2>2 DEF Candidate, Match
    <2> QED BY <2>1, <2>2
  <1>5. Candidate(copy)
    <2>1. /\ found \in Window /\ found.offset \in Positions(source)
          /\ LongestMatch(source, target, at)
      <3>1. at \in 0 .. Len(target) - 1
        BY <1>1
      <3> QED BY <1>1, <1>2, <3>1, FindFacts
    <2>2. PICK p, n, k : p = found.offset /\ n = found.length
                 /\ k = Common(source, p, target, at, 0)
      OBVIOUS
    <2>3. n \in Nat /\ p \in Positions(source) /\ p \in Nat /\ n <= k
      BY <1>2, <2>1, <2>2 DEF Window, Positions, LongestMatch
    <2>4. /\ k \in Nat /\ Matches(source, p, target, at, k)
          /\ p + k <= Len(source) /\ at + k <= Len(target)
      BY <1>1, <2>2, <2>3, CommonMatches
    <2>5. Matches(source, p, target, at, n)
      BY <2>3, <2>4, MatchesLess
    <2>6. p + n <= Len(source) /\ at + n <= Len(target) /\ n < Modulus
      BY <1>1, <2>3, <2>4
    <2>7. copy = Match(SourceCopy, n, p)
      BY <2>2
    <2> QED BY <2>3, <2>5, <2>6, <2>7 DEF Candidate, Suits, Match, SourceRead, SourceCopy,
          TargetCopy
  <1>6. Candidate(past)
    <2>1. PICK p, n : p = offsets[at] /\ n = lengths[at]
      OBVIOUS
    <2>2. n \in Int /\ n >= 0
      BY <1>1, <2>1 DEF LongestPrevious, Reached
    <2>3. CASE n > 0
      <3>1. PICK k : k = Common(target, p, target, at, 0)
        OBVIOUS
      <3>2. p \in 0 .. at - 1 /\ k >= n
        BY <1>1, <2>1, <2>3, <3>1 DEF LongestPrevious, Reached
      <3>3. p \in Positions(target) /\ p \in Nat /\ p < at
        BY <1>1, <3>2 DEF Positions
      <3>4. /\ k \in Nat /\ Matches(target, p, target, at, k) /\ at + k <= Len(target)
        BY <1>1, <3>1, <3>3, CommonMatches
      <3>5. Matches(target, p, target, at, n)
        BY <2>2, <3>2, <3>4, MatchesLess
      <3>6. at + n <= Len(target) /\ n < Modulus
        BY <1>1, <2>2, <3>2, <3>4
      <3>7. past = Match(TargetCopy, n, p)
        BY <2>1
      <3> QED BY <2>2, <3>3, <3>5, <3>6, <3>7 DEF Candidate, Suits, Match, SourceRead,
            SourceCopy, TargetCopy
    <2>4. CASE n = 0
      BY <2>1, <2>4, UnsignedFacts DEF Candidate, Match
    <2> QED BY <2>2, <2>3, <2>4
  <1>7. Chosen(none)
    BY DEF Chosen
  <1> HIDE DEF none, read, copy, past
  <1>8. Chosen(Longer(read, none))
    BY <1>4, <1>7, LongerFacts
  <1>9. Chosen(Longer(copy, Longer(read, none)))
    BY <1>5, <1>8, LongerFacts
  <1>10. Chosen(Longer(past, Longer(copy, Longer(read, none))))
    BY <1>6, <1>9, LongerFacts
  <1>11. Best(Find(source, target, at)) = Longer(past, Longer(copy, Longer(read, none)))
    BY <1>2, <1>3 DEF Best, none, read, copy, past
  <1> QED BY <1>10, <1>11

-----------------------------------------------------------------------------
(* What files, memory and the table hold. *)

\* The files on disk; as long as there is no patch, nothing was replayed or
\* exchanged, and the files are those a patch can be made from.
Stored ==
  /\ disk["original"] \in Seq(Byte) /\ disk["modified"] \in Seq(Byte)
  /\ disk["written"] = None \/ disk["written"] \in Seq(Byte)
  /\ disk["patch"] = None \/ disk["patch"] \in PatchFile
  /\ forced \subseteq Destinations
  /\ disk["patch"] = None => /\ ~Applying
                             /\ Len(disk["original"]) < 2 * Limit
                             /\ Len(disk["modified"]) < 2 * Limit

\* The files in memory.
Loaded ==
  /\ pc \in {"idle", "table", "create", "header", "commands", "decide"}
  /\ source \in Seq(Byte) /\ target \in Seq(Byte) /\ beat \in PatchFile
  /\ result \in {"success", "warning", "error", None}
  /\ Creating => disk["patch"] = None

\* The places in them.
Placed ==
  /\ at \in Nat /\ queued \in 0 .. at
  /\ sourceRelativeOffset \in 0 .. Modulus - 1 /\ targetRelativeOffset \in 0 .. Modulus - 1
  /\ pc \in {"idle", "table", "header"} => at = 0
  /\ pc = "create" => at <= Len(target)
  /\ pc # "create" => queued = 0

\* The table.
Bounded ==
  /\ lengths \in [Positions(target) -> Int]
  /\ \A p \in Positions(target) : lengths[p] \in -1 .. Len(target) - p
Tabled == IF Creating THEN Bounded ELSE lengths = <<>>

TInv == FInv /\ Stored /\ Loaded /\ Placed /\ Tabled

\* What the table holds ends inside the target.
LEMMA Filled == Loaded /\ Entries => Bounded
  <1> SUFFICES ASSUME Loaded, Entries, NEW p \in Positions(target)
               PROVE  lengths[p] \in -1 .. Len(target) - p
    BY DEF Entries, Bounded
  <1>1. /\ lengths[p] \in Int /\ lengths[p] >= -1 /\ Len(target) \in Nat
             /\ p \in 0 .. Len(target)
        /\ lengths[p] >= 0 => Shares(target, p, offsets[p], lengths[p])
    <2>1. target \in Seq(Byte)
      BY DEF Loaded
    <2>2. lengths[p] \in Int /\ lengths[p] >= -1
      BY DEF Entries
    <2>3. lengths[p] >= 0 => Shares(target, p, offsets[p], lengths[p])
      BY DEF Entries
    <2>4. Len(target) \in Nat /\ p \in 0 .. Len(target)
      BY <2>1 DEF Positions
    <2> QED BY <2>2, <2>3, <2>4
  <1>2. PICK n : n = lengths[p]
    OBVIOUS
  <1>3. CASE n > 0
    <2>1. n - 1 \in 0 .. n - 1 /\ n >= 0
      BY <1>1, <1>2, <1>3
    <2>2. p + (n - 1) < Len(target)
      BY <1>1, <1>2, <2>1 DEF Shares, Alike
    <2> QED BY <1>1, <1>2, <2>1, <2>2
  <1>4. CASE ~(n > 0)
    BY <1>1, <1>2, <1>4
  <1> QED BY <1>3, <1>4

\* Patches are made of bytes and sums.
LEMMA SumsType ==
  ASSUME NEW s \in Seq(Byte), NEW t \in Seq(Byte), NEW body \in Seq(Byte)
  PROVE  Patch(body, Sums(s, t, body)) \in PatchFile
  BY DEF Patch, Sums, PatchFile, Summed

\* A patch without sums is one too.
LEMMA NoSumsType ==
  ASSUME NEW body \in Seq(Byte)
  PROVE  Patch(body, NoSums) \in PatchFile
  BY DEF Patch, NoSums, PatchFile, Summed

\* So is one whose commands are others.
LEMMA BodyType ==
  ASSUME NEW patch \in PatchFile, NEW body \in Seq(Byte)
  PROVE  [patch EXCEPT !.body = body] \in PatchFile /\ Patch(body, patch.sums) \in PatchFile
  BY DEF PatchFile, Patch

\* Damage leaves it one.
LEMMA DamagedType ==
  ASSUME NEW patch \in PatchFile, NEW worse \in Damaged(patch)
  PROVE  worse \in PatchFile
  <1>1. PICK body, sums : body = patch.body /\ sums = patch.sums
    OBVIOUS
  <1>2. body \in Seq(Byte) /\ Len(body) \in Nat /\ DOMAIN body = 1 .. Len(body)
    BY <1>1 DEF PatchFile
  <1> DEFINE Changed == UNION {{Patch([patch.body EXCEPT ![n] = b], patch.sums) : b \in Damages}
                                 : n \in DOMAIN patch.body}
             Shorter == {Patch(RemoveAt(patch.body, n), patch.sums) : n \in DOMAIN patch.body}
             Cut == {Patch(SubSeq(patch.body, 1, n), NoSums) : n \in 0 .. Len(patch.body) - 1}
             Unsummed == {Patch(patch.body, [patch.sums EXCEPT ![n] = Wrong])
                            : n \in {"source", "target", "beat"}}
  <1>3. Damaged(patch) = ((Changed \cup Shorter) \cup Cut) \cup Unsummed
    BY Zenon DEF Damaged
  <1>4. worse \in Changed \/ worse \in Shorter \/ worse \in Cut \/ worse \in Unsummed
    <2> HIDE DEF Changed, Shorter, Cut, Unsummed
    <2> QED BY <1>3, Zenon
  <1>5. CASE worse \in Changed
    <2>1. PICK n \in DOMAIN patch.body :
            worse \in {Patch([patch.body EXCEPT ![n] = b], patch.sums) : b \in Damages}
      BY <1>5, Zenon
    <2>2. PICK b \in Damages : worse = Patch([patch.body EXCEPT ![n] = b], patch.sums)
      BY <2>1, Zenon
    <2>3. [patch.body EXCEPT ![n] = b] \in Seq(Byte)
      BY <1>1, <1>2, ByteAssumption
    <2> QED BY <2>2, <2>3, BodyType
  <1>6. CASE worse \in Shorter
    <2>1. PICK n \in DOMAIN patch.body : worse = Patch(RemoveAt(patch.body, n), patch.sums)
      BY <1>6, Zenon
    <2>2. PICK a, c : a = SubSeq(body, 1, n - 1) /\ c = SubSeq(body, n + 1, Len(body))
      OBVIOUS
    <2>3. a \in Seq(Byte) /\ c \in Seq(Byte)
      BY <1>1, <1>2, <2>1, <2>2
    <2>4. RemoveAt(body, n) = a \o c
      BY <2>2 DEF RemoveAt
    <2>5. RemoveAt(body, n) \in Seq(Byte)
      BY <2>3, <2>4
    <2> QED BY <1>1, <2>1, <2>5, BodyType
  <1>7. CASE worse \in Cut
    <2>1. PICK n \in 0 .. Len(patch.body) - 1 :
                 worse = Patch(SubSeq(patch.body, 1, n), NoSums)
      BY <1>7, Zenon
    <2>2. SubSeq(patch.body, 1, n) \in Seq(Byte)
      BY <1>1, <1>2
    <2> QED BY <2>1, <2>2, NoSumsType
  <1>8. CASE worse \in Unsummed
    <2>1. PICK n \in {"source", "target", "beat"} :
                 worse = Patch(patch.body, [patch.sums EXCEPT ![n] = Wrong])
      BY <1>8, Zenon
    <2>2. [patch.sums EXCEPT ![n] = Wrong] \in
            [source : Summed, target : Summed,
             beat : (Seq(Byte) \X Seq(Byte) \X Seq(Byte)) \cup {Wrong}]
      <3>1. sums \in [source : Summed, target : Summed,
                      beat : (Seq(Byte) \X Seq(Byte) \X Seq(Byte)) \cup {Wrong}]
        BY <1>1 DEF PatchFile
      <3> QED BY <1>1, <2>1, <3>1 DEF Summed
    <2> QED BY <1>1, <1>2, <2>1, <2>2 DEF Patch, PatchFile
  <1> QED BY <1>4, <1>5, <1>6, <1>7, <1>8

\* What is read of a file or of what stands behind it is a byte.
LEMMA GetType ==
  ASSUME NEW bytes \in Seq(Byte), NEW p \in Nat, NEW junk \in Junk
  PROVE  Get(bytes, p, junk) \in Byte
  <1>1. CASE p < Len(bytes)
    <2>1. p + 1 \in 1 .. Len(bytes)
      BY <1>1
    <2>2. bytes[p + 1] \in Byte
      BY <2>1
    <2> QED BY <1>1, <2>2 DEF Get
  <1>2. CASE ~(p < Len(bytes))
    BY <1>2, ByteAssumption DEF Get
  <1> QED BY <1>1, <1>2

\* What is copied within the target is a byte.
LEMMA TargetByteType ==
  ASSUME target \in Seq(Byte), NEW p \in Nat, NEW n \in Nat, NEW junk \in Junk
  PROVE  TargetByte(p, n, junk) \in Byte
  <1>1. Len(target) \in Nat
    OBVIOUS
  <1>2. CASE p < Len(target)
    <2>1. PICK d, r : d = Len(target) - p /\ r = n % d
      OBVIOUS
    <2>2. d \in Nat /\ d > 0
      BY <1>1, <1>2, <2>1
    <2>3. r \in 0 .. d - 1
      BY <2>1, <2>2
    <2>4. p + r + 1 \in 1 .. Len(target)
      BY <1>1, <2>1, <2>2, <2>3
    <2>5. target[p + r + 1] \in Byte
      BY <2>4
    <2>6. ~(p >= Len(target))
      BY <1>1, <1>2
    <2> QED BY <2>1, <2>5, <2>6 DEF TargetByte
  <1>3. CASE ~(p < Len(target))
    <2>1. p >= Len(target)
      BY <1>1, <1>3
    <2> QED BY <2>1, ByteAssumption DEF TargetByte
  <1> QED BY <1>2, <1>3

\* A command appends bytes.
LEMMA RunType ==
  ASSUME source \in Seq(Byte), target \in Seq(Byte), beat.body \in Seq(Byte),
         NEW mode \in {SourceRead, TargetRead, SourceCopy, TargetCopy},
         NEW length \in Nat, NEW p \in Nat, NEW junk \in Junk
  PROVE  Run(mode, length, p, junk) \in Seq(Byte)
  <1> DEFINE Appended(n) ==
               CASE mode = SourceRead -> Get(source, Len(target) + n - 1, junk)
                 [] mode = TargetRead -> Get(beat.body, p + n - 1, junk)
                 [] mode = SourceCopy -> Get(source, p + n - 1, junk)
                 [] mode = TargetCopy -> TargetByte(p, n - 1, junk)
  <1>1. ASSUME NEW n \in 1 .. length
        PROVE  Appended(n) \in Byte
    <2>1. Len(target) \in Nat /\ Len(target) + n - 1 \in Nat /\ p + n - 1 \in Nat
            /\ n - 1 \in Nat
      OBVIOUS
    <2>2. Get(source, Len(target) + n - 1, junk) \in Byte
      BY <2>1, GetType
    <2>3. Get(beat.body, p + n - 1, junk) \in Byte
      BY <2>1, GetType
    <2>4. Get(source, p + n - 1, junk) \in Byte
      BY <2>1, GetType
    <2>5. TargetByte(p, n - 1, junk) \in Byte
      BY <2>1, TargetByteType
    <2> QED BY <2>2, <2>3, <2>4, <2>5 DEF SourceRead, TargetRead, SourceCopy, TargetCopy
  <1> HIDE DEF Appended
  <1>2. [n \in 1 .. length |-> Appended(n)] \in Seq(Byte)
    BY <1>1
  <1> QED BY <1>2 DEF Run, Appended

-----------------------------------------------------------------------------
(* While a patch is made. *)

\* What changes nothing on disk.
LEMMA StoredKept ==
  ASSUME Stored, UNCHANGED <<disk, forced>>, Applying' => Applying \/ disk["patch"] # None
  PROVE  Stored'
  BY DEF Stored

\* Memory is freed.
LEMMA BackIdle ==
  ASSUME Idle, pc' = "idle", lengths' = <<>>
  PROVE  Loaded' /\ Placed' /\ Tabled'
  <1>1. <<>> \in Seq(Byte)
    OBVIOUS
  <1>2. NoPatch \in PatchFile
    BY <1>1, NoSumsType DEF NoPatch
  <1>3. 0 \in 0 .. Modulus - 1
    BY UnsignedFacts
  <1> QED BY <1>1, <1>2, <1>3 DEF Idle, Loaded, Placed, Tabled, Creating

\* Encoded numbers are bytes.
LEMMA Encoded ==
  ASSUME NEW n \in Int
  PROVE  encode[Unsigned(n)] \in Seq(Byte)
  <1>1. Unsigned(n) \in Nat
    BY UnsignedFacts
  <1> QED BY <1>1, EncodeFacts

\* What is queued makes bytes.
LEMMA FlushedType ==
  ASSUME target \in Seq(Byte), at \in 0 .. Len(target), queued \in 0 .. at
  PROVE  Flushed \in Seq(Byte)
  <1>1. CASE queued = 0
    BY <1>1 DEF Flushed
  <1>2. CASE queued # 0
    <2>1. TargetRead + 4 * (queued - 1) \in Int /\ Len(target) \in Nat
      BY DEF TargetRead
    <2>2. encode[LengthCode(TargetRead, queued)] \in Seq(Byte)
      BY <2>1, Encoded DEF LengthCode
    <2>3. SubSeq(target, at - queued + 1, at) \in Seq(Byte)
      BY <2>1
    <2> QED BY <1>2, <2>2, <2>3 DEF Flushed
  <1> QED BY <1>1, <1>2

\* So does the header.
LEMMA HeaderType ==
  ASSUME NEW s \in Seq(Byte), NEW t \in Seq(Byte)
  PROVE  Header(s, t) \in Seq(Byte)
  <1>1. Len(s) \in Nat /\ Len(t) \in Nat
    OBVIOUS
  <1>2. Mark \in Byte
    BY LimitAssumption DEF Mark, Byte
  <1>3. encode[Len(s)] \in Seq(Byte) /\ encode[Len(t)] \in Seq(Byte)
          /\ encode[0] \in Seq(Byte)
    BY <1>1, EncodeFacts
  <1>4. PICK a, b, c : a = encode[Len(s)] /\ b = encode[Len(t)] /\ c = encode[0]
    OBVIOUS
  <1>5. <<Mark>> \o a \o b \o c \in Seq(Byte)
    BY <1>2, <1>3, <1>4
  <1> QED BY <1>4, <1>5 DEF Header

\* A patch is begun.
LEMMA StartCreateType ==
  ASSUME TInv, StartCreate
  PROVE  Stored' /\ Loaded' /\ Placed' /\ Tabled'
  <1>1. disk = [n \in Names |-> disk[n]]
    BY DEF TInv, FInv, IInv, Files
  <1>2. /\ pc = "idle" /\ pc' = "table" /\ disk["patch"] = None /\ UNCHANGED <<disk, forced>>
        /\ source' = disk["original"] /\ target' = disk["modified"]
        /\ beat' = Patch(Header(disk["original"], disk["modified"]), NoSums)
        /\ lengths' = [p \in Positions(target') |-> -1]
        /\ UNCHANGED <<at, queued, sourceRelativeOffset, targetRelativeOffset, result>>
    BY <1>1 DEF StartCreate, counters, NewTable, Names
  <1>3. disk["original"] \in Seq(Byte) /\ disk["modified"] \in Seq(Byte)
    BY DEF TInv, Stored
  <1>4. Stored'
    BY <1>2, StoredKept DEF TInv, Applying
  <1>5. Loaded'
    <2>1. Header(disk["original"], disk["modified"]) \in Seq(Byte)
      BY <1>3, HeaderType
    <2>2. beat' \in PatchFile
      BY <1>2, <2>1, NoSumsType
    <2> QED BY <1>2, <1>3, <2>2 DEF TInv, Loaded
  <1>6. Placed'
    BY <1>2 DEF TInv, Placed
  <1>7. Tabled'
    <2>1. Len(target') \in Nat
      BY <1>2, <1>3
    <2> QED BY <1>2, <2>1 DEF Tabled, Bounded, Creating, Positions
  <1> QED BY <1>4, <1>5, <1>6, <1>7

\* The table is filled within its bounds.
LEMMA BuildTableType ==
  ASSUME TInv, FInv', BuildTable
  PROVE  Stored' /\ Loaded' /\ Placed' /\ Tabled'
  <1>1. /\ pc = "table" /\ pc' \in {"table", "create"} /\ UNCHANGED <<disk, forced>>
        /\ UNCHANGED <<source, target, beat, at, queued, result>>
        /\ UNCHANGED <<sourceRelativeOffset, targetRelativeOffset>>
    BY DEF BuildTable, memory, counters
  <1>2. target \in Seq(Byte) /\ Len(target) \in Nat
    BY DEF TInv, Loaded
  <1>3. Stored'
    BY <1>1, StoredKept DEF TInv, Applying
  <1>4. Loaded'
    BY <1>1 DEF TInv, Loaded, Creating
  <1>5. Placed'
    BY <1>1, <1>2 DEF TInv, Placed
  <1>6. CASE pc' = "table"
    <2>1. Entries'
      BY <1>6 DEF FInv, Filling, TableInv
    <2>3. Bounded'
      BY <1>4, <2>1, Filled, PTL
    <2>4. Tabled'
      BY <1>6, <2>3 DEF Tabled, Creating
    <2> QED BY <1>3, <1>4, <1>5, <2>4
  <1>7. CASE pc' = "create"
    <2>1. lengths' = [lengths EXCEPT ![0] = 0]
      BY <1>1, <1>7 DEF BuildTable, FinishTable
    <2>2. 0 \in Positions(target) /\ 0 \in -1 .. Len(target) - 0
      BY <1>2 DEF Positions
    <2>3. Tabled'
      BY <1>1, <1>7, <2>1, <2>2 DEF TInv, Tabled, Bounded, Creating
    <2> QED BY <1>3, <1>4, <1>5, <2>3
  <1> QED BY <1>1, <1>6, <1>7

\* What create() has reached.
LEMMA ReachedFacts ==
  ASSUME TInv, SuffixesOrdered, pc = "create", at < Len(target)
  PROVE  Reached /\ Chosen(Best(Find(source, target, at)))
  <1>1. source = disk["original"] /\ target = disk["modified"] /\ disk["patch"] = None
    BY DEF TInv, FInv, IInv, Files, Loaded, Creating
  <1>2. Reached
    <2>1. at \in Nat /\ target \in Seq(Byte) /\ source \in Seq(Byte)
      BY DEF TInv, Loaded, Placed
    <2>2. Len(source) < 2 * Limit /\ Len(target) < 2 * Limit
      BY <1>1 DEF TInv, Stored
    <2> QED BY <2>1, <2>2 DEF Reached
  <1>3. Ordered(source, sa.input) /\ LongestPrevious(target)
    BY DEF SuffixesOrdered, TInv, FInv, FactorsLongest
  <1>4. lengths[at] \in Int
    <2>1. at \in Positions(target)
      BY <1>2 DEF Reached, Positions
    <2> QED BY <2>1 DEF TInv, Tabled, Bounded, Creating
  <1> QED BY <1>2, <1>3, <1>4, BestFacts

\* A position is passed by, or a command written for it.
LEMMA CreateType ==
  ASSUME TInv, SuffixesOrdered, Create
  PROVE  Stored' /\ Loaded' /\ Placed' /\ Tabled'
  <1>1. /\ pc = "create" /\ pc' = "create" /\ at < Len(target) /\ UNCHANGED <<disk, forced>>
        /\ UNCHANGED <<source, target, result, lengths>>
    BY DEF Create, counters, lpf
  <1>2. PICK best : best = Best(Find(source, target, at))
    OBVIOUS
  <1>3. Reached /\ Chosen(best)
    BY <1>1, <1>2, ReachedFacts
  <1>4. IF best.mode = TargetRead THEN Queue ELSE Command(best)
    BY <1>2 DEF Create
  <1>5. /\ source \in Seq(Byte) /\ target \in Seq(Byte) /\ beat \in PatchFile /\ at \in Nat
        /\ queued \in 0 .. at /\ Len(source) \in Nat /\ Len(target) \in Nat
        /\ sourceRelativeOffset \in 0 .. Modulus - 1
             /\ targetRelativeOffset \in 0 .. Modulus - 1
    BY DEF TInv, Loaded, Placed
  <1>6. Stored'
    BY <1>1, StoredKept DEF TInv, Applying
  <1>7. Tabled'
    BY <1>1 DEF TInv, Tabled, Bounded, Creating
  <1>8. ASSUME beat' \in PatchFile
        PROVE  Loaded'
    BY <1>1, <1>8 DEF TInv, Loaded, Creating
  <1>9. CASE best.mode = TargetRead
    <2>1. queued' = queued + 1 /\ at' = at + 1
            /\ UNCHANGED <<beat, sourceRelativeOffset, targetRelativeOffset>>
      BY <1>4, <1>9 DEF Queue
    <2>2. Placed'
      BY <1>1, <1>5, <2>1 DEF Placed
    <2> QED BY <1>5, <1>6, <1>7, <1>8, <2>1, <2>2
  <1>10. CASE best.mode # TargetRead
    <2>1. Suits(best) /\ best.length > Threshold
      BY <1>3, <1>10 DEF Chosen, Match
    <2>2. /\ best.mode \in {SourceRead, SourceCopy, TargetCopy}
          /\ best.length \in Nat /\ best.offset \in Nat /\ at + best.length <= Len(target)
          /\ best.mode # TargetCopy => best.offset + best.length <= Len(source)
          /\ best.mode = TargetCopy => best.offset < at
      BY <2>1 DEF Suits
    <2>0. PICK relative : relative = IF best.mode = SourceCopy THEN sourceRelativeOffset
                                     ELSE targetRelativeOffset
      OBVIOUS
    <2>00. PICK command : command = encode[LengthCode(best.mode, best.length)]
                                    \o (IF best.mode = SourceRead THEN <<>>
                                        ELSE encode[OffsetCode(best.offset - relative)])
      OBVIOUS
    <2>3. /\ beat' = [beat EXCEPT !.body = @ \o Flushed \o command]
          /\ sourceRelativeOffset' = IF best.mode = SourceCopy THEN best.offset + best.length
                                     ELSE sourceRelativeOffset
          /\ targetRelativeOffset' = IF best.mode = TargetCopy THEN best.offset + best.length
                                     ELSE targetRelativeOffset
          /\ queued' = 0 /\ at' = at + best.length
      BY <1>4, <1>10, <2>0, <2>00 DEF Command
    <2>4. relative \in Int
      BY <1>5, <2>0
    <2>5. command \in Seq(Byte)
      <3>1. encode[LengthCode(best.mode, best.length)] \in Seq(Byte)
        <4>1. best.mode + 4 * (best.length - 1) \in Int
          BY <2>2 DEF SourceRead, SourceCopy, TargetCopy
        <4> QED BY <4>1, Encoded DEF LengthCode
      <3>2. encode[OffsetCode(best.offset - relative)] \in Seq(Byte)
        <4>1. PICK n : n = best.offset - relative
          OBVIOUS
        <4>2. n \in Int
          BY <2>2, <2>4, <4>1
        <4>3. PICK k : k = IF n < 0 THEN 2 * (-n) + 1 ELSE 2 * n
          OBVIOUS
        <4>4. k \in Int
          BY <4>2, <4>3
        <4>5. OffsetCode(n) = Unsigned(k)
          BY <4>3 DEF OffsetCode
        <4> QED BY <4>1, <4>4, <4>5, Encoded
      <3> QED BY <2>00, <3>1, <3>2
    <2>6. beat' \in PatchFile
      <3>1. Flushed \in Seq(Byte)
        <4>1. at \in 0 .. Len(target)
          BY <1>1, <1>5
        <4> QED BY <1>5, <4>1, FlushedType
      <3>2. beat.body \in Seq(Byte)
        BY <1>5 DEF PatchFile
      <3>3. PICK body : body = beat.body \o Flushed \o command
        OBVIOUS
      <3>4. body \in Seq(Byte)
        BY <2>5, <3>1, <3>2, <3>3
      <3>5. beat' = [beat EXCEPT !.body = body]
        BY <2>3, <3>3
      <3> QED BY <1>5, <3>4, <3>5, BodyType
    <2>7. Placed'
      <3>1. Len(source) < 2 * Limit /\ Len(target) < 2 * Limit /\ Modulus = 4 * Limit /\ Limit \in Nat
        BY <1>3, UnsignedFacts DEF Reached
      <3>2. sourceRelativeOffset' \in 0 .. Modulus - 1
        <4>1. CASE best.mode = SourceCopy
          <5>1. best.offset + best.length <= Len(source)
            BY <2>2, <4>1 DEF SourceCopy, TargetCopy
          <5>2. sourceRelativeOffset' = best.offset + best.length
            BY <2>3, <4>1
          <5> QED BY <1>5, <2>2, <3>1, <5>1, <5>2
        <4>2. CASE best.mode # SourceCopy
          BY <1>5, <2>3, <4>2
        <4> QED BY <4>1, <4>2
      <3>3. targetRelativeOffset' \in 0 .. Modulus - 1
        <4>1. CASE best.mode = TargetCopy
          <5>1. best.offset < at
            BY <2>2, <4>1
          <5>2. targetRelativeOffset' = best.offset + best.length
            BY <2>3, <4>1
          <5> QED BY <1>5, <2>2, <3>1, <5>1, <5>2
        <4>2. CASE best.mode # TargetCopy
          BY <1>5, <2>3, <4>2
        <4> QED BY <4>1, <4>2
      <3>4. at' \in Nat /\ at' <= Len(target) /\ queued' \in 0 .. at'
        BY <1>5, <2>2, <2>3
      <3> QED BY <1>1, <3>2, <3>3, <3>4 DEF Placed
    <2> QED BY <1>6, <1>7, <1>8, <2>6, <2>7
  <1> QED BY <1>9, <1>10

\* The patch is stored.
LEMMA FinishCreateType ==
  ASSUME TInv, FinishCreate
  PROVE  Stored' /\ Loaded' /\ Placed' /\ Tabled'
  <1>1. disk = [n \in Names |-> disk[n]]
    BY DEF TInv, FInv, IInv, Files
  <1>2. PICK body : body = beat.body \o Flushed
    OBVIOUS
  <1>3. /\ pc = "create" /\ pc' = "idle" /\ Idle /\ lengths' = <<>> /\ UNCHANGED forced
        /\ disk' = [disk EXCEPT !["patch"] = Patch(body, Sums(source, target, body))]
    BY <1>2 DEF FinishCreate, counters, DropTable
  <1>4. body \in Seq(Byte)
    <2>1. /\ source \in Seq(Byte) /\ target \in Seq(Byte) /\ beat.body \in Seq(Byte)
          /\ at \in 0 .. Len(target) /\ queued \in 0 .. at
      BY <1>3 DEF TInv, Loaded, Placed, PatchFile
    <2>2. Flushed \in Seq(Byte)
      BY <2>1, FlushedType
    <2> QED BY <1>2, <2>1, <2>2
  <1>5. Patch(body, Sums(source, target, body)) \in PatchFile
    BY <1>4, SumsType DEF TInv, Loaded
  <1>6. /\ disk'["patch"] = Patch(body, Sums(source, target, body))
        /\ disk'["original"] = disk["original"] /\ disk'["modified"] = disk["modified"]
        /\ disk'["written"] = disk["written"]
    BY <1>1, <1>3 DEF Names
  <1>7. Stored'
    <2>1. disk'["patch"] # None
      BY <1>5, <1>6, NoneAssumption
    <2> QED BY <1>3, <1>5, <1>6, <2>1 DEF TInv, Stored
  <1> QED BY <1>3, <1>7, BackIdle

-----------------------------------------------------------------------------
(* While a patch is replayed, and what becomes of the files. *)

\* A patch is loaded.
LEMMA StartApplyType ==
  ASSUME TInv, StartApply
  PROVE  Stored' /\ Loaded' /\ Placed' /\ Tabled'
  <1>1. disk = [n \in Names |-> disk[n]]
    BY DEF TInv, FInv, IInv, Files
  <1>2. /\ pc = "idle" /\ pc' = "header" /\ disk["patch"] # None /\ UNCHANGED <<disk, forced>>
        /\ source' = disk["original"] /\ beat' = disk["patch"]
        /\ UNCHANGED <<target, at, queued, result, lengths>>
        /\ UNCHANGED <<sourceRelativeOffset, targetRelativeOffset>>
    BY <1>1 DEF StartApply, lpf, Names
  <1>3. Stored'
    BY <1>2, StoredKept DEF TInv
  <1>4. Loaded'
    BY <1>2 DEF TInv, Stored, Loaded, Creating
  <1>5. Placed' /\ Tabled'
    BY <1>2 DEF TInv, Placed, Tabled, Creating
  <1> QED BY <1>3, <1>4, <1>5

\* Its sizes are read.
LEMMA ReadHeaderType ==
  ASSUME TInv, ReadHeader
  PROVE  Stored' /\ Loaded' /\ Placed' /\ Tabled'
  <1>1. /\ pc = "header" /\ pc' \in {"commands", "decide"} /\ UNCHANGED <<disk, forced>>
        /\ UNCHANGED <<source, target, beat, queued, lengths>>
        /\ UNCHANGED <<sourceRelativeOffset, targetRelativeOffset>>
        /\ result' \in {result, "error"}
    BY DEF ReadHeader, Error, counters, lpf
  <1>2. beat.body \in Seq(Byte) /\ at \in Nat /\ queued = 0
    BY <1>1 DEF TInv, Loaded, Placed, PatchFile
  <1>3. at' \in Nat
    <2>1. CASE UNCHANGED at
      BY <1>2, <2>1
    <2>2. CASE \E s \in Decode(beat.body, 1) :
                 \E t \in Decode(beat.body, s.next) : \E m \in Decode(beat.body, t.next) :
                   at' = m.next + m.value
      <3>1. PICK s, t, m :
                   /\ s \in Decode(beat.body, 1)
                   /\ t \in Decode(beat.body, s.next) /\ m \in Decode(beat.body, t.next)
                   /\ at' = m.next + m.value
        BY <2>2
      <3>2. s.next \in Nat
        BY <1>2, <3>1, DecodeType
      <3>3. t.next \in Nat
        BY <1>2, <3>1, <3>2, DecodeType
      <3>4. m.next \in Nat /\ m.value \in Nat
        BY <1>2, <3>1, <3>3, DecodeType
      <3> QED BY <3>1, <3>4
    <2> QED BY <2>1, <2>2 DEF ReadHeader, Error
  <1>4. Stored'
    BY <1>1, StoredKept DEF TInv, Applying
  <1>5. Loaded'
    BY <1>1 DEF TInv, Loaded, Creating
  <1>6. Placed'
    BY <1>1, <1>2, <1>3 DEF TInv, Placed
  <1>7. Tabled'
    BY <1>1 DEF TInv, Tabled, Creating
  <1> QED BY <1>4, <1>5, <1>6, <1>7

\* What a command leaves.
Read ==
  /\ target' \in Seq(Byte) /\ at' \in Nat
  /\ sourceRelativeOffset' \in 0 .. Modulus - 1 /\ targetRelativeOffset' \in 0 .. Modulus - 1

\* Whatever a command is, it appends bytes and leaves the offsets in their
\* range.
LEMMA CommandRead ==
  ASSUME TInv, ReadCommand
  PROVE  Read
  <1>1. PICK c \in Decode(beat.body, at), junk \in Junk :
         LET code == Unsigned(c.value)  mode == code % 4  length == code \div 4 + 1
             Does(p, next) == target' = target \o Run(mode, length, p, junk) /\ at' = next
         IN  \/ /\ mode = SourceRead /\ Does(0, c.next)
                /\ UNCHANGED <<sourceRelativeOffset, targetRelativeOffset>>
             \/ /\ mode = TargetRead /\ Does(c.next, c.next + length)
                /\ UNCHANGED <<sourceRelativeOffset, targetRelativeOffset>>
             \/ /\ mode = SourceCopy
                /\ \E o \in Decode(beat.body, c.next) :
                     LET p == Unsigned(sourceRelativeOffset + OffsetOf(o.value))
                     IN  Does(p, o.next) /\ sourceRelativeOffset' = Unsigned(p + length)
                /\ UNCHANGED targetRelativeOffset
             \/ /\ mode = TargetCopy
                /\ \E o \in Decode(beat.body, c.next) :
                     LET p == Unsigned(targetRelativeOffset + OffsetOf(o.value))
                     IN  Does(p, o.next) /\ targetRelativeOffset' = Unsigned(p + length)
                /\ UNCHANGED sourceRelativeOffset
    BY Zenon DEF ReadCommand
  <1>2. /\ source \in Seq(Byte) /\ target \in Seq(Byte) /\ beat.body \in Seq(Byte)
             /\ at \in Nat
        /\ sourceRelativeOffset \in 0 .. Modulus - 1
             /\ targetRelativeOffset \in 0 .. Modulus - 1
    BY DEF TInv, Loaded, Placed, PatchFile
  <1>3. c.value \in Nat /\ c.next \in Nat
    BY <1>2, DecodeType
  <1>4. PICK code, mode, length : code = Unsigned(c.value) /\ mode = code % 4
               /\ length = code \div 4 + 1
    OBVIOUS
  <1>5. length \in Nat
    <2>1. code \in Nat
      BY <1>3, <1>4, UnsignedFacts
    <2> QED BY <1>4, <2>1
  <1>6. ASSUME NEW p \in Nat, mode \in {SourceRead, TargetRead, SourceCopy, TargetCopy}
        PROVE  target \o Run(mode, length, p, junk) \in Seq(Byte)
    <2>1. Run(mode, length, p, junk) \in Seq(Byte)
      BY <1>2, <1>5, <1>6, RunType
    <2> QED BY <1>2, <2>1
  <1>7. ASSUME NEW base \in 0 .. Modulus - 1, NEW o \in Decode(beat.body, c.next)
        PROVE  /\ Unsigned(base + OffsetOf(o.value)) \in Nat /\ o.next \in Nat
               /\ Unsigned(Unsigned(base + OffsetOf(o.value)) + length) \in 0 .. Modulus - 1
    <2>1. o.value \in Nat /\ o.next \in Nat
      BY <1>2, <1>3, DecodeType
    <2>2. PICK n : n = Signed(o.value)
      OBVIOUS
    <2>3. n \in Int
      <3>1. PICK m : m = o.value % Modulus
        OBVIOUS
      <3>2. m \in Int
        BY <2>1, <3>1, UnsignedFacts
      <3> QED BY <2>2, <3>1, <3>2, UnsignedFacts DEF Signed
    <2>4. OffsetOf(o.value) \in Int
      <3>1. n \div 2 \in Int /\ -(n \div 2) \in Int
        BY <2>3
      <3> QED BY <2>2, <3>1 DEF OffsetOf
    <2>5. base + OffsetOf(o.value) \in Int
      BY <2>4, UnsignedFacts
    <2>6. PICK p : p = Unsigned(base + OffsetOf(o.value))
      OBVIOUS
    <2>7. p \in Nat
      BY <2>5, <2>6, UnsignedFacts
    <2>8. p + length \in Int
      BY <1>5, <2>7
    <2> QED BY <2>1, <2>6, <2>7, <2>8, UnsignedFacts
  <1>8. CASE mode = SourceRead
    <2>1. /\ target' = target \o Run(mode, length, 0, junk) /\ at' = c.next
          /\ UNCHANGED <<sourceRelativeOffset, targetRelativeOffset>>
      BY <1>1, <1>4, <1>8 DEF SourceRead, TargetRead, SourceCopy, TargetCopy
    <2> QED BY <1>2, <1>3, <1>6, <1>8, <2>1 DEF Read
  <1>9. CASE mode = TargetRead
    <2>1. /\ target' = target \o Run(mode, length, c.next, junk) /\ at' = c.next + length
          /\ UNCHANGED <<sourceRelativeOffset, targetRelativeOffset>>
      BY <1>1, <1>4, <1>9 DEF SourceRead, TargetRead, SourceCopy, TargetCopy
    <2>2. at' \in Nat
      BY <1>3, <1>5, <2>1
    <2> QED BY <1>2, <1>3, <1>6, <1>9, <2>1, <2>2 DEF Read
  <1>10. CASE mode = SourceCopy
    <2>1. PICK o \in Decode(beat.body, c.next) :
            LET p == Unsigned(sourceRelativeOffset + OffsetOf(o.value))
            IN  /\ target' = target \o Run(mode, length, p, junk) /\ at' = o.next
                /\ sourceRelativeOffset' = Unsigned(p + length)
                /\ UNCHANGED targetRelativeOffset
      BY <1>1, <1>4, <1>10 DEF SourceRead, TargetRead, SourceCopy, TargetCopy
    <2>2. PICK p : p = Unsigned(sourceRelativeOffset + OffsetOf(o.value))
      OBVIOUS
    <2>3. p \in Nat /\ o.next \in Nat /\ Unsigned(p + length) \in 0 .. Modulus - 1
      BY <1>2, <1>7, <2>2
    <2> QED BY <1>2, <1>6, <1>10, <2>1, <2>2, <2>3 DEF Read
  <1>11. CASE mode = TargetCopy
    <2>1. PICK o \in Decode(beat.body, c.next) :
            LET p == Unsigned(targetRelativeOffset + OffsetOf(o.value))
            IN  /\ target' = target \o Run(mode, length, p, junk) /\ at' = o.next
                /\ targetRelativeOffset' = Unsigned(p + length)
                /\ UNCHANGED sourceRelativeOffset
      BY <1>1, <1>4, <1>11 DEF SourceRead, TargetRead, SourceCopy, TargetCopy
    <2>2. PICK p : p = Unsigned(targetRelativeOffset + OffsetOf(o.value))
      OBVIOUS
    <2>3. p \in Nat /\ o.next \in Nat /\ Unsigned(p + length) \in 0 .. Modulus - 1
      BY <1>2, <1>7, <2>2
    <2> QED BY <1>2, <1>6, <1>11, <2>1, <2>2, <2>3 DEF Read
  <1> QED BY <1>1, <1>4, <1>8, <1>9, <1>10, <1>11

\* A command is replayed.
LEMMA ReadCommandType ==
  ASSUME TInv, ReadCommand
  PROVE  Stored' /\ Loaded' /\ Placed' /\ Tabled'
  <1>1. /\ pc = "commands" /\ pc' = pc /\ UNCHANGED <<disk, forced>>
        /\ UNCHANGED <<source, beat, queued, result, lengths>>
    BY DEF ReadCommand, counters, lpf
  <1>2. Read
    BY CommandRead
  <1>3. Stored'
    BY <1>1, StoredKept DEF TInv, Applying
  <1>4. Loaded'
    BY <1>1, <1>2 DEF TInv, Loaded, Creating, Read
  <1>5. Tabled'
    BY <1>1 DEF TInv, Tabled, Creating
  <1>6. Placed'
    BY <1>1, <1>2 DEF TInv, Placed, Read
  <1> QED BY <1>3, <1>4, <1>5, <1>6

\* The sums are compared, or the program ends.
LEMMA ChecksType ==
  ASSUME TInv, Check \/ Fault
  PROVE  Stored' /\ Loaded' /\ Placed' /\ Tabled'
  <1>1. CASE Check
    <2>1. /\ pc = "commands" /\ pc' = "decide" /\ UNCHANGED <<disk, forced>>
          /\ result' \in {"success", "warning"}
          /\ UNCHANGED <<source, target, beat, at, queued, lengths>>
          /\ UNCHANGED <<sourceRelativeOffset, targetRelativeOffset>>
      BY <1>1 DEF Check, counters, lpf
    <2>2. Stored'
      BY <2>1, StoredKept DEF TInv, Applying
    <2>3. Loaded'
      BY <2>1 DEF TInv, Loaded, Creating
    <2>4. Placed' /\ Tabled'
      BY <2>1 DEF TInv, Placed, Tabled, Creating
    <2> QED BY <2>2, <2>3, <2>4
  <1>2. CASE Fault
    <2>1. pc = "commands" /\ pc' = "idle" /\ Idle /\ UNCHANGED <<disk, forced, lengths>>
      BY <1>2 DEF Fault, counters, lpf
    <2>2. Stored'
      BY <2>1, StoredKept DEF TInv, Applying
    <2>3. lengths' = <<>>
      BY <2>1 DEF TInv, Tabled, Creating
    <2> QED BY <2>1, <2>2, <2>3, BackIdle
  <1> QED BY <1>1, <1>2

\* A file is written where bytes belong.
LEMMA BytesWritten ==
  ASSUME TInv, NEW file \in Destinations, NEW bytes \in Seq(Byte), Write(file, bytes),
         disk["patch"] # None, forced' \subseteq Destinations
  PROVE  Stored'
  <1>1. disk = [n \in Names |-> disk[n]]
    BY DEF TInv, FInv, IInv, Files
  <1>2. file \in {"written", "original"} /\ file \in Names
    BY DEF Destinations, Names
  <1>3. disk'[file] = bytes /\ \A n \in Names : n # file => disk'[n] = disk[n]
    BY <1>1, <1>2, Written DEF Write
  <1> QED BY <1>2, <1>3 DEF TInv, Stored, Names

\* The result is stored, thrown away or stored in part.
LEMMA OutcomesType ==
  ASSUME TInv, Decide \/ Crash
  PROVE  Stored' /\ Loaded' /\ Placed' /\ Tabled'
  <1>1. pc = "decide" /\ pc' = "idle" /\ Idle /\ UNCHANGED lengths
    BY DEF Decide, Crash, lpf
  <1>2. disk["patch"] # None /\ target \in Seq(Byte) /\ forced \subseteq Destinations
    BY <1>1 DEF TInv, Stored, Loaded, Applying
  <1>3. lengths' = <<>>
    BY <1>1 DEF TInv, Tabled, Creating
  <1>4. Stored'
    <2>1. CASE UNCHANGED <<disk, forced>>
      BY <1>2, <2>1, StoredKept DEF TInv
    <2>2. ASSUME NEW file \in Destinations, NEW bytes \in Seq(Byte), Write(file, bytes),
                 forced' \in {forced, forced \cup {file}}
          PROVE  Stored'
      <3>1. forced' \subseteq Destinations
        BY <1>2, <2>2
      <3> QED BY <1>2, <2>2, <3>1, BytesWritten
    <2>3. CASE Decide
      <3>1. \/ UNCHANGED <<disk, forced>>
            \/ \E file \in Destinations :
                 Write(file, target) /\ forced' \in {forced, forced \cup {file}}
        BY <2>3 DEF Decide
      <3> QED BY <1>2, <2>1, <2>2, <3>1
    <2>4. CASE Crash
      <3>1. PICK file \in Destinations, n \in 0 .. Len(target) - 1 :
              Write(file, SubSeq(target, 1, n)) /\ forced' = forced \cup {file}
        BY <2>4, Zenon DEF Crash
      <3>2. SubSeq(target, 1, n) \in Seq(Byte)
        BY <1>2
      <3> QED BY <2>2, <3>1, <3>2
    <2> QED BY <2>3, <2>4
  <1> QED BY <1>1, <1>3, <1>4, BackIdle

\* A patch is damaged or given to somebody else.
LEMMA AccidentsType ==
  ASSUME TInv, Damage \/ Exchange
  PROVE  Stored' /\ Loaded' /\ Placed' /\ Tabled'
  <1>1. disk = [n \in Names |-> disk[n]]
    BY DEF TInv, FInv, IInv, Files
  <1>2. /\ pc = "idle" /\ disk["patch"] # None
        /\ UNCHANGED <<pc, source, target, beat, at, sourceRelativeOffset, targetRelativeOffset,
                       queued, result, lengths>>
    BY <1>1 DEF Damage, Exchange, memory, lpf, Names
  <1>3. Loaded'
    BY <1>2 DEF TInv, Loaded, Creating
  <1>4. Placed' /\ Tabled'
    BY <1>2 DEF TInv, Placed, Tabled, Creating
  <1>5. CASE Damage
    <2>1. PICK patch \in Damaged(disk["patch"]) : Write("patch", patch) /\ UNCHANGED forced
      BY <1>1, <1>5 DEF Damage, Names
    <2>2. patch \in PatchFile
      BY <1>2, <2>1, DamagedType DEF TInv, Stored
    <2>3. disk'["patch"] = patch /\ \A n \in Names : n # "patch" => disk'[n] = disk[n]
      <3>1. "patch" \in Names
        BY DEF Names
      <3> QED BY <1>1, <2>1, <3>1, Written DEF Write
    <2>4. disk'["patch"] # None
      BY <2>2, <2>3, NoneAssumption
    <2>5. Stored'
      BY <2>1, <2>2, <2>3, <2>4 DEF TInv, Stored, Names
    <2> QED BY <1>3, <1>4, <2>5
  <1>6. CASE Exchange
    <2>1. PICK other \in Others : Write("original", other)
                 /\ forced' = forced \cup {"original"}
      BY <1>6, Zenon DEF Exchange
    <2>2. other \in Seq(Byte) /\ "original" \in Destinations /\ forced' \subseteq Destinations
      BY <2>1, OthersAssumption DEF TInv, Stored, Destinations
    <2>3. Stored'
      BY <1>2, <2>1, <2>2, BytesWritten
    <2> QED BY <1>3, <1>4, <2>3
  <1> QED BY <1>5, <1>6

\* Nothing is loaded at first.
LEMMA TypeBegins ==
  ASSUME Init
  PROVE  TInv
  <1>1. PICK pair \in Pairs : disk = [original |-> pair[1], modified |-> pair[2],
                            patch |-> None, written |-> None]
    BY DEF Init
  <1>2. /\ disk["original"] = pair[1] /\ disk["modified"] = pair[2]
        /\ disk["patch"] = None /\ disk["written"] = None
    BY <1>1
  <1>3. /\ pair[1] \in Seq(Byte) /\ Len(pair[1]) < 2 * Limit
        /\ pair[2] \in Seq(Byte) /\ Len(pair[2]) < 2 * Limit
    BY SizeAssumption
  <1>4. /\ pc = "idle" /\ forced = {} /\ lengths = <<>> /\ source = <<>> /\ target = <<>>
        /\ beat = NoPatch /\ at = 0 /\ queued = 0 /\ result = None
        /\ sourceRelativeOffset = 0 /\ targetRelativeOffset = 0
    BY DEF Init, NoTable
  <1>5. Stored
    BY <1>2, <1>3, <1>4 DEF Stored, Applying
  <1>6. Loaded
    <2>1. <<>> \in Seq(Byte)
      OBVIOUS
    <2>2. NoPatch \in PatchFile
      BY <2>1, NoSumsType DEF NoPatch
    <2> QED BY <1>4, <2>1, <2>2 DEF Loaded, Creating
  <1>7. Placed
    BY <1>4, UnsignedFacts DEF Placed
  <1>8. Tabled
    BY <1>4 DEF Tabled, Creating
  <1> QED BY <1>5, <1>6, <1>7, <1>8, FactorsBegin DEF TInv

\* Every step keeps the types.
LEMMA TypeStep ==
  ASSUME TInv, SuffixesOrdered, SuffixesOrdered', [Next]_vars
  PROVE  TInv'
  <1>1. FInv'
    BY FactorsStep DEF TInv
  <1>2. CASE UNCHANGED vars
    <2>1. UNCHANGED <<disk, forced, pc, source, target, beat, at, sourceRelativeOffset,
                      targetRelativeOffset, queued, result, lengths>>
      BY <1>2 DEF vars, memory, counters, lpf
    <2>2. Stored'
      BY <2>1, StoredKept DEF TInv, Applying
    <2>3. Loaded'
      BY <2>1 DEF TInv, Loaded, Creating
    <2>4. Placed'
      BY <2>1 DEF TInv, Placed
    <2>5. Tabled'
      BY <2>1 DEF TInv, Tabled, Bounded, Creating
    <2> QED BY <1>1, <2>2, <2>3, <2>4, <2>5 DEF TInv
  <1>3. CASE Next
    <2>1. Stored' /\ Loaded' /\ Placed' /\ Tabled'
      BY <1>1, <1>3, StartCreateType, BuildTableType, CreateType, FinishCreateType,
         StartApplyType,
         ReadHeaderType, ReadCommandType, ChecksType, OutcomesType, AccidentsType DEF Next,
           Works
    <2> QED BY <1>1, <2>1 DEF TInv
  <1> QED BY <1>2, <1>3

\* So they hold wherever the suffixes are in their order.
LEMMA TypesStay == Spec /\ []SuffixesOrdered => []TInv
  <1>1. Init => TInv
    BY TypeBegins
  <1>2. TInv /\ SuffixesOrdered /\ SuffixesOrdered' /\ [Next]_vars => TInv'
    BY TypeStep
  <1> QED BY <1>1, <1>2, PTL DEF Spec

\* Where the suffixes are in their order, files and patches are made of bytes, no
\* place in a file and no offset leaves its bounds, and no length in the table
\* leaves the file, so that none is taken for one of 2^32 - 1 bytes.
THEOREM TypeCorrect == Spec /\ []SuffixesOrdered => []TypeOK
  <1>1. TInv => TypeOK
    <2> SUFFICES ASSUME TInv
                 PROVE  TypeOK
      OBVIOUS
    <2>1. disk = [n \in Names |-> disk[n]]
      BY DEF TInv, FInv, IInv, Files
    <2>2. disk.written = disk["written"] /\ disk.patch = disk["patch"]
      BY <2>1 DEF Names
    <2>3. \A p \in DOMAIN lengths : lengths[p] \in -1 .. Len(target) - p
      BY DEF TInv, Tabled, Bounded
    <2> QED BY <2>2, <2>3 DEF TInv, Stored, Loaded, Placed, TypeOK
  <1> QED BY <1>1, TypesStay, PTL

\* Where the suffixes are in their order, the binary search finds a match as long
\* as any but for the last suffix of the order.
THEOREM MatchesCorrect == Spec /\ []SuffixesOrdered => []MatchesLongest
  <1>1. TInv /\ SuffixesOrdered => MatchesLongest
    <2> SUFFICES ASSUME TInv, SuffixesOrdered, pc = "create", at < Len(target)
                 PROVE  LongestMatch(source, target, at)
      BY DEF MatchesLongest
    <2>1. Reached
      BY ReachedFacts
    <2>2. Ordered(source, sa.input)
      BY DEF SuffixesOrdered
    <2> QED BY <2>1, <2>2, FindFacts DEF Reached
  <1> QED BY <1>1, TypesStay, PTL

-----------------------------------------------------------------------------
(* The places in a replay. *)

\* A place in a replay: bytes read of the patch and written, and the two offsets.
Stop(p, o, s, t) == [p |-> p, o |-> o, s |-> s, t |-> t]
Stops == [p : Nat, o : Nat, s : 0 .. Limit - 1, t : 0 .. Limit - 1]

\* n bytes of a from x are those of b from y.
Same(a, x, b, y, n) == \A i \in 1 .. n : a[x + i] = b[y + i]

\* The commands in the patch b from the file s to the file t: where the one at x
\* leads when it writes n bytes that are right.
SourceReadAt(b, s, t, x, y, n) ==
  /\ Reads(b, x.p, LengthCode(SourceRead, n), y.p) /\ y.s = x.s /\ y.t = x.t
  /\ x.o + n <= Len(s) /\ Same(t, x.o, s, x.o, n)

TargetReadAt(b, s, t, x, y, n) ==
  \E q \in Nat :
    /\ Reads(b, x.p, LengthCode(TargetRead, n), q) /\ y.s = x.s /\ y.t = x.t
    /\ y.p = q + n /\ y.p <= Len(b) /\ Same(t, x.o, b, q, n)

SourceCopyAt(b, s, t, x, y, n) ==
  \E q \in Nat, p \in Nat :
    /\ Reads(b, x.p, LengthCode(SourceCopy, n), q) /\ Reads(b, q, OffsetCode(p - x.s), y.p)
    /\ y.s = p + n /\ y.t = x.t
    /\ p + n <= Len(s) /\ Same(t, x.o, s, p, n)

TargetCopyAt(b, s, t, x, y, n) ==
  \E q \in Nat, p \in Nat :
    /\ Reads(b, x.p, LengthCode(TargetCopy, n), q) /\ Reads(b, q, OffsetCode(p - x.t), y.p)
    /\ y.s = x.s /\ y.t = p + n
    /\ p < x.o /\ Same(t, x.o, t, p, n)

Leads(b, s, t, x, y) ==
  \E n \in 1 .. Limit :
    /\ y.o = x.o + n /\ y.o <= Len(t)
    /\ \/ SourceReadAt(b, s, t, x, y, n)
       \/ TargetReadAt(b, s, t, x, y, n)
       \/ SourceCopyAt(b, s, t, x, y, n)
       \/ TargetCopyAt(b, s, t, x, y, n)

\* From each of the stops in P a command leads to another, but from the last.
Route(b, s, t, P, last) ==
  /\ P \subseteq Stops /\ last \in P
  /\ \A x \in P : x = last \/ (x.p < Len(b) /\ \E y \in P : Leads(b, s, t, x, y))

\* What was read once is read in a longer patch.
LEMMA ReadsLonger ==
  ASSUME NEW b \in Seq(Byte), NEW e \in Seq(Byte), NEW p \in Nat, NEW n \in Nat, NEW q,
         Reads(b, p, n, q)
  PROVE  Reads(b \o e, p, n, q)
  <1>1. encode[n] \in Seq(Byte) /\ Len(encode[n]) \in Nat /\ Len(b) \in Nat /\ Len(e) \in Nat
    <2>1. encode[n] \in Seq(Byte)
      BY EncodeFacts
    <2> QED BY <2>1
  <1>2. /\ q = p + Len(encode[n]) /\ q <= Len(b)
        /\ \A i \in 1 .. Len(encode[n]) : b[p + i] = encode[n][i]
    BY DEF Reads
  <1>3. /\ b \o e \in Seq(Byte) /\ Len(b \o e) = Len(b) + Len(e)
        /\ \A i \in 1 .. Len(b) : (b \o e)[i] = b[i]
    BY ConcatFacts
  <1>4. \A i \in 1 .. Len(encode[n]) : (b \o e)[p + i] = b[p + i]
    <2> SUFFICES ASSUME NEW i \in 1 .. Len(encode[n])
                 PROVE  (b \o e)[p + i] = b[p + i]
      OBVIOUS
    <2>1. p + i \in 1 .. Len(b)
      BY <1>1, <1>2
    <2> QED BY <1>3, <2>1
  <1>5. q <= Len(b \o e)
    BY <1>1, <1>2, <1>3
  <1> QED BY <1>2, <1>4, <1>5 DEF Reads

\* A number that was put behind a patch is read there, alone or with bytes behind
\* it or in front of it.
LEMMA ReadsThere ==
  ASSUME NEW b \in Seq(Byte), NEW n \in Nat
  PROVE  Reads(b \o encode[n], Len(b), n, Len(b \o encode[n]))
  <1>1. PICK e : e = encode[n]
    OBVIOUS
  <1>2. e \in Seq(Byte)
    BY <1>1, EncodeFacts
  <1>3. /\ b \o e \in Seq(Byte) /\ Len(b \o e) = Len(b) + Len(e)
        /\ \A i \in 1 .. Len(e) : (b \o e)[Len(b) + i] = e[i]
    BY <1>2, ConcatFacts
  <1>4. Len(b \o e) \in Nat /\ Len(b \o e) <= Len(b \o e)
    BY <1>3
  <1> QED BY <1>1, <1>3, <1>4 DEF Reads

\* A number that was appended is read where it begins.
LEMMA ReadsFirst ==
  ASSUME NEW b \in Seq(Byte), NEW n \in Nat, NEW e \in Seq(Byte)
  PROVE  Reads(b \o (encode[n] \o e), Len(b), n, Len(b) + Len(encode[n]))
  <1>1. PICK c, r : c = encode[n] /\ r = c \o e
    OBVIOUS
  <1>2. c \in Seq(Byte)
    BY <1>1, EncodeFacts
  <1>3. /\ r \in Seq(Byte) /\ Len(r) = Len(c) + Len(e) /\ Len(c) \in Nat /\ Len(e) \in Nat
        /\ \A i \in 1 .. Len(c) : r[i] = c[i]
    BY <1>1, <1>2, ConcatFacts
  <1>4. /\ Len(b \o r) = Len(b) + Len(r) /\ Len(b) \in Nat
        /\ \A i \in 1 .. Len(r) : (b \o r)[Len(b) + i] = r[i]
    <2>1. r \in Seq(Byte)
      BY <1>3
    <2>2. /\ b \o r \in Seq(Byte) /\ Len(b \o r) = Len(b) + Len(r)
          /\ \A i \in 1 .. Len(r) : (b \o r)[Len(b) + i] = r[i]
      BY <2>1, ConcatFacts
    <2> QED BY <2>2
  <1>5. \A i \in 1 .. Len(c) : (b \o r)[Len(b) + i] = c[i]
    BY <1>3, <1>4
  <1>6. Len(b) + Len(c) <= Len(b \o r)
    BY <1>3, <1>4
  <1> QED BY <1>1, <1>5, <1>6 DEF Reads

\* So is one that follows something else.
LEMMA ReadsSecond ==
  ASSUME NEW b \in Seq(Byte), NEW n \in Nat, NEW e \in Seq(Byte)
  PROVE  Reads(b \o (e \o encode[n]), Len(b) + Len(e), n, Len(b \o (e \o encode[n])))
  <1>1. PICK c, r : c = encode[n] /\ r = e \o c
    OBVIOUS
  <1>2. c \in Seq(Byte)
    BY <1>1, EncodeFacts
  <1>3. /\ r \in Seq(Byte) /\ Len(r) = Len(e) + Len(c) /\ Len(c) \in Nat /\ Len(e) \in Nat
        /\ \A i \in 1 .. Len(c) : r[Len(e) + i] = c[i]
    BY <1>1, <1>2, ConcatFacts
  <1>4. /\ Len(b \o r) = Len(b) + Len(r) /\ Len(b) \in Nat
        /\ \A i \in 1 .. Len(r) : (b \o r)[Len(b) + i] = r[i]
    <2>1. r \in Seq(Byte)
      BY <1>3
    <2>2. /\ b \o r \in Seq(Byte) /\ Len(b \o r) = Len(b) + Len(r)
          /\ \A i \in 1 .. Len(r) : (b \o r)[Len(b) + i] = r[i]
      BY <2>1, ConcatFacts
    <2> QED BY <2>2
  <1>5. \A i \in 1 .. Len(c) : (b \o r)[(Len(b) + Len(e)) + i] = c[i]
    <2> SUFFICES ASSUME NEW i \in 1 .. Len(c)
                 PROVE  (b \o r)[(Len(b) + Len(e)) + i] = c[i]
      OBVIOUS
    <2>1. Len(e) + i \in 1 .. Len(r) /\ (Len(b) + Len(e)) + i = Len(b) + (Len(e) + i)
      BY <1>3, <1>4
    <2>2. (b \o r)[Len(b) + (Len(e) + i)] = r[Len(e) + i]
      BY <1>4, <2>1
    <2> QED BY <1>3, <2>1, <2>2
  <1>6. Len(b \o r) = (Len(b) + Len(e)) + Len(c) /\ Len(b \o r) <= Len(b \o r)
    BY <1>3, <1>4
  <1> QED BY <1>1, <1>5, <1>6 DEF Reads

\* A command of a patch is one of a longer patch.
LEMMA LeadsLonger ==
  ASSUME NEW b \in Seq(Byte), NEW e \in Seq(Byte), NEW s, NEW t, NEW x \in Stops, NEW y,
         Leads(b, s, t, x, y)
  PROVE  Leads(b \o e, s, t, x, y)
  <1>1. PICK n \in 1 .. Limit :
          /\ y.o = x.o + n /\ y.o <= Len(t)
          /\ \/ SourceReadAt(b, s, t, x, y, n) \/ TargetReadAt(b, s, t, x, y, n)
             \/ SourceCopyAt(b, s, t, x, y, n) \/ TargetCopyAt(b, s, t, x, y, n)
    BY DEF Leads
  <1>2. x.p \in Nat /\ x.s \in Int /\ x.t \in Int
    BY DEF Stops
  <1>3. \A mode \in 0 .. 3 : LengthCode(mode, n) \in Nat
    <2> SUFFICES ASSUME NEW mode \in 0 .. 3
                 PROVE  LengthCode(mode, n) \in Nat
      OBVIOUS
    <2>1. mode + 4 * (n - 1) \in Int
      OBVIOUS
    <2> QED BY <2>1, UnsignedFacts DEF LengthCode
  <1>4. \A k \in Int : OffsetCode(k) \in Nat
    <2> SUFFICES ASSUME NEW k \in Int
                 PROVE  OffsetCode(k) \in Nat
      OBVIOUS
    <2>1. 2 * (-k) + 1 \in Int /\ 2 * k \in Int
      OBVIOUS
    <2> QED BY <2>1, UnsignedFacts DEF OffsetCode
  <1>5. ASSUME NEW p \in Nat, NEW k \in Nat, NEW q, Reads(b, p, k, q)
        PROVE  Reads(b \o e, p, k, q)
    BY <1>5, ReadsLonger
  <1>6. CASE SourceReadAt(b, s, t, x, y, n)
    <2>1. LengthCode(SourceRead, n) \in Nat
      BY <1>3 DEF SourceRead
    <2>2. SourceReadAt(b \o e, s, t, x, y, n)
      BY <1>2, <1>5, <1>6, <2>1 DEF SourceReadAt
    <2> QED BY <1>1, <2>2 DEF Leads
  <1>7. CASE TargetReadAt(b, s, t, x, y, n)
    <2>1. LengthCode(TargetRead, n) \in Nat
      BY <1>3 DEF TargetRead
    <2>2. PICK q \in Nat :
            /\ Reads(b, x.p, LengthCode(TargetRead, n), q) /\ y.s = x.s /\ y.t = x.t
            /\ y.p = q + n /\ y.p <= Len(b) /\ Same(t, x.o, b, q, n)
      BY <1>7 DEF TargetReadAt
    <2>3. Reads(b \o e, x.p, LengthCode(TargetRead, n), q)
      BY <1>2, <1>5, <2>1, <2>2
    <2>4. /\ Len(b \o e) = Len(b) + Len(e) /\ Len(b) \in Nat /\ Len(e) \in Nat
          /\ \A i \in 1 .. Len(b) : (b \o e)[i] = b[i]
      BY ConcatFacts
    <2>5. y.p <= Len(b \o e)
      BY <2>2, <2>4
    <2>6. Same(t, x.o, b \o e, q, n)
      <3> SUFFICES ASSUME NEW i \in 1 .. n
                   PROVE  t[x.o + i] = (b \o e)[q + i]
        BY DEF Same
      <3>1. q + i \in 1 .. Len(b)
        BY <2>2, <2>4
      <3> QED BY <2>2, <2>4, <3>1 DEF Same
    <2>7. TargetReadAt(b \o e, s, t, x, y, n)
      BY <2>2, <2>3, <2>5, <2>6 DEF TargetReadAt
    <2> QED BY <1>1, <2>7 DEF Leads
  <1>8. CASE SourceCopyAt(b, s, t, x, y, n)
    <2>1. LengthCode(SourceCopy, n) \in Nat
      BY <1>3 DEF SourceCopy
    <2>2. PICK q \in Nat, p \in Nat :
            /\ Reads(b, x.p, LengthCode(SourceCopy, n), q)
                 /\ Reads(b, q, OffsetCode(p - x.s), y.p)
            /\ y.s = p + n /\ y.t = x.t
            /\ p + n <= Len(s) /\ Same(t, x.o, s, p, n)
      BY <1>8 DEF SourceCopyAt
    <2>3. OffsetCode(p - x.s) \in Nat
      <3>1. p - x.s \in Int
        BY <1>2
      <3> QED BY <1>4, <3>1
    <2>4. Reads(b \o e, x.p, LengthCode(SourceCopy, n), q)
      BY <1>2, <1>5, <2>1, <2>2
    <2>5. Reads(b \o e, q, OffsetCode(p - x.s), y.p)
      BY <1>5, <2>2, <2>3
    <2>6. SourceCopyAt(b \o e, s, t, x, y, n)
      BY <2>2, <2>4, <2>5 DEF SourceCopyAt
    <2> QED BY <1>1, <2>6 DEF Leads
  <1>9. CASE TargetCopyAt(b, s, t, x, y, n)
    <2>1. LengthCode(TargetCopy, n) \in Nat
      BY <1>3 DEF TargetCopy
    <2>2. PICK q \in Nat, p \in Nat :
            /\ Reads(b, x.p, LengthCode(TargetCopy, n), q)
                 /\ Reads(b, q, OffsetCode(p - x.t), y.p)
            /\ y.s = x.s /\ y.t = p + n
            /\ p < x.o /\ Same(t, x.o, t, p, n)
      BY <1>9 DEF TargetCopyAt
    <2>3. OffsetCode(p - x.t) \in Nat
      <3>1. p - x.t \in Int
        BY <1>2
      <3> QED BY <1>4, <3>1
    <2>4. Reads(b \o e, x.p, LengthCode(TargetCopy, n), q)
      BY <1>2, <1>5, <2>1, <2>2
    <2>5. Reads(b \o e, q, OffsetCode(p - x.t), y.p)
      BY <1>5, <2>2, <2>3
    <2>6. TargetCopyAt(b \o e, s, t, x, y, n)
      BY <2>2, <2>4, <2>5 DEF TargetCopyAt
    <2> QED BY <1>1, <2>6 DEF Leads
  <1> QED BY <1>1, <1>6, <1>7, <1>8, <1>9

\* A command behind a patch makes the route longer by a stop.
LEMMA RouteLonger ==
  ASSUME NEW b \in Seq(Byte), NEW e \in Seq(Byte), NEW s, NEW t, NEW P, NEW last,
         Route(b, s, t, P, last), last.p < Len(b \o e),
         NEW next \in Stops, Leads(b \o e, s, t, last, next)
  PROVE  Route(b \o e, s, t, P \cup {next}, next)
  <1>1. /\ P \subseteq Stops /\ last \in P
        /\ \A x \in P : x = last \/ (x.p < Len(b) /\ \E y \in P : Leads(b, s, t, x, y))
    BY DEF Route
  <1>2. Len(b \o e) = Len(b) + Len(e) /\ Len(b) \in Nat /\ Len(e) \in Nat
    BY ConcatFacts
  <1>3. ASSUME NEW x \in P
        PROVE  x.p < Len(b \o e) /\ \E y \in P \cup {next} : Leads(b \o e, s, t, x, y)
    <2>1. CASE x = last
      BY <2>1
    <2>2. CASE x # last
      <3>1. x.p < Len(b)
        BY <1>1, <2>2
      <3>2. PICK y \in P : Leads(b, s, t, x, y)
        BY <1>1, <2>2
      <3>3. x \in Stops /\ x.p \in Nat
        BY <1>1 DEF Stops
      <3>4. Leads(b \o e, s, t, x, y)
        BY <3>2, <3>3, LeadsLonger
      <3>5. x.p < Len(b \o e)
        BY <1>2, <3>1, <3>3
      <3> QED BY <3>4, <3>5
    <2> QED BY <2>1, <2>2
  <1> QED BY <1>1, <1>3 DEF Route

\* The codes of lengths and distances that do not overflow.
LEMMA LengthFacts ==
  ASSUME NEW mode \in 0 .. 3, NEW n \in 1 .. Limit
  PROVE  LET code == LengthCode(mode, n)
         IN  /\ code \in Nat /\ Unsigned(code) = code
             /\ code % 4 = mode /\ code \div 4 + 1 = n
  <1>1. PICK code : code = mode + 4 * (n - 1)
    OBVIOUS
  <1>2. code \in Nat /\ code < Modulus
    BY <1>1, UnsignedFacts
  <1>3. LengthCode(mode, n) = code /\ Unsigned(code) = code
    BY <1>1, <1>2, UnsignedFacts DEF LengthCode
  <1>4. code % 4 = mode /\ code \div 4 + 1 = n
    BY <1>1
  <1> QED BY <1>2, <1>3, <1>4

\* An offset is got back from its code, whatever its sign.
LEMMA OffsetFacts ==
  ASSUME NEW k \in Int, -Limit < k, k < Limit
  PROVE  OffsetCode(k) \in Nat /\ OffsetOf(OffsetCode(k)) = k
  <1>1. PICK code : code = IF k < 0 THEN 2 * (-k) + 1 ELSE 2 * k
    OBVIOUS
  <1>2. code \in Nat /\ code < 2 * Limit /\ code < Modulus
    BY <1>1, UnsignedFacts
  <1>3. OffsetCode(k) = code
    BY <1>1, <1>2, UnsignedFacts DEF OffsetCode
  <1>4. Signed(code) = code
    <2>1. code % Modulus = code
      BY <1>2, UnsignedFacts DEF Unsigned
    <2>2. ~(code >= 2 * Limit)
      BY <1>2, UnsignedFacts
    <2> QED BY <2>1, <2>2 DEF Signed
  <1>5. OffsetOf(code) = IF code % 2 = 1 THEN -(code \div 2) ELSE code \div 2
    BY <1>4 DEF OffsetOf
  <1>6. CASE k < 0
    <2>1. code % 2 = 1 /\ code \div 2 = -k
      BY <1>1, <1>6
    <2> QED BY <1>2, <1>3, <1>5, <2>1
  <1>7. CASE k >= 0
    <2>1. code % 2 = 0 /\ code \div 2 = k
      BY <1>1, <1>7
    <2> QED BY <1>2, <1>3, <1>5, <2>1
  <1> QED BY <1>6, <1>7

-----------------------------------------------------------------------------
(* The patch as it grows. *)

\* The header of a patch from s to t.
Headed(b, s, t) ==
  /\ Len(b) >= 1 /\ b[1] = Mark
  /\ \E q \in Nat, r \in Nat :
       Reads(b, 1, Len(s), q) /\ Reads(b, q, Len(t), r) /\ Reads(b, r, 0, Len(Header(s, t)))

\* The route through a patch that was written up to the last stop.
Begin(s, t) == Stop(Len(Header(s, t)), 0, 0, 0)
Growing(b, s, t, last) ==
  Headed(b, s, t) /\ \E P : Begin(s, t) \in P /\ Route(b, s, t, P, last)

\* A header is read back as the sizes it was made from.
LEMMA HeaderHeaded ==
  ASSUME NEW s \in Seq(Byte), NEW t \in Seq(Byte)
  PROVE  Headed(Header(s, t), s, t)
  <1>1. Len(s) \in Nat /\ Len(t) \in Nat /\ 0 \in Nat
    OBVIOUS
  <1>2. PICK m, a, c, d : /\ m = <<Mark>> /\ a = m \o encode[Len(s)]
                          /\ c = a \o encode[Len(t)] /\ d = c \o encode[0]
    OBVIOUS
  <1>3. d = Header(s, t)
    BY <1>2 DEF Header
  <1>4. PICK e, f, g : e = encode[Len(s)] /\ f = encode[Len(t)] /\ g = encode[0]
    OBVIOUS
  <1>5. e \in Seq(Byte) /\ f \in Seq(Byte) /\ g \in Seq(Byte)
    BY <1>1, <1>4, EncodeFacts
  <1>6. m \in Seq(Byte) /\ Len(m) = 1 /\ m[1] = Mark
    <2>1. Mark \in Byte
      BY LimitAssumption DEF Mark, Byte
    <2> QED BY <1>2, <2>1
  <1>7. /\ a \in Seq(Byte) /\ Len(a) = 1 + Len(e) /\ Len(e) \in Nat
        /\ \A i \in 1 .. Len(m) : a[i] = m[i]
    <2>1. m \in Seq(Byte) /\ e \in Seq(Byte)
      BY <1>5, <1>6
    <2>2. /\ m \o e \in Seq(Byte) /\ Len(m \o e) = Len(m) + Len(e)
          /\ \A i \in 1 .. Len(m) : (m \o e)[i] = m[i]
      BY <2>1, ConcatFacts
    <2>3. a = m \o e
      BY <1>2, <1>4
    <2> QED BY <1>6, <2>1, <2>2, <2>3
  <1>8. /\ c \in Seq(Byte) /\ Len(c) \in Nat /\ Len(c) >= Len(a) /\ Len(a) \in Nat
        /\ \A i \in 1 .. Len(a) : c[i] = a[i]
    <2>1. a \in Seq(Byte) /\ f \in Seq(Byte)
      BY <1>5, <1>7
    <2>2. /\ a \o f \in Seq(Byte) /\ Len(a \o f) = Len(a) + Len(f)
          /\ \A i \in 1 .. Len(a) : (a \o f)[i] = a[i]
      BY <2>1, ConcatFacts
    <2>3. c = a \o f
      BY <1>2, <1>4
    <2>4. Len(a) \in Nat /\ Len(f) \in Nat
      BY <2>1
    <2> QED BY <2>2, <2>3, <2>4
  <1>9. /\ d \in Seq(Byte) /\ Len(d) \in Nat /\ Len(d) >= Len(c)
        /\ \A i \in 1 .. Len(c) : d[i] = c[i]
    <2>1. c \in Seq(Byte) /\ g \in Seq(Byte)
      BY <1>5, <1>8
    <2>2. /\ c \o g \in Seq(Byte) /\ Len(c \o g) = Len(c) + Len(g)
          /\ \A i \in 1 .. Len(c) : (c \o g)[i] = c[i]
      BY <2>1, ConcatFacts
    <2>3. d = c \o g
      BY <1>2, <1>4
    <2>4. Len(c) \in Nat /\ Len(g) \in Nat
      BY <2>1
    <2> QED BY <2>2, <2>3, <2>4
  <1>10. Reads(d, 1, Len(s), Len(a))
    <2>1. Reads(a, 1, Len(s), Len(a))
      <3>1. Reads(m \o encode[Len(s)], Len(m), Len(s), Len(m \o encode[Len(s)]))
        BY <1>1, <1>6, ReadsThere
      <3> QED BY <1>2, <1>6, <3>1
    <2>2. Reads(a \o f, 1, Len(s), Len(a))
      BY <1>1, <1>5, <1>7, <2>1, ReadsLonger
    <2>3. Reads(c, 1, Len(s), Len(a))
      BY <1>2, <1>4, <2>2
    <2>4. Reads(c \o g, 1, Len(s), Len(a))
      BY <1>1, <1>5, <1>8, <2>3, ReadsLonger
    <2> QED BY <1>2, <1>4, <2>4
  <1>11. Reads(d, Len(a), Len(t), Len(c))
    <2>1. Reads(c, Len(a), Len(t), Len(c))
      <3>1. Reads(a \o encode[Len(t)], Len(a), Len(t), Len(a \o encode[Len(t)]))
        BY <1>1, <1>7, ReadsThere
      <3> QED BY <1>2, <3>1
    <2>2. Reads(c \o g, Len(a), Len(t), Len(c))
      BY <1>1, <1>5, <1>8, <2>1, ReadsLonger
    <2> QED BY <1>2, <1>4, <2>2
  <1>12. Reads(d, Len(c), 0, Len(d))
    <2>1. Reads(c \o encode[0], Len(c), 0, Len(c \o encode[0]))
      BY <1>1, <1>8, ReadsThere
    <2> QED BY <1>2, <2>1
  <1>13. Len(d) >= 1 /\ d[1] = Mark
    <2>1. 1 \in 1 .. Len(m) /\ 1 \in 1 .. Len(a) /\ 1 \in 1 .. Len(c)
      BY <1>6, <1>7, <1>8
    <2> QED BY <1>6, <1>7, <1>8, <1>9, <2>1
  <1>14. Reads(d, 1, Len(s), Len(a)) /\ Reads(d, Len(a), Len(t), Len(c))
           /\ Reads(d, Len(c), 0, Len(Header(s, t)))
    BY <1>3, <1>10, <1>11, <1>12
  <1>15. \E q \in Nat, r \in Nat :
            Reads(d, 1, Len(s), q) /\ Reads(d, q, Len(t), r)
              /\ Reads(d, r, 0, Len(Header(s, t)))
    BY <1>8, <1>14
  <1> QED BY <1>3, <1>13, <1>15 DEF Headed

\* It still is when the patch has grown.
LEMMA HeadedLonger ==
  ASSUME NEW b \in Seq(Byte), NEW e \in Seq(Byte), NEW s \in Seq(Byte), NEW t \in Seq(Byte),
         Headed(b, s, t)
  PROVE  Headed(b \o e, s, t)
  <1>1. PICK q \in Nat, r \in Nat :
          Reads(b, 1, Len(s), q) /\ Reads(b, q, Len(t), r)
            /\ Reads(b, r, 0, Len(Header(s, t)))
    BY DEF Headed
  <1>2. Len(s) \in Nat /\ Len(t) \in Nat /\ 0 \in Nat /\ 1 \in Nat
    OBVIOUS
  <1>3. Reads(b \o e, 1, Len(s), q)
    BY <1>1, <1>2, ReadsLonger
  <1>4. Reads(b \o e, q, Len(t), r)
    BY <1>1, <1>2, ReadsLonger
  <1>5. Reads(b \o e, r, 0, Len(Header(s, t)))
    BY <1>1, <1>2, ReadsLonger
  <1>6. Len(b \o e) >= 1 /\ (b \o e)[1] = Mark
    <2>1. Len(b) >= 1 /\ b[1] = Mark /\ Len(b) \in Nat /\ Len(e) \in Nat
      BY DEF Headed
    <2>2. /\ Len(b \o e) = Len(b) + Len(e)
          /\ \A i \in 1 .. Len(b) : (b \o e)[i] = b[i]
      BY ConcatFacts
    <2> QED BY <2>1, <2>2
  <1> QED BY <1>3, <1>4, <1>5, <1>6 DEF Headed

\* A patch of a header alone leads to its beginning.
LEMMA GrowingBegins ==
  ASSUME NEW s \in Seq(Byte), NEW t \in Seq(Byte)
  PROVE  Growing(Header(s, t), s, t, Begin(s, t))
  <1>1. Begin(s, t) \in Stops
    <2>1. Header(s, t) \in Seq(Byte)
      BY HeaderType
    <2>2. Len(Header(s, t)) \in Nat /\ 0 \in Nat /\ 0 \in 0 .. Limit - 1
      BY <2>1, UnsignedFacts
    <2> QED BY <2>2 DEF Begin, Stop, Stops
  <1>2. Route(Header(s, t), s, t, {Begin(s, t)}, Begin(s, t))
    BY <1>1 DEF Route
  <1>3. Begin(s, t) \in {Begin(s, t)}
    OBVIOUS
  <1>4. \E P : Begin(s, t) \in P /\ Route(Header(s, t), s, t, P, Begin(s, t))
    BY <1>2, <1>3
  <1> QED BY <1>4, HeaderHeaded DEF Growing

\* One more command leads one place further.
LEMMA GrowingLonger ==
  ASSUME NEW b \in Seq(Byte), NEW e \in Seq(Byte), NEW s \in Seq(Byte), NEW t \in Seq(Byte),
         NEW last, Growing(b, s, t, last), last.p < Len(b \o e),
         NEW next \in Stops, Leads(b \o e, s, t, last, next)
  PROVE  Growing(b \o e, s, t, next)
  <1>1. PICK P : Begin(s, t) \in P /\ Route(b, s, t, P, last)
    BY DEF Growing
  <1>2. Route(b \o e, s, t, P \cup {next}, next)
    BY <1>1, RouteLonger
  <1>3. PICK Q : Q = P \cup {next}
    OBVIOUS
  <1>4. Begin(s, t) \in Q /\ Route(b \o e, s, t, Q, next)
    BY <1>1, <1>2, <1>3
  <1>5. \E R : Begin(s, t) \in R /\ Route(b \o e, s, t, R, next)
    BY <1>4
  <1>6. Headed(b \o e, s, t)
    BY HeadedLonger DEF Growing
  <1> QED BY <1>5, <1>6 DEF Growing

\* The stops of a route are stops.
LEMMA LastStop ==
  ASSUME NEW b, NEW s, NEW t, NEW last, Growing(b, s, t, last)
  PROVE  last \in Stops
  BY DEF Growing, Route

\* What create() holds while it is at a position, in files small enough.
Sources ==
  /\ source \in Seq(Byte) /\ target \in Seq(Byte) /\ beat.body \in Seq(Byte)
  /\ Len(source) < Limit /\ Len(target) <= Limit
  /\ at \in 0 .. Len(target) /\ queued \in 0 .. at

Here == Stop(Len(beat.body), at - queued, sourceRelativeOffset, targetRelativeOffset)
Flush == Stop(Len(beat.body \o Flushed), at, sourceRelativeOffset, targetRelativeOffset)

\* What is queued becomes a command.
LEMMA FlushGrows ==
  ASSUME Sources, Growing(beat.body, source, target, Here)
  PROVE  Growing(beat.body \o Flushed, source, target, Flush)
  <1>1. PICK b, s, t : b = beat.body /\ s = source /\ t = target
    OBVIOUS
  <1>2. PICK p, n, so, to : p = at /\ n = queued /\ so = sourceRelativeOffset
               /\ to = targetRelativeOffset
    OBVIOUS
  <1>3. /\ b \in Seq(Byte) /\ s \in Seq(Byte) /\ t \in Seq(Byte)
        /\ Len(t) \in Nat
             /\ Len(t) <= Limit /\ p \in 0 .. Len(t) /\ n \in 0 .. p /\ Len(b) \in Nat
    BY <1>1, <1>2 DEF Sources
  <1>4. Growing(b, s, t, Stop(Len(b), p - n, so, to))
    BY <1>1, <1>2 DEF Here
  <1>5. so \in 0 .. Limit - 1 /\ to \in 0 .. Limit - 1
    <2>1. Stop(Len(b), p - n, so, to) \in Stops
      BY <1>4, LastStop
    <2> QED BY <2>1 DEF Stop, Stops
  <1>6. CASE n = 0
    <2>1. beat.body \o Flushed = b
      BY <1>1, <1>2, <1>3, <1>6 DEF Flushed
    <2>2. p - n = p
      BY <1>3, <1>6
    <2> QED BY <1>1, <1>2, <1>4, <2>1, <2>2 DEF Flush
  <1>7. CASE n # 0
    <2>1. PICK c, d : c = encode[LengthCode(TargetRead, n)] /\ d = SubSeq(t, p - n + 1, p)
      OBVIOUS
    <2>2. PICK e : e = c \o d
      OBVIOUS
    <2>3. Flushed = e
      BY <1>1, <1>2, <1>7, <2>1, <2>2 DEF Flushed
    <2>4. LengthCode(TargetRead, n) \in Nat
      <3>1. TargetRead + 4 * (n - 1) \in Int
        BY <1>3 DEF TargetRead
      <3> QED BY <3>1, UnsignedFacts DEF LengthCode
    <2>5. c \in Seq(Byte)
      BY <2>1, <2>4, EncodeFacts
    <2>6. /\ d \in Seq(Byte) /\ Len(d) = n /\ \A i \in 1 .. n : d[i] = t[(p - n) + i]
      <3>1. p - n + 1 \in 1 .. Len(t) /\ p <= Len(t) /\ p - (p - n + 1) + 1 = n
        BY <1>3, <1>7
      <3>2. d \in Seq(Byte) /\ Len(d) = n
        BY <1>3, <2>1, <3>1
      <3>3. ASSUME NEW i \in 1 .. n
            PROVE  d[i] = t[(p - n) + i]
        <4>1. d[i] = t[(p - n + 1) + i - 1]
          BY <1>3, <2>1, <3>1
        <4>2. (p - n + 1) + i - 1 = (p - n) + i
          BY <1>3
        <4> QED BY <4>1, <4>2
      <3> QED BY <3>2, <3>3
    <2>7. /\ e \in Seq(Byte) /\ Len(e) = Len(c) + n /\ Len(c) \in Nat
          /\ \A i \in 1 .. n : e[Len(c) + i] = d[i]
      <3>1. c \in Seq(Byte) /\ d \in Seq(Byte)
        BY <2>5, <2>6
      <3>2. /\ c \o d \in Seq(Byte) /\ Len(c \o d) = Len(c) + Len(d)
            /\ \A i \in 1 .. Len(d) : (c \o d)[Len(c) + i] = d[i]
        BY <3>1, ConcatFacts
      <3>3. Len(c) \in Nat
        BY <3>1
      <3> QED BY <2>2, <2>6, <3>2, <3>3
    <2>8. /\ Len(b \o e) = Len(b) + Len(e) /\ Len(b \o e) \in Nat
          /\ \A i \in 1 .. Len(e) : (b \o e)[Len(b) + i] = e[i]
      <3>1. b \in Seq(Byte) /\ e \in Seq(Byte)
        BY <1>3, <2>7
      <3>2. /\ b \o e \in Seq(Byte) /\ Len(b \o e) = Len(b) + Len(e)
            /\ \A i \in 1 .. Len(e) : (b \o e)[Len(b) + i] = e[i]
        BY <3>1, ConcatFacts
      <3> QED BY <3>2
    <2>9. PICK x, y : x = Stop(Len(b), p - n, so, to) /\ y = Stop(Len(b \o e), p, so, to)
      OBVIOUS
    <2>10. /\ x.p = Len(b) /\ x.o = p - n /\ x.s = so /\ x.t = to
           /\ y.p = Len(b \o e) /\ y.o = p /\ y.s = so /\ y.t = to
      BY <2>9 DEF Stop
    <2>11. y \in Stops
      BY <1>3, <1>5, <2>8, <2>9 DEF Stop, Stops
    <2>12. Leads(b \o e, s, t, x, y)
      <3>1. PICK q : q = Len(b) + Len(c)
        OBVIOUS
      <3>2. q \in Nat
        BY <1>3, <2>7, <3>1
      <3>3. Reads(b \o e, x.p, LengthCode(TargetRead, n), q)
        <4>1. Reads(b \o (encode[LengthCode(TargetRead, n)] \o d), Len(b), LengthCode(TargetRead, n),
                    Len(b) + Len(encode[LengthCode(TargetRead, n)]))
          BY <1>3, <2>4, <2>6, ReadsFirst
        <4> QED BY <2>1, <2>2, <2>10, <3>1, <4>1
      <3>4. y.p = q + n /\ y.p <= Len(b \o e)
        BY <1>3, <2>7, <2>8, <2>10, <3>1
      <3>5. Same(t, x.o, b \o e, q, n)
        <4> SUFFICES ASSUME NEW i \in 1 .. n
                     PROVE  t[x.o + i] = (b \o e)[q + i]
          BY DEF Same
        <4>1. Len(c) + i \in 1 .. Len(e) /\ q + i = Len(b) + (Len(c) + i)
          BY <1>3, <2>7, <3>1
        <4>2. (b \o e)[Len(b) + (Len(c) + i)] = e[Len(c) + i]
          BY <2>8, <4>1
        <4> QED BY <2>6, <2>7, <2>10, <4>1, <4>2
      <3>6. TargetReadAt(b \o e, s, t, x, y, n)
        BY <2>10, <3>2, <3>3, <3>4, <3>5 DEF TargetReadAt
      <3>7. n \in 1 .. Limit /\ y.o = x.o + n /\ y.o <= Len(t)
        BY <1>3, <1>7, <2>10, UnsignedFacts
      <3> QED BY <3>6, <3>7 DEF Leads
    <2>13. x.p < Len(b \o e)
      BY <1>3, <1>7, <2>7, <2>8, <2>10
    <2>14. Growing(b \o e, s, t, y)
      <3>1. Growing(b, s, t, x)
        BY <1>4, <2>9
      <3> QED BY <1>3, <2>7, <2>11, <2>12, <2>13, <3>1, GrowingLonger
    <2> QED BY <1>1, <1>2, <2>3, <2>9, <2>14 DEF Flush
  <1> QED BY <1>6, <1>7

-----------------------------------------------------------------------------
(* The commands that are written. *)

\* A patch that was written up to p, and n bytes from there on that are known.
Ready(b, s, t, p, n, so, to) ==
  /\ b \in Seq(Byte) /\ s \in Seq(Byte) /\ t \in Seq(Byte)
  /\ Len(s) < Limit /\ Len(t) <= Limit
  /\ p \in Nat /\ n \in Nat \ {0} /\ p + n <= Len(t)
  /\ Growing(b, s, t, Stop(Len(b), p, so, to))

\* What a match found is the same as what it was found for.
LEMMA MatchesSame ==
  ASSUME NEW s, NEW t, NEW p \in Nat, NEW q \in Nat, NEW n \in Nat, Matches(s, p, t, q, n)
  PROVE  Same(t, q, s, p, n)
  <1> SUFFICES ASSUME NEW i \in 1 .. n
               PROVE  t[q + i] = s[p + i]
    BY DEF Same
  <1>1. i - 1 \in 0 .. n - 1 /\ p + (i - 1) + 1 = p + i /\ q + (i - 1) + 1 = q + i
    OBVIOUS
  <1>2. Alike(s, p + (i - 1), t, q + (i - 1))
    BY <1>1 DEF Matches
  <1> QED BY <1>1, <1>2 DEF Alike

\* The numbers of a command.
LEMMA CodesThere ==
  /\ \A mode \in 0 .. 3 : \A n \in Nat : LengthCode(mode, n) \in Nat
  /\ \A k \in Int : OffsetCode(k) \in Nat
  <1>1. ASSUME NEW mode \in 0 .. 3, NEW n \in Nat
        PROVE  LengthCode(mode, n) \in Nat
    <2>1. mode + 4 * (n - 1) \in Int
      OBVIOUS
    <2> QED BY <2>1, UnsignedFacts DEF LengthCode
  <1>2. ASSUME NEW k \in Int
        PROVE  OffsetCode(k) \in Nat
    <2>1. 2 * (-k) + 1 \in Int /\ 2 * k \in Int
      OBVIOUS
    <2> QED BY <2>1, UnsignedFacts DEF OffsetCode
  <1> QED BY <1>1, <1>2

\* A command that is read behind a patch makes it grow.
LEMMA CommandGrows ==
  ASSUME NEW b, NEW s, NEW t, NEW p, NEW n, NEW so, NEW to, Ready(b, s, t, p, n, so, to),
         NEW c \in Seq(Byte), NEW ns \in 0 .. Limit - 1, NEW nt \in 0 .. Limit - 1,
         NEW x, x = Stop(Len(b), p, so, to), NEW y, y = Stop(Len(b \o c), p + n, ns, nt),
         NEW k \in Nat, NEW q, Reads(b \o c, Len(b), k, q),
         \/ SourceReadAt(b \o c, s, t, x, y, n)
         \/ SourceCopyAt(b \o c, s, t, x, y, n)
         \/ TargetCopyAt(b \o c, s, t, x, y, n)
  PROVE  Growing(b \o c, s, t, y)
  <1>1. /\ b \in Seq(Byte) /\ s \in Seq(Byte) /\ t \in Seq(Byte)
        /\ Len(t) \in Nat /\ Len(t) <= Limit
        /\ p \in Nat /\ n \in Nat /\ n > 0 /\ p + n <= Len(t)
        /\ Growing(b, s, t, x)
    BY DEF Ready
  <1>2. b \o c \in Seq(Byte) /\ Len(b \o c) \in Nat /\ Len(b) \in Nat
    BY <1>1
  <1>3. x.p = Len(b) /\ x.o = p /\ y.o = p + n
    BY DEF Stop
  <1>4. n \in 1 .. Limit
    BY <1>1, UnsignedFacts
  <1>5. Leads(b \o c, s, t, x, y)
    BY <1>1, <1>3, <1>4 DEF Leads
  <1>6. y \in Stops
    BY <1>1, <1>2 DEF Stop, Stops
  <1>7. x.p < Len(b \o c)
    <2>1. q \in Nat /\ Len(b) < q
      BY <1>2, DecodeReads
    <2>2. q <= Len(b \o c)
      BY DEF Reads
    <2> QED BY <1>2, <1>3, <2>1, <2>2
  <1> QED BY <1>1, <1>5, <1>6, <1>7, GrowingLonger

\* The three commands that create() writes for a match.
LEMMA SourceReadGrows ==
  ASSUME NEW b, NEW s, NEW t, NEW p, NEW n, NEW so, NEW to, Ready(b, s, t, p, n, so, to),
         p + n <= Len(s), Matches(s, p, t, p, n),
         NEW c, c = encode[LengthCode(SourceRead, n)]
  PROVE  Growing(b \o c, s, t, Stop(Len(b \o c), p + n, so, to))
  <1>1. /\ b \in Seq(Byte) /\ s \in Seq(Byte) /\ t \in Seq(Byte)
        /\ p \in Nat /\ n \in Nat /\ Growing(b, s, t, Stop(Len(b), p, so, to))
    BY DEF Ready
  <1>2. so \in 0 .. Limit - 1 /\ to \in 0 .. Limit - 1
    <2>1. Stop(Len(b), p, so, to) \in Stops
      BY <1>1, LastStop
    <2> QED BY <2>1 DEF Stop, Stops
  <1>3. PICK k : k = LengthCode(SourceRead, n)
    OBVIOUS
  <1>4. k \in Nat
    BY <1>1, <1>3, CodesThere DEF SourceRead
  <1>5. c \in Seq(Byte)
    BY <1>3, <1>4, EncodeFacts
  <1>6. Reads(b \o c, Len(b), k, Len(b \o c))
    <2>1. Reads(b \o encode[k], Len(b), k, Len(b \o encode[k]))
      BY <1>1, <1>4, ReadsThere
    <2> QED BY <1>3, <2>1
  <1>7. PICK x, y : x = Stop(Len(b), p, so, to) /\ y = Stop(Len(b \o c), p + n, so, to)
    OBVIOUS
  <1>8. Same(t, p, s, p, n)
    BY <1>1, MatchesSame
  <1>9. SourceReadAt(b \o c, s, t, x, y, n)
    BY <1>3, <1>6, <1>7, <1>8 DEF SourceReadAt, Stop
  <1> QED BY <1>2, <1>4, <1>5, <1>6, <1>7, <1>9, CommandGrows

\* A copy from the source leads one place further.
LEMMA SourceCopyGrows ==
  ASSUME NEW b, NEW s, NEW t, NEW p, NEW n, NEW so, NEW to, Ready(b, s, t, p, n, so, to),
         NEW o \in Nat, o + n <= Len(s), Matches(s, o, t, p, n),
         NEW c, c = encode[LengthCode(SourceCopy, n)] \o encode[OffsetCode(o - so)]
  PROVE  Growing(b \o c, s, t, Stop(Len(b \o c), p + n, o + n, to))
  <1>1. /\ b \in Seq(Byte) /\ s \in Seq(Byte) /\ t \in Seq(Byte)
        /\ p \in Nat /\ n \in Nat /\ Growing(b, s, t, Stop(Len(b), p, so, to))
        /\ Len(s) < Limit /\ Len(s) \in Nat
    BY DEF Ready
  <1>2. so \in 0 .. Limit - 1 /\ to \in 0 .. Limit - 1
    <2>1. Stop(Len(b), p, so, to) \in Stops
      BY <1>1, LastStop
    <2> QED BY <2>1 DEF Stop, Stops
  <1>3. PICK k, j : k = LengthCode(SourceCopy, n) /\ j = OffsetCode(o - so)
    OBVIOUS
  <1>4. k \in Nat /\ j \in Nat
    <2>1. o - so \in Int
      BY <1>2
    <2> QED BY <1>1, <1>3, <2>1, CodesThere DEF SourceCopy
  <1>5. PICK e, f : e = encode[k] /\ f = encode[j]
    OBVIOUS
  <1>6. e \in Seq(Byte) /\ f \in Seq(Byte)
    BY <1>4, <1>5, EncodeFacts
  <1>7. c = e \o f /\ c \in Seq(Byte)
    BY <1>3, <1>5, <1>6
  <1>8. PICK q : q = Len(b) + Len(e)
    OBVIOUS
  <1>9. Reads(b \o c, Len(b), k, q)
    <2>1. Reads(b \o (encode[k] \o f), Len(b), k, Len(b) + Len(encode[k]))
      BY <1>1, <1>4, <1>6, ReadsFirst
    <2> QED BY <1>5, <1>7, <1>8, <2>1
  <1>10. Reads(b \o c, q, j, Len(b \o c))
    <2>1. Reads(b \o (e \o encode[j]), Len(b) + Len(e), j, Len(b \o (e \o encode[j])))
      BY <1>1, <1>4, <1>6, ReadsSecond
    <2> QED BY <1>5, <1>7, <1>8, <2>1
  <1>11. PICK x, y : x = Stop(Len(b), p, so, to) /\ y = Stop(Len(b \o c), p + n, o + n, to)
    OBVIOUS
  <1>12. /\ x.p = Len(b) /\ x.o = p /\ x.s = so /\ x.t = to
         /\ y.p = Len(b \o c) /\ y.s = o + n /\ y.t = to
    BY <1>11 DEF Stop
  <1>13. Same(t, p, s, o, n)
    BY <1>1, MatchesSame
  <1>14. q \in Nat
    BY <1>1, <1>6, <1>8
  <1>15. SourceCopyAt(b \o c, s, t, x, y, n)
    BY <1>3, <1>9, <1>10, <1>12, <1>13, <1>14 DEF SourceCopyAt
  <1>16. o + n \in 0 .. Limit - 1
    BY <1>1, UnsignedFacts
  <1> QED BY <1>2, <1>4, <1>7, <1>9, <1>11, <1>15, <1>16, CommandGrows

\* So does one from the target.
LEMMA TargetCopyGrows ==
  ASSUME NEW b, NEW s, NEW t, NEW p, NEW n, NEW so, NEW to, Ready(b, s, t, p, n, so, to),
         NEW o \in Nat, o < p, Matches(t, o, t, p, n),
         NEW c, c = encode[LengthCode(TargetCopy, n)] \o encode[OffsetCode(o - to)]
  PROVE  Growing(b \o c, s, t, Stop(Len(b \o c), p + n, so, o + n))
  <1>1. /\ b \in Seq(Byte) /\ s \in Seq(Byte) /\ t \in Seq(Byte)
        /\ p \in Nat /\ n \in Nat /\ Growing(b, s, t, Stop(Len(b), p, so, to))
        /\ Len(t) <= Limit /\ Len(t) \in Nat /\ p + n <= Len(t)
    BY DEF Ready
  <1>2. so \in 0 .. Limit - 1 /\ to \in 0 .. Limit - 1
    <2>1. Stop(Len(b), p, so, to) \in Stops
      BY <1>1, LastStop
    <2> QED BY <2>1 DEF Stop, Stops
  <1>3. PICK k, j : k = LengthCode(TargetCopy, n) /\ j = OffsetCode(o - to)
    OBVIOUS
  <1>4. k \in Nat /\ j \in Nat
    <2>1. o - to \in Int
      BY <1>2
    <2> QED BY <1>1, <1>3, <2>1, CodesThere DEF TargetCopy
  <1>5. PICK e, f : e = encode[k] /\ f = encode[j]
    OBVIOUS
  <1>6. e \in Seq(Byte) /\ f \in Seq(Byte)
    BY <1>4, <1>5, EncodeFacts
  <1>7. c = e \o f /\ c \in Seq(Byte)
    BY <1>3, <1>5, <1>6
  <1>8. PICK q : q = Len(b) + Len(e)
    OBVIOUS
  <1>9. Reads(b \o c, Len(b), k, q)
    <2>1. Reads(b \o (encode[k] \o f), Len(b), k, Len(b) + Len(encode[k]))
      BY <1>1, <1>4, <1>6, ReadsFirst
    <2> QED BY <1>5, <1>7, <1>8, <2>1
  <1>10. Reads(b \o c, q, j, Len(b \o c))
    <2>1. Reads(b \o (e \o encode[j]), Len(b) + Len(e), j, Len(b \o (e \o encode[j])))
      BY <1>1, <1>4, <1>6, ReadsSecond
    <2> QED BY <1>5, <1>7, <1>8, <2>1
  <1>11. PICK x, y : x = Stop(Len(b), p, so, to) /\ y = Stop(Len(b \o c), p + n, so, o + n)
    OBVIOUS
  <1>12. /\ x.p = Len(b) /\ x.o = p /\ x.s = so /\ x.t = to
         /\ y.p = Len(b \o c) /\ y.s = so /\ y.t = o + n
    BY <1>11 DEF Stop
  <1>13. Same(t, p, t, o, n)
    BY <1>1, MatchesSame
  <1>14. q \in Nat
    BY <1>1, <1>6, <1>8
  <1>15. TargetCopyAt(b \o c, s, t, x, y, n)
    BY <1>3, <1>9, <1>10, <1>12, <1>13, <1>14 DEF TargetCopyAt
  <1>16. o + n \in 0 .. Limit - 1
    BY <1>1, UnsignedFacts
  <1> QED BY <1>2, <1>4, <1>7, <1>9, <1>11, <1>15, <1>16, CommandGrows

-----------------------------------------------------------------------------
(* What is kept while a patch is made. *)

\* Sizes below which no length and no distance overflows.
Sized(s, t) == Len(s) < Limit /\ Len(t) <= Limit

\* A patch that leads from its beginning to the end of the target.
Planned(s, t, b) ==
  \E last : Growing(b, s, t, last) /\ last.p = Len(b) /\ last.o = Len(t)

\* Where nothing was read or written yet.
Resting ==
  /\ pc \in {"idle", "table", "header"} =>
       sourceRelativeOffset = 0 /\ targetRelativeOffset = 0
  /\ pc \in {"idle", "header"} => target = <<>>

\* The commands so far lead to the first of the bytes that are queued.
Grown == Creating /\ Sized(source, target) => Growing(beat.body, source, target, Here)

\* What the patch on disk was made as.
Made ==
  made # None =>
    /\ made.source \in Seq(Byte) /\ made.target \in Seq(Byte) /\ made.patch.body \in Seq(Byte)
    /\ made.patch.sums = Sums(made.source, made.target, made.patch.body)
    /\ Sized(made.source, made.target) => Planned(made.source, made.target, made.patch.body)

\* read holds the first bytes of t.
Agrees(read, t) == Len(read) <= Len(t) /\ \A i \in 1 .. Len(read) : read[i] = t[i]

\* A replay is at one of the stops, with as much of the target as was left there.
Follows(s, t, b, p, so, to, read) ==
  /\ \E P, last : /\ Route(b, s, t, P, last) /\ last.p = Len(b) /\ last.o = Len(t)
                  /\ Stop(p, Len(read), so, to) \in P
  /\ Agrees(read, t)

Followed ==
  pc = "commands" /\ Pristine /\ Small =>
    /\ ~astray /\ targetSize = Len(made.target)
    /\ Follows(made.source, made.target, beat.body, at, sourceRelativeOffset,
               targetRelativeOffset, target)

Done == pc = "decide" => ReplaysTarget

Replaying == Resting /\ Grown /\ Made /\ Followed /\ Done

\* What was made stays what it was.
LEMMA MadeKept ==
  ASSUME Made, UNCHANGED made
  PROVE  Made'
  BY DEF Made

\* Whoever rests has nothing half made or half replayed.
LEMMA BackResting ==
  ASSUME Made', Idle, pc' = "idle"
  PROVE  Replaying'
  BY DEF Replaying, Idle, Resting, Grown, Followed, Done, Creating

\* A patch is begun with its header.
LEMMA StartCreateReplays ==
  ASSUME TInv, Replaying, StartCreate
  PROVE  Replaying'
  <1>1. disk = [n \in Names |-> disk[n]]
    BY DEF TInv, FInv, IInv, Files
  <1>2. /\ pc = "idle" /\ pc' = "table"
        /\ source' = disk["original"] /\ target' = disk["modified"]
        /\ beat' = Patch(Header(source', target'), NoSums)
        /\ UNCHANGED <<made, at, queued, sourceRelativeOffset, targetRelativeOffset>>
    BY <1>1 DEF StartCreate, Names
  <1>3. at' = 0 /\ queued' = 0 /\ sourceRelativeOffset' = 0 /\ targetRelativeOffset' = 0
    BY <1>2 DEF TInv, Placed, Replaying, Resting
  <1>4. PICK s, t : s = source' /\ t = target'
    OBVIOUS
  <1>5. s \in Seq(Byte) /\ t \in Seq(Byte)
    BY <1>2, <1>4 DEF TInv, Stored
  <1>6. Growing(Header(s, t), s, t, Begin(s, t))
    BY <1>5, GrowingBegins
  <1>7. beat'.body = Header(s, t) /\ Here' = Begin(s, t)
    <2>1. beat'.body = Header(s, t)
      BY <1>2, <1>4 DEF Patch
    <2>2. at' - queued' = 0
      BY <1>3
    <2> QED BY <1>3, <2>1, <2>2 DEF Here, Begin
  <1>8. Grown'
    BY <1>4, <1>6, <1>7 DEF Grown
  <1>9. Made'
    BY <1>2, MadeKept DEF Replaying
  <1> QED BY <1>2, <1>3, <1>8, <1>9 DEF Replaying, Resting, Followed, Done

\* The table changes nothing of the patch.
LEMMA BuildTableReplays ==
  ASSUME TInv, Replaying, BuildTable
  PROVE  Replaying'
  <1>1. /\ pc = "table" /\ pc' \in {"table", "create"}
        /\ UNCHANGED <<made, source, target, beat, at, queued>>
        /\ UNCHANGED <<sourceRelativeOffset, targetRelativeOffset>>
    BY DEF BuildTable, memory
  <1>2. Grown'
    BY <1>1 DEF Replaying, Grown, Here, Creating
  <1>3. Made'
    BY <1>1, MadeKept DEF Replaying
  <1> QED BY <1>1, <1>2, <1>3 DEF Replaying, Resting, Followed, Done

\* The files create() works on.
LEMMA SourcesThere ==
  ASSUME TInv, pc = "create", Sized(source, target)
  PROVE  Sources
  <1>1. at \in Nat /\ queued \in 0 .. at /\ at <= Len(target)
    BY DEF TInv, Placed
  <1>2. source \in Seq(Byte) /\ target \in Seq(Byte) /\ beat.body \in Seq(Byte)
    BY DEF TInv, Loaded, PatchFile
  <1>3. at \in 0 .. Len(target)
    BY <1>1, <1>2
  <1> QED BY <1>1, <1>2, <1>3 DEF Sources, Sized

\* The command create() writes for a match.
CommandFor(match) ==
  LET relative == IF match.mode = SourceCopy THEN sourceRelativeOffset
    ELSE targetRelativeOffset
  IN  encode[LengthCode(match.mode, match.length)]
      \o (IF match.mode = SourceRead THEN <<>> ELSE encode[OffsetCode(match.offset - relative)])

NextStop(match, body) ==
  Stop(Len(body), at + match.length,
       IF match.mode = SourceCopy THEN match.offset + match.length ELSE sourceRelativeOffset,
       IF match.mode = TargetCopy THEN match.offset + match.length ELSE targetRelativeOffset)

\* A match that suits leads one place further, after what was queued.
LEMMA MatchGrows ==
  ASSUME Sources, Flushed \in Seq(Byte), Growing(beat.body, source, target, Here),
         NEW match, Suits(match), match.length > 0,
         NEW body, body = (beat.body \o Flushed) \o CommandFor(match)
  PROVE  Growing(body, source, target, NextStop(match, body))
  <1>1. Growing(beat.body \o Flushed, source, target, Flush)
    BY FlushGrows
  <1>2. PICK s, t, b, p, so, to : /\ s = source /\ t = target /\ b = beat.body \o Flushed
               /\ p = at
                                  /\ so = sourceRelativeOffset /\ to = targetRelativeOffset
    OBVIOUS
  <1>3. PICK mode, n, o : mode = match.mode /\ n = match.length /\ o = match.offset
    OBVIOUS
  <1>4. /\ mode \in {SourceRead, SourceCopy, TargetCopy}
        /\ n \in Nat /\ o \in Nat /\ p + n <= Len(t)
        /\ mode # TargetCopy => o + n <= Len(s) /\ Matches(s, o, t, p, n)
        /\ mode = SourceRead => o = p
        /\ mode = TargetCopy => o < p /\ Matches(t, o, t, p, n)
    BY <1>2, <1>3 DEF Suits
  <1>5. Ready(b, s, t, p, n, so, to)
    <2>1. s \in Seq(Byte) /\ t \in Seq(Byte)
            /\ Len(s) < Limit /\ Len(t) <= Limit /\ p \in 0 .. Len(t)
      BY <1>2 DEF Sources
    <2>2. b \in Seq(Byte)
      <3>1. beat.body \in Seq(Byte)
        BY DEF Sources
      <3> QED BY <1>2, <3>1
    <2>3. n \in Nat \ {0} /\ p \in Nat
      BY <1>3, <1>4, <2>1
    <2>4. Growing(b, s, t, Stop(Len(b), p, so, to))
      BY <1>1, <1>2 DEF Flush
    <2> QED BY <1>4, <2>1, <2>2, <2>3, <2>4 DEF Ready
  <1>6. CASE mode = SourceRead
    <2>1. PICK c : c = encode[LengthCode(SourceRead, n)]
      OBVIOUS
    <2>2. Growing(b \o c, s, t, Stop(Len(b \o c), p + n, so, to))
      <3>1. p + n <= Len(s) /\ Matches(s, p, t, p, n)
        BY <1>4, <1>6 DEF SourceRead, TargetCopy
      <3> QED BY <1>5, <2>1, <3>1, SourceReadGrows
    <2>3. body = b \o c
      <3>1. c \in Seq(Byte)
        <4>1. LengthCode(SourceRead, n) \in Nat
          BY <1>4, CodesThere DEF SourceRead
        <4> QED BY <2>1, <4>1, EncodeFacts
      <3>2. CommandFor(match) = c \o <<>>
        BY <1>3, <1>6, <2>1 DEF CommandFor
      <3>3. c \o <<>> = c
        BY <3>1
      <3> QED BY <1>2, <3>2, <3>3
    <2>4. NextStop(match, body) = Stop(Len(body), p + n, so, to)
      BY <1>2, <1>3, <1>6 DEF NextStop, SourceRead, SourceCopy, TargetCopy
    <2> QED BY <1>2, <2>2, <2>3, <2>4
  <1>7. CASE mode = SourceCopy
    <2>1. PICK c : c = encode[LengthCode(SourceCopy, n)] \o encode[OffsetCode(o - so)]
      OBVIOUS
    <2>2. Growing(b \o c, s, t, Stop(Len(b \o c), p + n, o + n, to))
      <3>1. o + n <= Len(s) /\ Matches(s, o, t, p, n)
        BY <1>4, <1>7 DEF SourceCopy, TargetCopy
      <3> QED BY <1>4, <1>5, <2>1, <3>1, SourceCopyGrows
    <2>3. body = b \o c
      BY <1>2, <1>3, <1>7, <2>1 DEF CommandFor, SourceRead, SourceCopy
    <2>4. NextStop(match, body) = Stop(Len(body), p + n, o + n, to)
      BY <1>2, <1>3, <1>7 DEF NextStop, SourceRead, SourceCopy, TargetCopy
    <2> QED BY <1>2, <2>2, <2>3, <2>4
  <1>8. CASE mode = TargetCopy
    <2>1. PICK c : c = encode[LengthCode(TargetCopy, n)] \o encode[OffsetCode(o - to)]
      OBVIOUS
    <2>2. Growing(b \o c, s, t, Stop(Len(b \o c), p + n, so, o + n))
      <3>1. o < p /\ Matches(t, o, t, p, n)
        BY <1>4, <1>8
      <3> QED BY <1>4, <1>5, <2>1, <3>1, TargetCopyGrows
    <2>3. body = b \o c
      BY <1>2, <1>3, <1>8, <2>1 DEF CommandFor, SourceRead, SourceCopy, TargetCopy
    <2>4. NextStop(match, body) = Stop(Len(body), p + n, so, o + n)
      BY <1>2, <1>3, <1>8 DEF NextStop, SourceRead, SourceCopy, TargetCopy
    <2> QED BY <1>2, <2>2, <2>3, <2>4
  <1> QED BY <1>4, <1>6, <1>7, <1>8

\* So does a position, whatever is chosen for it.
LEMMA CreateReplays ==
  ASSUME TInv, SuffixesOrdered, Replaying, Create
  PROVE  Replaying'
  <1>1. /\ pc = "create" /\ pc' = "create" /\ at < Len(target)
        /\ UNCHANGED <<made, source, target>>
    BY DEF Create
  <1>2. Made'
    BY <1>1, MadeKept DEF Replaying
  <1>3. ASSUME Grown'
        PROVE  Replaying'
    BY <1>1, <1>2, <1>3 DEF Replaying, Resting, Followed, Done
  <1> SUFFICES ASSUME Sized(source, target)
               PROVE  Growing(beat'.body, source', target', Here')
    BY <1>1, <1>3 DEF Grown
  <1>4. Growing(beat.body, source, target, Here)
    BY <1>1 DEF Replaying, Grown, Creating
  <1>5. Sources
    BY <1>1, SourcesThere
  <1>6. PICK best : best = Best(Find(source, target, at))
    OBVIOUS
  <1>7. Chosen(best)
    BY <1>1, <1>6, ReachedFacts
  <1>8. IF best.mode = TargetRead THEN Queue ELSE Command(best)
    BY <1>6 DEF Create
  <1>9. CASE best.mode = TargetRead
    <2>1. /\ queued' = queued + 1 /\ at' = at + 1
          /\ UNCHANGED <<beat, sourceRelativeOffset, targetRelativeOffset>>
      BY <1>8, <1>9 DEF Queue
    <2>2. at' - queued' = at - queued
      <3>1. at \in Nat /\ queued \in Nat
        BY <1>5 DEF Sources
      <3> QED BY <2>1, <3>1
    <2>3. Here' = Here
      BY <2>1, <2>2 DEF Here
    <2> QED BY <1>1, <1>4, <2>1, <2>3
  <1>10. CASE best.mode # TargetRead
    <2>1. Suits(best) /\ best.length > Threshold
      BY <1>7, <1>10 DEF Chosen, Match
    <2>2. best.length > 0
      <3>1. best.length \in Nat /\ Threshold \in Nat
        BY <2>1, LimitAssumption DEF Suits
      <3> QED BY <2>1, <3>1
    <2>3. /\ beat' = [beat EXCEPT !.body = @ \o Flushed \o CommandFor(best)]
          /\ sourceRelativeOffset' = IF best.mode = SourceCopy THEN best.offset + best.length
                                     ELSE sourceRelativeOffset
          /\ targetRelativeOffset' = IF best.mode = TargetCopy THEN best.offset + best.length
                                     ELSE targetRelativeOffset
          /\ queued' = 0 /\ at' = at + best.length
      BY <1>8, <1>10 DEF Command, CommandFor
    <2>4. PICK body : body = (beat.body \o Flushed) \o CommandFor(best)
      OBVIOUS
    <2>5. beat'.body = body
      <3>1. beat \in PatchFile
        BY DEF TInv, Loaded
      <3> QED BY <2>3, <2>4, <3>1 DEF PatchFile
    <2>6. Flushed \in Seq(Byte)
      BY <1>5, FlushedType DEF Sources
    <2>7. Growing(body, source, target, NextStop(best, body))
      BY <1>4, <1>5, <2>1, <2>2, <2>4, <2>6, MatchGrows
    <2>8. Here' = NextStop(best, body)
      <3>1. at' - queued' = at + best.length
        <4>1. at \in Nat /\ best.length \in Nat
          BY <1>5, <2>1 DEF Sources, Suits
        <4> QED BY <2>3, <4>1
      <3> QED BY <2>3, <2>5, <3>1 DEF Here, NextStop
    <2> QED BY <1>1, <2>5, <2>7, <2>8
  <1> QED BY <1>9, <1>10

\* What is still queued leads to the end of the target.
LEMMA FinishCreateReplays ==
  ASSUME TInv, Replaying, FinishCreate
  PROVE  Replaying'
  <1>1. PICK s, t, body : s = source /\ t = target /\ body = beat.body \o Flushed
    OBVIOUS
  <1>2. /\ pc = "create" /\ at >= Len(target) /\ pc' = "idle" /\ Idle
        /\ made' = [source |-> s, target |-> t, patch |-> Patch(body, Sums(s, t, body))]
    BY <1>1 DEF FinishCreate
  <1>3. s \in Seq(Byte) /\ t \in Seq(Byte) /\ beat.body \in Seq(Byte)
    BY <1>1 DEF TInv, Loaded, PatchFile
  <1>4. at = Len(target) /\ at \in 0 .. Len(target) /\ queued \in 0 .. at
    <2>1. at \in Nat /\ queued \in 0 .. at /\ at <= Len(target)
      BY <1>2 DEF TInv, Placed
    <2>2. Len(target) \in Nat
      BY <1>1, <1>3
    <2> QED BY <1>2, <2>1, <2>2
  <1>5. body \in Seq(Byte)
    <2>1. Flushed \in Seq(Byte)
      BY <1>1, <1>3, <1>4, FlushedType
    <2> QED BY <1>1, <1>3, <2>1
  <1>6. ASSUME Sized(s, t)
        PROVE  Planned(s, t, body)
    <2>1. Sources
      BY <1>1, <1>2, <1>6, SourcesThere
    <2>2. Growing(beat.body, source, target, Here)
      BY <1>1, <1>2, <1>6 DEF Replaying, Grown, Creating
    <2>3. Growing(body, s, t, Flush)
      BY <1>1, <2>1, <2>2, FlushGrows
    <2>4. Flush.p = Len(body) /\ Flush.o = Len(t)
      BY <1>1, <1>4 DEF Flush, Stop
    <2>5. PICK last : last = Flush
      OBVIOUS
    <2>6. Growing(body, s, t, last) /\ last.p = Len(body) /\ last.o = Len(t)
      BY <2>3, <2>4, <2>5
    <2> QED BY <2>6 DEF Planned
  <1>7. /\ made'.source = s /\ made'.target = t /\ made'.patch.body = body
        /\ made'.patch.sums = Sums(s, t, body)
    BY <1>2 DEF Patch
  <1>8. Made'
    BY <1>3, <1>5, <1>6, <1>7 DEF Made
  <1> QED BY <1>2, <1>8, BackResting

-----------------------------------------------------------------------------
(* The bytes that are appended. *)

\* What lies a period further on is the same.
LEMMA PeriodFacts ==
  ASSUME NEW d \in Nat \ {0}, NEW m \in Nat
  PROVE  /\ m % d \in 0 .. d - 1
         /\ m < d => m % d = m
         /\ m >= d => m % d = (m - d) % d
  <1>1. m % d \in 0 .. d - 1
    OBVIOUS
  <1>2. m < d => m % d = m
    OBVIOUS
  <1>3. ASSUME m >= d
        PROVE  m % d = (m - d) % d
    <2>1. PICK a, r, b, u : /\ a = m \div d /\ r = m % d
                            /\ b = (m - d) \div d /\ u = (m - d) % d
      OBVIOUS
    <2>2. a \in Int /\ r \in 0 .. d - 1 /\ m = d * a + r
      BY <2>1
    <2>3. m - d \in Nat
      BY <1>3
    <2>4. b \in Int /\ u \in 0 .. d - 1 /\ m - d = d * b + u
      BY <2>1, <2>3
    <2>5. PICK c : c = a - b - 1
      OBVIOUS
    <2>6. c \in Int /\ d * c = u - r
      <3>1. d * c = d * a - d * b - d
        BY <2>2, <2>4, <2>5
      <3>2. d * a \in Int /\ d * b \in Int
        BY <2>2, <2>4
      <3> QED BY <2>2, <2>4, <2>5, <3>1, <3>2
    <2>7. c = 0
      <3>1. CASE c >= 1
        <4>1. d * c >= d
          BY <2>6, <3>1
        <4> QED BY <2>2, <2>4, <2>6, <4>1
      <3>2. CASE c <= -1
        <4>1. d * c <= -d
          BY <2>6, <3>2
        <4> QED BY <2>2, <2>4, <2>6, <4>1
      <3> QED BY <2>6, <3>1, <3>2
    <2>8. u = r
      BY <2>2, <2>4, <2>6, <2>7
    <2> QED BY <2>1, <2>8
  <1> QED BY <1>1, <1>2, <1>3

\* What is the same as what stands before it repeats it.
LEMMA Repeats ==
  ASSUME NEW t, NEW o \in Nat, NEW p \in Nat, p < o, NEW n \in Nat, Same(t, o, t, p, n)
  PROVE  \A i \in 1 .. n : t[o + i] = t[p + ((i - 1) % (o - p)) + 1]
  <1> DEFINE T == {i \in Nat : i \in 1 .. n => t[o + i] = t[p + ((i - 1) % (o - p)) + 1]}
  <1>1. ASSUME NEW i \in Nat, \A j \in Nat : j < i => j \in T
        PROVE  i \in T
    <2> SUFFICES ASSUME i \in 1 .. n
                 PROVE  t[o + i] = t[p + ((i - 1) % (o - p)) + 1]
      OBVIOUS
    <2>1. PICK d : d = o - p
      OBVIOUS
    <2>2. d \in Nat \ {0} /\ i - 1 \in Nat
      BY <2>1
    <2>3. t[o + i] = t[p + i]
      BY DEF Same
    <2>4. CASE i - 1 < d
      <3>1. (i - 1) % d = i - 1
        BY <2>2, <2>4, PeriodFacts
      <3>2. p + (i - 1) + 1 = p + i
        OBVIOUS
      <3> QED BY <2>1, <2>3, <3>1, <3>2
    <2>5. CASE i - 1 >= d
      <3>1. PICK j : j = i - d
        OBVIOUS
      <3>2. j \in Nat /\ j \in 1 .. n /\ j < i /\ o + j = p + i /\ j - 1 = (i - 1) - d
        BY <2>1, <2>2, <2>5, <3>1
      <3>3. t[o + j] = t[p + ((j - 1) % (o - p)) + 1]
        <4>1. j \in T
          BY <1>1, <3>2
        <4> QED BY <3>2, <4>1
      <3>4. (i - 1) % d = ((i - 1) - d) % d
        BY <2>2, <2>5, PeriodFacts
      <3> QED BY <2>1, <2>3, <3>2, <3>3, <3>4
    <2> QED BY <2>2, <2>4, <2>5
  <1> HIDE DEF T
  <1>2. Nat \subseteq T
    BY <1>1, Induction
  <1> SUFFICES ASSUME NEW i \in 1 .. n
               PROVE  t[o + i] = t[p + ((i - 1) % (o - p)) + 1]
    OBVIOUS
  <1>3. i \in T
    BY <1>2
  <1> QED BY <1>3 DEF T

\* The bytes a command appends when it reads inside of the files.
LEMMA SourceReadRun ==
  ASSUME source \in Seq(Byte), target \in Seq(Byte), beat.body \in Seq(Byte),
         NEW n \in Nat, NEW p \in Nat, NEW junk, ~Outside(SourceRead, n, p)
  PROVE  \A i \in 1 .. n : Run(SourceRead, n, p, junk)[i] = source[Len(target) + i]
  <1> SUFFICES ASSUME NEW i \in 1 .. n
               PROVE  Run(SourceRead, n, p, junk)[i] = source[Len(target) + i]
    OBVIOUS
  <1>1. Len(target) + i - 1 < Len(source) /\ (Len(target) + i - 1) + 1 = Len(target) + i
    BY DEF Outside, SourceRead, TargetRead, SourceCopy, TargetCopy
  <1>2. Run(SourceRead, n, p, junk)[i] = Get(source, Len(target) + i - 1, junk)
    BY DEF Run, SourceRead, TargetRead, SourceCopy, TargetCopy
  <1> QED BY <1>1, <1>2 DEF Get

\* What is copied from the patch.
LEMMA TargetReadRun ==
  ASSUME source \in Seq(Byte), target \in Seq(Byte), beat.body \in Seq(Byte),
         NEW n \in Nat, NEW p \in Nat, NEW junk, ~Outside(TargetRead, n, p)
  PROVE  \A i \in 1 .. n : Run(TargetRead, n, p, junk)[i] = beat.body[p + i]
  <1> SUFFICES ASSUME NEW i \in 1 .. n
               PROVE  Run(TargetRead, n, p, junk)[i] = beat.body[p + i]
    OBVIOUS
  <1>1. p + i - 1 < Len(beat.body) /\ (p + i - 1) + 1 = p + i
    BY DEF Outside, SourceRead, TargetRead, SourceCopy, TargetCopy
  <1>2. Run(TargetRead, n, p, junk)[i] = Get(beat.body, p + i - 1, junk)
    BY DEF Run, SourceRead, TargetRead, SourceCopy, TargetCopy
  <1> QED BY <1>1, <1>2 DEF Get

\* What is copied from the source.
LEMMA SourceCopyRun ==
  ASSUME source \in Seq(Byte), target \in Seq(Byte), beat.body \in Seq(Byte),
         NEW n \in Nat, NEW p \in Nat, NEW junk, ~Outside(SourceCopy, n, p)
  PROVE  \A i \in 1 .. n : Run(SourceCopy, n, p, junk)[i] = source[p + i]
  <1> SUFFICES ASSUME NEW i \in 1 .. n
               PROVE  Run(SourceCopy, n, p, junk)[i] = source[p + i]
    OBVIOUS
  <1>1. p + i - 1 < Len(source) /\ (p + i - 1) + 1 = p + i
    BY DEF Outside, SourceRead, TargetRead, SourceCopy, TargetCopy
  <1>2. Run(SourceCopy, n, p, junk)[i] = Get(source, p + i - 1, junk)
    BY DEF Run, SourceRead, TargetRead, SourceCopy, TargetCopy
  <1> QED BY <1>1, <1>2 DEF Get

\* What is copied within the target repeats what stands there.
LEMMA TargetCopyRun ==
  ASSUME source \in Seq(Byte), target \in Seq(Byte), beat.body \in Seq(Byte),
         NEW n \in Nat, NEW p \in Nat, NEW junk, ~Outside(TargetCopy, n, p)
  PROVE  \A i \in 1 .. n :
           Run(TargetCopy, n, p, junk)[i] = target[p + ((i - 1) % (Len(target) - p)) + 1]
  <1> SUFFICES ASSUME NEW i \in 1 .. n
               PROVE  Run(TargetCopy, n, p, junk)[i] = target[p + ((i - 1) % (Len(target) - p)) + 1]
    OBVIOUS
  <1>1. ~(p >= Len(target))
    BY DEF Outside, SourceRead, TargetRead, SourceCopy, TargetCopy
  <1>2. Run(TargetCopy, n, p, junk)[i] = TargetByte(p, i - 1, junk)
    BY DEF Run, SourceRead, TargetRead, SourceCopy, TargetCopy
  <1> QED BY <1>1, <1>2 DEF TargetByte

\* What goes on as the target does still agrees with it.
LEMMA AgreesLonger ==
  ASSUME NEW read \in Seq(Byte), NEW t \in Seq(Byte), Agrees(read, t), NEW r \in Seq(Byte),
         Len(read) + Len(r) <= Len(t), \A i \in 1 .. Len(r) : r[i] = t[Len(read) + i]
  PROVE  /\ read \o r \in Seq(Byte) /\ Len(read \o r) = Len(read) + Len(r)
         /\ Agrees(read \o r, t)
  <1>1. /\ read \o r \in Seq(Byte) /\ Len(read \o r) = Len(read) + Len(r)
        /\ \A i \in 1 .. Len(read) : (read \o r)[i] = read[i]
        /\ \A i \in 1 .. Len(r) : (read \o r)[Len(read) + i] = r[i]
    BY ConcatFacts
  <1>2. Len(read) \in Nat /\ Len(r) \in Nat
    OBVIOUS
  <1>3. ASSUME NEW i \in 1 .. Len(read \o r)
        PROVE  (read \o r)[i] = t[i]
    <2>1. CASE i <= Len(read)
      <3>1. i \in 1 .. Len(read)
        BY <1>2, <2>1
      <3> QED BY <1>1, <3>1 DEF Agrees
    <2>2. CASE ~(i <= Len(read))
      <3>1. PICK j : j = i - Len(read)
        OBVIOUS
      <3>2. j \in 1 .. Len(r) /\ Len(read) + j = i
        BY <1>1, <1>2, <2>2, <3>1
      <3> QED BY <1>1, <3>2
    <2> QED BY <2>1, <2>2
  <1> QED BY <1>1, <1>3 DEF Agrees

-----------------------------------------------------------------------------
(* The commands that are replayed. *)

\* n bytes are appended, and the replay goes on at next.
Appends(mode, n, p, next, junk) ==
  /\ target' = target \o Run(mode, n, p, junk) /\ at' = next
  /\ astray' = (astray \/ Outside(mode, n, p) \/ next > Len(beat.body))

\* The command that is read from at to q.
Performs(mode, n, q, junk) ==
  /\ mode = SourceRead => Appends(SourceRead, n, 0, q, junk)
  /\ mode = TargetRead => Appends(TargetRead, n, q, q + n, junk)
  /\ mode \in {SourceRead, TargetRead} =>
       UNCHANGED <<sourceRelativeOffset, targetRelativeOffset>>
  /\ mode = SourceCopy =>
       \E o \in Decode(beat.body, q) :
         /\ Appends(SourceCopy, n, Unsigned(sourceRelativeOffset + OffsetOf(o.value)), o.next, junk)
         /\ sourceRelativeOffset' = Unsigned(Unsigned(sourceRelativeOffset + OffsetOf(o.value)) + n)
         /\ UNCHANGED targetRelativeOffset
  /\ mode = TargetCopy =>
       \E o \in Decode(beat.body, q) :
         /\ Appends(TargetCopy, n, Unsigned(targetRelativeOffset + OffsetOf(o.value)), o.next, junk)
         /\ targetRelativeOffset' = Unsigned(Unsigned(targetRelativeOffset + OffsetOf(o.value)) + n)
         /\ UNCHANGED sourceRelativeOffset

\* The command that was written is the one that is performed.
LEMMA CommandPerformed ==
  ASSUME ReadCommand, beat.body \in Seq(Byte), at \in Nat,
         NEW mode \in 0 .. 3, NEW n \in 1 .. Limit, NEW q,
         Reads(beat.body, at, LengthCode(mode, n), q)
  PROVE  \E junk \in Junk : Performs(mode, n, q, junk)
  <1>1. PICK v : v = LengthCode(mode, n)
    OBVIOUS
  <1>2. v \in Nat /\ Unsigned(v) = v /\ v % 4 = mode /\ v \div 4 + 1 = n
    BY <1>1, LengthFacts
  <1>3. Decode(beat.body, at) = {[value |-> v, next |-> q]}
    BY <1>1, <1>2, DecodeReads
  <1>4. PICK c \in Decode(beat.body, at), junk \in Junk :
         LET code == Unsigned(c.value)  m == code % 4  length == code \div 4 + 1
             Does(p, next) == /\ target' = target \o Run(m, length, p, junk)
                              /\ at' = next
                              /\ astray' = (astray \/ Outside(m, length, p)
                                                   \/ next > Len(beat.body))
         IN  \/ /\ m = SourceRead /\ Does(0, c.next)
                /\ UNCHANGED <<sourceRelativeOffset, targetRelativeOffset>>
             \/ /\ m = TargetRead /\ Does(c.next, c.next + length)
                /\ UNCHANGED <<sourceRelativeOffset, targetRelativeOffset>>
             \/ /\ m = SourceCopy
                /\ \E o \in Decode(beat.body, c.next) :
                     LET p == Unsigned(sourceRelativeOffset + OffsetOf(o.value))
                     IN  Does(p, o.next) /\ sourceRelativeOffset' = Unsigned(p + length)
                /\ UNCHANGED targetRelativeOffset
             \/ /\ m = TargetCopy
                /\ \E o \in Decode(beat.body, c.next) :
                     LET p == Unsigned(targetRelativeOffset + OffsetOf(o.value))
                     IN  Does(p, o.next) /\ targetRelativeOffset' = Unsigned(p + length)
                /\ UNCHANGED sourceRelativeOffset
    BY Zenon DEF ReadCommand
  <1>5. c = [value |-> v, next |-> q]
    BY <1>3, <1>4
  <1>6. PICK code, m, length : code = Unsigned(c.value) /\ m = code % 4
               /\ length = code \div 4 + 1
    OBVIOUS
  <1>7. m = mode /\ length = n /\ c.next = q
    BY <1>2, <1>5, <1>6
  <1>8. \/ /\ m = SourceRead /\ Appends(m, length, 0, c.next, junk)
           /\ UNCHANGED <<sourceRelativeOffset, targetRelativeOffset>>
        \/ /\ m = TargetRead /\ Appends(m, length, c.next, c.next + length, junk)
           /\ UNCHANGED <<sourceRelativeOffset, targetRelativeOffset>>
        \/ /\ m = SourceCopy
           /\ \E o \in Decode(beat.body, c.next) :
                /\ Appends(m, length, Unsigned(sourceRelativeOffset + OffsetOf(o.value)), o.next, junk)
                /\ sourceRelativeOffset' = Unsigned(Unsigned(sourceRelativeOffset + OffsetOf(o.value)) + length)
           /\ UNCHANGED targetRelativeOffset
        \/ /\ m = TargetCopy
           /\ \E o \in Decode(beat.body, c.next) :
                /\ Appends(m, length, Unsigned(targetRelativeOffset + OffsetOf(o.value)), o.next, junk)
                /\ targetRelativeOffset' = Unsigned(Unsigned(targetRelativeOffset + OffsetOf(o.value)) + length)
           /\ UNCHANGED sourceRelativeOffset
    BY <1>4, <1>6, Zenon DEF Appends
  <1>9. SourceRead = 0 /\ TargetRead = 1 /\ SourceCopy = 2 /\ TargetCopy = 3
    BY DEF SourceRead, TargetRead, SourceCopy, TargetCopy
  <1>10. Performs(mode, n, q, junk)
    <2>1. CASE m = SourceRead
      <3>1. Appends(SourceRead, n, 0, q, junk)
              /\ UNCHANGED <<sourceRelativeOffset, targetRelativeOffset>>
        BY <1>7, <1>8, <1>9, <2>1
      <3> QED BY <1>7, <1>9, <2>1, <3>1 DEF Performs
    <2>2. CASE m = TargetRead
      <3>1. /\ Appends(TargetRead, n, q, q + n, junk)
            /\ UNCHANGED <<sourceRelativeOffset, targetRelativeOffset>>
        BY <1>7, <1>8, <1>9, <2>2
      <3> QED BY <1>7, <1>9, <2>2, <3>1 DEF Performs
    <2>3. CASE m = SourceCopy
      <3>1. \E o \in Decode(beat.body, q) :
              /\ Appends(SourceCopy, n, Unsigned(sourceRelativeOffset + OffsetOf(o.value)), o.next, junk)
              /\ sourceRelativeOffset' = Unsigned(Unsigned(sourceRelativeOffset + OffsetOf(o.value)) + n)
              /\ UNCHANGED targetRelativeOffset
        BY <1>7, <1>8, <1>9, <2>3
      <3> QED BY <1>7, <1>9, <2>3, <3>1 DEF Performs
    <2>4. CASE m = TargetCopy
      <3>1. \E o \in Decode(beat.body, q) :
              /\ Appends(TargetCopy, n, Unsigned(targetRelativeOffset + OffsetOf(o.value)), o.next, junk)
              /\ targetRelativeOffset' = Unsigned(Unsigned(targetRelativeOffset + OffsetOf(o.value)) + n)
              /\ UNCHANGED sourceRelativeOffset
        BY <1>7, <1>8, <1>9, <2>4
      <3> QED BY <1>7, <1>9, <2>4, <3>1 DEF Performs
    <2> QED BY <1>8, <2>1, <2>2, <2>3, <2>4
  <1> QED BY <1>10

\* An offset that was encoded leads where it was to lead.
LEMMA PlaceFound ==
  ASSUME NEW b \in Seq(Byte), NEW q \in Nat, NEW base \in 0 .. Limit - 1, NEW p \in Nat,
         p < Limit,
         NEW next, Reads(b, q, OffsetCode(p - base), next), NEW o \in Decode(b, q)
  PROVE  Unsigned(base + OffsetOf(o.value)) = p /\ o.next = next
  <1>1. PICK k, v : k = p - base /\ v = OffsetCode(k)
    OBVIOUS
  <1>2. k \in Int /\ -Limit < k /\ k < Limit /\ base + k = p
    BY <1>1, UnsignedFacts
  <1>3. v \in Nat /\ OffsetOf(v) = k
    BY <1>1, <1>2, OffsetFacts
  <1>4. Decode(b, q) = {[value |-> v, next |-> next]}
    BY <1>1, <1>3, DecodeReads
  <1>5. o.value = v /\ o.next = next
    BY <1>4
  <1>6. Unsigned(p) = p
    BY UnsignedFacts
  <1> QED BY <1>2, <1>3, <1>5, <1>6

\* A stop of a replay, in the files the patch was made of, at which a command of
\* n bytes leads to another.
Leading(s, t, x, y, n) ==
  /\ s \in Seq(Byte) /\ t \in Seq(Byte) /\ Len(s) < Limit /\ Len(t) <= Limit
  /\ x \in Stops /\ y \in Stops /\ n \in 1 .. Limit /\ y.o = x.o + n /\ y.o <= Len(t)
  /\ source = s /\ source \in Seq(Byte) /\ target \in Seq(Byte) /\ beat.body \in Seq(Byte)
  /\ at = x.p /\ at \in Nat /\ Len(target) = x.o /\ x.o \in Nat
  /\ sourceRelativeOffset = x.s /\ x.s \in 0 .. Limit - 1
  /\ targetRelativeOffset = x.t /\ x.t \in 0 .. Limit - 1
  /\ Agrees(target, t) /\ ~astray /\ ReadCommand

\* What a command has written, and where it has led.
Wrote(t, y) ==
  /\ at' = y.p /\ target' \in Seq(Byte) /\ Len(target') = y.o /\ Agrees(target', t)
       /\ ~astray'
Led(t, y) ==
  Wrote(t, y) /\ sourceRelativeOffset' = y.s /\ targetRelativeOffset' = y.t

\* The bytes that are right are appended, and nothing else.
LEMMA Appended ==
  ASSUME NEW s, NEW t, NEW x, NEW y, NEW n, Leading(s, t, x, y, n), y.p <= Len(beat.body),
         NEW mode \in {SourceRead, TargetRead, SourceCopy, TargetCopy}, NEW p \in Nat,
         NEW junk \in Junk, Appends(mode, n, p, y.p, junk), ~Outside(mode, n, p),
         \A i \in 1 .. n : Run(mode, n, p, junk)[i] = t[x.o + i]
  PROVE  Wrote(t, y)
  <1>1. PICK r : r = Run(mode, n, p, junk)
    OBVIOUS
  <1>2. n \in Nat /\ y.p \in Nat /\ Len(beat.body) \in Nat
    BY DEF Leading, Stops
  <1>3. r \in Seq(Byte) /\ Len(r) = n
    <2>1. source \in Seq(Byte) /\ target \in Seq(Byte) /\ beat.body \in Seq(Byte)
      BY DEF Leading
    <2>2. Run(mode, n, p, junk) \in Seq(Byte)
      BY <1>2, <2>1, RunType
    <2>3. Len(Run(mode, n, p, junk)) = n
      BY <1>2 DEF Run
    <2> QED BY <1>1, <2>2, <2>3
  <1>4. /\ x.o = Len(target) /\ t \in Seq(Byte) /\ Agrees(target, t) /\ ~astray
        /\ target \in Seq(Byte) /\ y.o = x.o + n /\ y.o <= Len(t)
    BY DEF Leading
  <1>5. /\ target \o r \in Seq(Byte) /\ Len(target \o r) = Len(target) + Len(r)
        /\ Agrees(target \o r, t)
    <2>1. Len(target) + Len(r) <= Len(t) /\ \A i \in 1 .. Len(r) : r[i] = t[Len(target) + i]
      BY <1>1, <1>3, <1>4
    <2> QED BY <1>3, <1>4, <2>1, AgreesLonger
  <1>6. target' = target \o r /\ at' = y.p
    BY <1>1 DEF Appends
  <1>7. ~astray'
    <2>1. ~(y.p > Len(beat.body))
      BY <1>2
    <2> QED BY <1>4, <2>1 DEF Appends
  <1> QED BY <1>3, <1>4, <1>5, <1>6, <1>7 DEF Wrote

\* Bytes where they were in the source are the next ones of the target.
LEMMA SourceReadLeads ==
  ASSUME NEW s, NEW t, NEW x, NEW y, NEW n, Leading(s, t, x, y, n),
         SourceReadAt(beat.body, s, t, x, y, n)
  PROVE  Led(t, y)
  <1>1. /\ Reads(beat.body, at, LengthCode(SourceRead, n), y.p) /\ y.s = x.s /\ y.t = x.t
        /\ x.o + n <= Len(s) /\ Same(t, x.o, s, x.o, n)
    BY DEF SourceReadAt, Leading
  <1>2. PICK junk \in Junk : Performs(SourceRead, n, y.p, junk)
    <2>1. SourceRead \in 0 .. 3
      BY DEF SourceRead
    <2> QED BY <1>1, <2>1, CommandPerformed DEF Leading
  <1>3. /\ Appends(SourceRead, n, 0, y.p, junk)
        /\ UNCHANGED <<sourceRelativeOffset, targetRelativeOffset>>
    BY <1>2 DEF Performs
  <1>4. ~Outside(SourceRead, n, 0)
    <2>1. ~(Len(target) + n > Len(source))
      <3>1. Len(source) \in Nat /\ n \in Nat /\ source = s /\ Len(target) = x.o /\ x.o \in Nat
        BY DEF Leading
      <3> QED BY <1>1, <3>1
    <2> QED BY <2>1 DEF Outside, SourceRead, TargetRead, SourceCopy, TargetCopy
  <1>6. \A i \in 1 .. n : Run(SourceRead, n, 0, junk)[i] = t[x.o + i]
    <2>1. n \in Nat
      BY DEF Leading
    <2>2. source \in Seq(Byte) /\ target \in Seq(Byte) /\ beat.body \in Seq(Byte)
      BY DEF Leading
    <2>3. \A i \in 1 .. n : Run(SourceRead, n, 0, junk)[i] = source[Len(target) + i]
      BY <1>4, <2>1, <2>2, SourceReadRun
    <2> QED BY <1>1, <2>3 DEF Same, Leading
  <1>7. y.p \in Nat /\ y.p <= Len(beat.body)
    BY <1>1 DEF Leading, Stops, Reads
  <1>8. Wrote(t, y)
    <2>1. SourceRead \in {SourceRead, TargetRead, SourceCopy, TargetCopy} /\ 0 \in Nat
      OBVIOUS
    <2> QED BY <1>3, <1>4, <1>6, <1>7, <2>1, Appended
  <1> QED BY <1>1, <1>3, <1>8 DEF Led, Leading

\* So are those that are in the patch.
LEMMA TargetReadLeads ==
  ASSUME NEW s, NEW t, NEW x, NEW y, NEW n, Leading(s, t, x, y, n),
         TargetReadAt(beat.body, s, t, x, y, n)
  PROVE  Led(t, y)
  <1>1. PICK q \in Nat :
          /\ Reads(beat.body, at, LengthCode(TargetRead, n), q) /\ y.s = x.s /\ y.t = x.t
          /\ y.p = q + n /\ y.p <= Len(beat.body) /\ Same(t, x.o, beat.body, q, n)
    BY DEF TargetReadAt, Leading
  <1>2. PICK junk \in Junk : Performs(TargetRead, n, q, junk)
    <2>1. TargetRead \in 0 .. 3
      BY DEF TargetRead
    <2> QED BY <1>1, <2>1, CommandPerformed DEF Leading
  <1>3. /\ Appends(TargetRead, n, q, y.p, junk)
        /\ UNCHANGED <<sourceRelativeOffset, targetRelativeOffset>>
    BY <1>1, <1>2 DEF Performs
  <1>4. ~Outside(TargetRead, n, q)
    <2>1. ~(q + n > Len(beat.body))
      <3>1. Len(beat.body) \in Nat /\ n \in Nat
        BY DEF Leading
      <3> QED BY <1>1, <3>1
    <2> QED BY <2>1 DEF Outside, SourceRead, TargetRead, SourceCopy, TargetCopy
  <1>6. \A i \in 1 .. n : Run(TargetRead, n, q, junk)[i] = t[x.o + i]
    <2>1. n \in Nat
      BY DEF Leading
    <2>2. source \in Seq(Byte) /\ target \in Seq(Byte) /\ beat.body \in Seq(Byte)
      BY DEF Leading
    <2>3. \A i \in 1 .. n : Run(TargetRead, n, q, junk)[i] = beat.body[q + i]
      BY <1>4, <2>1, <2>2, TargetReadRun
    <2> QED BY <1>1, <2>3 DEF Same
  <1>7. y.p \in Nat
    BY DEF Leading, Stops
  <1>8. Wrote(t, y)
    <2>1. TargetRead \in {SourceRead, TargetRead, SourceCopy, TargetCopy} /\ 0 \in Nat
      OBVIOUS
    <2> QED BY <1>1, <1>3, <1>4, <1>6, <2>1, Appended
  <1> QED BY <1>1, <1>3, <1>8 DEF Led, Leading

\* So are those from elsewhere in the source.
LEMMA SourceCopyLeads ==
  ASSUME NEW s, NEW t, NEW x, NEW y, NEW n, Leading(s, t, x, y, n),
         SourceCopyAt(beat.body, s, t, x, y, n)
  PROVE  Led(t, y)
  <1>1. PICK q \in Nat, p \in Nat :
          /\ Reads(beat.body, at, LengthCode(SourceCopy, n), q)
          /\ Reads(beat.body, q, OffsetCode(p - x.s), y.p)
          /\ y.s = p + n /\ y.t = x.t
          /\ p + n <= Len(s) /\ Same(t, x.o, s, p, n)
    BY DEF SourceCopyAt, Leading
  <1>2. PICK junk \in Junk : Performs(SourceCopy, n, q, junk)
    <2>1. SourceCopy \in 0 .. 3
      BY DEF SourceCopy
    <2> QED BY <1>1, <2>1, CommandPerformed DEF Leading
  <1>3. PICK o \in Decode(beat.body, q) :
         /\ Appends(SourceCopy, n, Unsigned(sourceRelativeOffset + OffsetOf(o.value)), o.next, junk)
         /\ sourceRelativeOffset' = Unsigned(Unsigned(sourceRelativeOffset + OffsetOf(o.value)) + n)
         /\ UNCHANGED targetRelativeOffset
    BY <1>2 DEF Performs
  <1>4. Len(s) < Limit /\ Len(s) \in Nat /\ n \in Nat /\ p < Limit /\ Limit \in Nat
    <2>1. s \in Seq(Byte) /\ Len(s) < Limit /\ n \in Nat
      BY DEF Leading
    <2>2. Len(s) \in Nat /\ Limit \in Nat
      BY <2>1, UnsignedFacts
    <2> QED BY <1>1, <2>1, <2>2
  <1>5. Unsigned(sourceRelativeOffset + OffsetOf(o.value)) = p /\ o.next = y.p
    <2>1. beat.body \in Seq(Byte) /\ x.s \in 0 .. Limit - 1 /\ sourceRelativeOffset = x.s
      BY DEF Leading
    <2>2. Unsigned(x.s + OffsetOf(o.value)) = p /\ o.next = y.p
      BY <1>1, <1>4, <2>1, PlaceFound
    <2> QED BY <2>1, <2>2
  <1>6. /\ Appends(SourceCopy, n, p, y.p, junk)
        /\ sourceRelativeOffset' = y.s /\ UNCHANGED targetRelativeOffset
    <2>1. p + n < Modulus /\ p + n \in Nat
      BY <1>1, <1>4, UnsignedFacts
    <2>2. Unsigned(p + n) = y.s
      BY <1>1, <2>1, UnsignedFacts
    <2> QED BY <1>3, <1>5, <2>2
  <1>7. ~Outside(SourceCopy, n, p)
    <2>1. ~(p + n > Len(source))
      <3>1. source = s
        BY DEF Leading
      <3> QED BY <1>1, <1>4, <3>1
    <2> QED BY <2>1 DEF Outside, SourceRead, TargetRead, SourceCopy, TargetCopy
  <1>9. \A i \in 1 .. n : Run(SourceCopy, n, p, junk)[i] = t[x.o + i]
    <2>1. source \in Seq(Byte) /\ target \in Seq(Byte) /\ beat.body \in Seq(Byte)
      BY DEF Leading
    <2>2. \A i \in 1 .. n : Run(SourceCopy, n, p, junk)[i] = source[p + i]
      BY <1>4, <1>7, <2>1, SourceCopyRun
    <2> QED BY <1>1, <2>2 DEF Same, Leading
  <1>10. y.p \in Nat /\ y.p <= Len(beat.body)
    BY <1>1 DEF Leading, Stops, Reads
  <1>11. Wrote(t, y)
    <2>1. SourceCopy \in {SourceRead, TargetRead, SourceCopy, TargetCopy} /\ 0 \in Nat
      OBVIOUS
    <2> QED BY <1>1, <1>6, <1>7, <1>9, <1>10, <2>1, Appended
  <1> QED BY <1>1, <1>6, <1>11 DEF Led, Leading

\* So are those from earlier in the target.
LEMMA TargetCopyLeads ==
  ASSUME NEW s, NEW t, NEW x, NEW y, NEW n, Leading(s, t, x, y, n),
         TargetCopyAt(beat.body, s, t, x, y, n)
  PROVE  Led(t, y)
  <1>1. PICK q \in Nat, p \in Nat :
          /\ Reads(beat.body, at, LengthCode(TargetCopy, n), q)
          /\ Reads(beat.body, q, OffsetCode(p - x.t), y.p)
          /\ y.s = x.s /\ y.t = p + n
          /\ p < x.o /\ Same(t, x.o, t, p, n)
    BY DEF TargetCopyAt, Leading
  <1>2. PICK junk \in Junk : Performs(TargetCopy, n, q, junk)
    <2>1. TargetCopy \in 0 .. 3
      BY DEF TargetCopy
    <2> QED BY <1>1, <2>1, CommandPerformed DEF Leading
  <1>3. PICK o \in Decode(beat.body, q) :
         /\ Appends(TargetCopy, n, Unsigned(targetRelativeOffset + OffsetOf(o.value)), o.next, junk)
         /\ targetRelativeOffset' = Unsigned(Unsigned(targetRelativeOffset + OffsetOf(o.value)) + n)
         /\ UNCHANGED sourceRelativeOffset
    BY <1>2 DEF Performs
  <1>4. n \in Nat /\ p < Limit /\ Limit \in Nat /\ y.t < Limit
    <2>1. y.t \in 0 .. Limit - 1 /\ n \in 1 .. Limit
      BY DEF Leading, Stops
    <2>2. Limit \in Nat
      BY UnsignedFacts
    <2> QED BY <1>1, <2>1, <2>2
  <1>5. Unsigned(targetRelativeOffset + OffsetOf(o.value)) = p /\ o.next = y.p
    <2>1. beat.body \in Seq(Byte) /\ x.t \in 0 .. Limit - 1 /\ targetRelativeOffset = x.t
      BY DEF Leading
    <2>2. Unsigned(x.t + OffsetOf(o.value)) = p /\ o.next = y.p
      BY <1>1, <1>4, <2>1, PlaceFound
    <2> QED BY <2>1, <2>2
  <1>6. /\ Appends(TargetCopy, n, p, y.p, junk)
        /\ targetRelativeOffset' = y.t /\ UNCHANGED sourceRelativeOffset
    <2>1. p + n < Modulus /\ p + n \in Nat
      BY <1>1, <1>4, UnsignedFacts
    <2>2. Unsigned(p + n) = y.t
      BY <1>1, <2>1, UnsignedFacts
    <2> QED BY <1>3, <1>5, <2>2
  <1>7. ~Outside(TargetCopy, n, p)
    <2>1. ~(p >= Len(target))
      <3>1. Len(target) = x.o /\ x.o \in Nat
        BY DEF Leading
      <3> QED BY <1>1, <3>1
    <2> QED BY <2>1 DEF Outside, SourceRead, TargetRead, SourceCopy, TargetCopy
  <1>9. ASSUME NEW i \in 1 .. n
        PROVE  Run(TargetCopy, n, p, junk)[i] = t[x.o + i]
    <2>1. Len(target) = x.o /\ x.o \in Nat /\ Agrees(target, t)
      BY DEF Leading
    <2>2. \A k \in 1 .. n :
            Run(TargetCopy, n, p, junk)[k] = target[p + ((k - 1) % (Len(target) - p)) + 1]
      <3>1. source \in Seq(Byte) /\ target \in Seq(Byte) /\ beat.body \in Seq(Byte)
        BY DEF Leading
      <3> QED BY <1>4, <1>7, <3>1, TargetCopyRun
    <2>3. t[x.o + i] = t[p + ((i - 1) % (x.o - p)) + 1]
      <3>1. PICK z : z = x.o
        OBVIOUS
      <3>2. z \in Nat /\ p < z /\ n \in Nat /\ Same(t, z, t, p, n)
        BY <1>1, <1>4, <2>1, <3>1
      <3>3. \A k \in 1 .. n : t[z + k] = t[p + ((k - 1) % (z - p)) + 1]
        BY <3>2, Repeats
      <3> QED BY <3>1, <3>3
    <2>4. PICK d, m : d = x.o - p /\ m = (i - 1) % d
      OBVIOUS
    <2>5. d \in Nat \ {0} /\ i - 1 \in Nat
      BY <1>1, <1>4, <2>1, <2>4
    <2>6. m \in 0 .. d - 1
      BY <2>4, <2>5, PeriodFacts
    <2>7. p + m + 1 \in 1 .. Len(target)
      <3>1. x.o \in Nat /\ p < x.o /\ d = x.o - p /\ Len(target) = x.o
        BY <1>1, <2>1, <2>4
      <3> QED BY <2>6, <3>1
    <2>8. target[p + m + 1] = t[p + m + 1]
      BY <2>1, <2>7 DEF Agrees
    <2> QED BY <2>1, <2>2, <2>3, <2>4, <2>8
  <1>10. y.p \in Nat /\ y.p <= Len(beat.body)
    BY <1>1 DEF Leading, Stops, Reads
  <1>11. Wrote(t, y)
    <2>1. TargetCopy \in {SourceRead, TargetRead, SourceCopy, TargetCopy} /\ 0 \in Nat
      OBVIOUS
    <2> QED BY <1>1, <1>6, <1>7, <1>9, <1>10, <2>1, Appended
  <1> QED BY <1>1, <1>6, <1>11 DEF Led, Leading

-----------------------------------------------------------------------------
(* The replay of a patch as it was made. *)

\* A patch as it was made, in files without overflow.
Sound == Pristine /\ Small

\* A pristine patch is the one that was made, with the file it was made from.
LEMMA SoundFacts ==
  ASSUME TInv, Made, Sound
  PROVE  /\ made # None /\ source = made.source /\ beat = made.patch
              /\ beat.body = made.patch.body
         /\ made.source \in Seq(Byte) /\ made.target \in Seq(Byte) /\ beat.body \in Seq(Byte)
         /\ Len(made.source) < Limit /\ Len(made.target) <= Limit
         /\ beat.sums = Sums(made.source, made.target, beat.body)
         /\ Planned(made.source, made.target, beat.body)
  BY DEF Made, Sound, Pristine, Small, Sized

\* What a step leaves of it.
LEMMA SoundKept ==
  ASSUME UNCHANGED <<made, source, beat>>
  PROVE  /\ Sound' <=> Sound
         /\ ~Sound => Followed' /\ Done'
  BY DEF Sound, Pristine, Small, Followed, Done, ReplaysTarget

\* The header of such a patch is accepted, and the replay begins behind it.
LEMMA HeaderFollows ==
  ASSUME TInv, Resting, Made, Sound, ReadHeader
  PROVE  /\ pc' = "commands" /\ ~astray' /\ targetSize' = Len(made.target)
         /\ Follows(made.source, made.target, beat.body, at', 0, 0, <<>>)
  <1>1. PICK s, t, b : s = made.source /\ t = made.target /\ b = beat.body
    OBVIOUS
  <1>2. /\ s \in Seq(Byte) /\ t \in Seq(Byte) /\ b \in Seq(Byte) /\ source = s
        /\ Planned(s, t, b)
    BY <1>1, SoundFacts
  <1>3. PICK last : Growing(b, s, t, last) /\ last.p = Len(b) /\ last.o = Len(t)
    BY <1>2 DEF Planned
  <1>4. PICK P : Begin(s, t) \in P /\ Route(b, s, t, P, last)
    BY <1>3 DEF Growing
  <1>5. Len(b) >= 1 /\ b[1] = Mark
    BY <1>3 DEF Growing, Headed
  <1>6. PICK q \in Nat, r \in Nat :
          Reads(b, 1, Len(s), q) /\ Reads(b, q, Len(t), r)
            /\ Reads(b, r, 0, Len(Header(s, t)))
    BY <1>3 DEF Growing, Headed
  <1>7. PICK h, k, m : h = Len(Header(s, t)) /\ k = Len(s) /\ m = Len(t)
    OBVIOUS
  <1>8. k \in Nat /\ m \in Nat /\ Len(b) \in Nat /\ 1 \in Nat /\ 0 \in Nat
    BY <1>2, <1>7
  <1>9. q \in Nat /\ 1 < q /\ Decode(b, 1) = {[value |-> k, next |-> q]}
    <2>1. Reads(b, 1, k, q)
      BY <1>6, <1>7
    <2> QED BY <1>2, <1>8, <2>1, DecodeReads
  <1>10. r \in Nat /\ q < r /\ Decode(b, q) = {[value |-> m, next |-> r]}
    <2>1. Reads(b, q, m, r)
      BY <1>6, <1>7
    <2> QED BY <1>2, <1>6, <1>8, <2>1, DecodeReads
  <1>11. h \in Nat /\ r < h /\ Decode(b, r) = {[value |-> 0, next |-> h]}
    <2>1. Reads(b, r, 0, h)
      BY <1>6, <1>7
    <2> QED BY <1>2, <1>6, <1>8, <2>1, DecodeReads
  <1>12. h <= Len(b)
    BY <1>6, <1>7 DEF Reads
  <1>13. Marked
    <2>1. Len(b) >= 4
      BY <1>8, <1>9, <1>10, <1>11, <1>12
    <2> QED BY <1>1, <1>5, <2>1 DEF Marked
  <1>14. \E x \in Decode(b, 1) :
          \/ x.value # Len(source) /\ Error
          \/ /\ x.value = Len(source)
             /\ \E y \in Decode(b, x.next) : \E z \in Decode(b, y.next) :
                  /\ targetSize' = y.value
                  /\ at' = z.next + z.value
                  /\ astray' = (z.next + z.value > Len(b))
             /\ pc' = "commands"
    BY <1>1, <1>13, Zenon DEF ReadHeader
  <1>15. PICK x \in Decode(b, 1) :
          \/ x.value # Len(source) /\ Error
          \/ /\ x.value = Len(source)
             /\ \E y \in Decode(b, x.next) : \E z \in Decode(b, y.next) :
                  /\ targetSize' = y.value
                  /\ at' = z.next + z.value
                  /\ astray' = (z.next + z.value > Len(b))
             /\ pc' = "commands"
    BY <1>14
  <1>16. x.value = k /\ x.next = q
    BY <1>9
  <1>17. Len(source) = k
    BY <1>2, <1>7
  <1>18. PICK y \in Decode(b, q) : \E z \in Decode(b, y.next) :
                  /\ targetSize' = y.value
                  /\ at' = z.next + z.value
                  /\ astray' = (z.next + z.value > Len(b))
    BY <1>15, <1>16, <1>17
  <1>19. y.value = m /\ y.next = r
    BY <1>10
  <1>20. PICK z \in Decode(b, r) :
                  /\ targetSize' = m
                  /\ at' = z.next + z.value
                  /\ astray' = (z.next + z.value > Len(b))
    BY <1>18, <1>19
  <1>21. z.value = 0 /\ z.next = h
    BY <1>11
  <1>22. at' = h /\ ~astray'
    <2>1. h + 0 = h /\ ~(h > Len(b))
      BY <1>8, <1>11, <1>12
    <2> QED BY <1>20, <1>21, <2>1
  <1>23. pc' = "commands"
    BY <1>15, <1>16, <1>17
  <1>24. Follows(s, t, b, h, 0, 0, <<>>)
    <2>1. Begin(s, t) = Stop(h, Len(<<>>), 0, 0)
      BY <1>7 DEF Begin
    <2>2. Agrees(<<>>, t)
      BY <1>7, <1>8 DEF Agrees
    <2>3. \E Q, end : /\ Route(b, s, t, Q, end) /\ end.p = Len(b) /\ end.o = Len(t)
                      /\ Stop(h, Len(<<>>), 0, 0) \in Q
      BY <1>3, <1>4, <2>1
    <2> QED BY <2>2, <2>3 DEF Follows
  <1> QED BY <1>1, <1>7, <1>20, <1>22, <1>23, <1>24

\* A command leads to the next stop.
LEMMA CommandFollows ==
  ASSUME TInv, Made, Sound, Followed, ReadCommand
  PROVE  /\ ~astray'
         /\ Follows(made.source, made.target, beat.body, at', sourceRelativeOffset',
                    targetRelativeOffset', target')
  <1>1. PICK s, t, b : s = made.source /\ t = made.target /\ b = beat.body
    OBVIOUS
  <1>2. /\ s \in Seq(Byte) /\ t \in Seq(Byte) /\ b \in Seq(Byte) /\ source = s
        /\ Len(s) < Limit /\ Len(t) <= Limit
    BY <1>1, SoundFacts
  <1>3. pc = "commands" /\ at < Len(b)
    BY <1>1 DEF ReadCommand
  <1>4. ~astray /\ Follows(s, t, b, at, sourceRelativeOffset, targetRelativeOffset, target)
    BY <1>1, <1>3 DEF Followed, Sound
  <1>5. PICK P, last : /\ Route(b, s, t, P, last) /\ last.p = Len(b) /\ last.o = Len(t)
                       /\ Stop(at, Len(target), sourceRelativeOffset, targetRelativeOffset) \in P
    BY <1>4 DEF Follows
  <1>6. PICK x : x = Stop(at, Len(target), sourceRelativeOffset, targetRelativeOffset)
    OBVIOUS
  <1>7. /\ x.p = at /\ x.o = Len(target) /\ x.s = sourceRelativeOffset
             /\ x.t = targetRelativeOffset
    BY <1>6 DEF Stop
  <1>8. target \in Seq(Byte) /\ at \in Nat /\ Len(b) \in Nat
    <2>1. target \in Seq(Byte)
      BY DEF TInv, Loaded
    <2>2. at \in Nat
      BY DEF TInv, Placed
    <2> QED BY <1>2, <2>1, <2>2
  <1>9. x # last
    BY <1>3, <1>5, <1>7, <1>8
  <1>10. PICK y \in P : Leads(b, s, t, x, y)
    BY <1>5, <1>6, <1>9 DEF Route
  <1>11. x \in Stops /\ y \in Stops
    BY <1>5, <1>6, <1>10 DEF Route
  <1>12. PICK n \in 1 .. Limit :
          /\ y.o = x.o + n /\ y.o <= Len(t)
          /\ \/ SourceReadAt(b, s, t, x, y, n) \/ TargetReadAt(b, s, t, x, y, n)
             \/ SourceCopyAt(b, s, t, x, y, n) \/ TargetCopyAt(b, s, t, x, y, n)
    BY <1>10 DEF Leads
  <1>13. Leading(s, t, x, y, n)
    <2>1. x.o \in Nat /\ x.s \in 0 .. Limit - 1 /\ x.t \in 0 .. Limit - 1
      BY <1>11 DEF Stops
    <2>2. Agrees(target, t)
      BY <1>4 DEF Follows
    <2>3. beat.body \in Seq(Byte) /\ source \in Seq(Byte)
      BY <1>1, <1>2
    <2> QED BY <1>2, <1>4, <1>7, <1>8, <1>11, <1>12, <2>1, <2>2, <2>3 DEF Leading
  <1>14. Led(t, y)
    BY <1>1, <1>12, <1>13, SourceReadLeads, TargetReadLeads, SourceCopyLeads, TargetCopyLeads
  <1>15. Stop(at', Len(target'), sourceRelativeOffset', targetRelativeOffset') = y
    BY <1>11, <1>14 DEF Led, Wrote, Stop, Stops
  <1>16. \E Q, end : /\ Route(b, s, t, Q, end) /\ end.p = Len(b) /\ end.o = Len(t)
                     /\ Stop(at', Len(target'), sourceRelativeOffset', targetRelativeOffset') \in Q
    BY <1>5, <1>10, <1>15
  <1>17. Agrees(target', t) /\ ~astray'
    BY <1>14 DEF Led, Wrote
  <1> QED BY <1>1, <1>16, <1>17 DEF Follows

\* Files that agree to their ends are the same.
LEMMA AgreesEnds ==
  ASSUME NEW a \in Seq(Byte), NEW t \in Seq(Byte), Agrees(a, t)
  PROVE  IsPrefix(a, t) /\ (Len(a) = Len(t) => a = t)
  <1>1. Len(a) \in Nat /\ Len(t) \in Nat
          /\ Len(a) <= Len(t) /\ \A i \in 1 .. Len(a) : a[i] = t[i]
    BY DEF Agrees
  <1>2. SubSeq(a, 1, Len(a)) = SubSeq(t, 1, Len(a))
    <2>1. PICK c, d : c = SubSeq(a, 1, Len(a)) /\ d = SubSeq(t, 1, Len(a))
      OBVIOUS
    <2>2. c \in Seq(Byte) /\ d \in Seq(Byte) /\ Len(c) = Len(a) /\ Len(d) = Len(a)
      BY <1>1, <2>1
    <2>3. \A i \in 1 .. Len(a) : c[i] = a[i] /\ d[i] = t[i]
      BY <1>1, <2>1
    <2>4. \A i \in 1 .. Len(c) : c[i] = d[i]
      BY <1>1, <2>2, <2>3
    <2>5. c = d
      BY <2>2, <2>4
    <2> QED BY <2>1, <2>5
  <1>3. Len(a) = Len(t) => a = t
    BY <1>1
  <1> QED BY <1>1, <1>2, <1>3 DEF IsPrefix

\* At the last stop everything is there, and the sums are found to be right.
LEMMA CheckEnds ==
  ASSUME TInv, Made, Sound, Followed, Check
  PROVE  result' = "success" /\ target = made.target
  <1>1. PICK s, t, b : s = made.source /\ t = made.target /\ b = beat.body
    OBVIOUS
  <1>2. /\ s \in Seq(Byte) /\ t \in Seq(Byte) /\ b \in Seq(Byte) /\ source = s
        /\ beat.sums = Sums(s, t, b)
    BY <1>1, SoundFacts
  <1>3. pc = "commands" /\ at >= Len(b)
    BY <1>1 DEF Check
  <1>4. /\ targetSize = Len(t)
        /\ Follows(s, t, b, at, sourceRelativeOffset, targetRelativeOffset, target)
    BY <1>1, <1>3 DEF Followed, Sound
  <1>5. PICK P, last : /\ Route(b, s, t, P, last) /\ last.p = Len(b) /\ last.o = Len(t)
                       /\ Stop(at, Len(target), sourceRelativeOffset, targetRelativeOffset) \in P
    BY <1>4 DEF Follows
  <1>6. PICK x : x = Stop(at, Len(target), sourceRelativeOffset, targetRelativeOffset)
    OBVIOUS
  <1>7. x.p = at /\ x.o = Len(target)
    BY <1>6 DEF Stop
  <1>8. target \in Seq(Byte) /\ at \in Nat /\ Len(b) \in Nat
    <2>1. target \in Seq(Byte)
      BY DEF TInv, Loaded
    <2>2. at \in Nat
      BY DEF TInv, Placed
    <2> QED BY <1>2, <2>1, <2>2
  <1>9. x = last
    <2>1. ~(x.p < Len(b))
      BY <1>3, <1>7, <1>8
    <2> QED BY <1>5, <1>6, <2>1 DEF Route
  <1>10. at = Len(b) /\ Len(target) = Len(t)
    BY <1>5, <1>7, <1>9
  <1>11. target = t
    BY <1>2, <1>4, <1>8, <1>10, AgreesEnds DEF Follows
  <1>12. Checked
    <2>1. ReadSums = Sums(s, t, b)
      BY <1>1, <1>2, <1>10 DEF ReadSums
    <2> QED BY <1>1, <1>2, <1>4, <1>10, <1>11, <2>1 DEF Checked, Sums
  <1> QED BY <1>1, <1>11, <1>12 DEF Check

\* A replay goes on from place to place.
LEMMA ReplayStep ==
  ASSUME TInv, Replaying, ReadHeader \/ ReadCommand \/ Check
  PROVE  Replaying'
  <1>1. /\ UNCHANGED <<made, source, beat>> /\ pc \in {"header", "commands"}
        /\ pc' \in {"commands", "decide"}
    BY DEF ReadHeader, Error, ReadCommand, Check
  <1>2. Made'
    BY <1>1, MadeKept DEF Replaying
  <1>3. Resting' /\ Grown'
    BY <1>1 DEF Resting, Grown, Creating
  <1> SUFFICES ASSUME Sound
               PROVE  Followed' /\ Done'
    BY <1>1, <1>2, <1>3, SoundKept DEF Replaying
  <1>4. CASE ReadHeader
    <2>1. /\ pc' = "commands" /\ ~astray' /\ targetSize' = Len(made.target)
          /\ Follows(made.source, made.target, beat.body, at', 0, 0, <<>>)
      BY <1>4, HeaderFollows DEF Replaying
    <2>2. /\ target' = <<>> /\ sourceRelativeOffset' = 0 /\ targetRelativeOffset' = 0
      BY <1>4 DEF Replaying, Resting, ReadHeader
    <2>3. Follows(made'.source, made'.target, beat'.body, at', sourceRelativeOffset',
                  targetRelativeOffset', target')
      BY <1>1, <2>1, <2>2
    <2> QED BY <1>1, <2>1, <2>3 DEF Followed, Done
  <1>5. CASE ReadCommand
    <2>1. /\ ~astray'
          /\ Follows(made.source, made.target, beat.body, at', sourceRelativeOffset',
                    targetRelativeOffset', target')
      BY <1>5, CommandFollows DEF Replaying
    <2>2. pc = "commands" /\ pc' = "commands" /\ UNCHANGED targetSize
      BY <1>5 DEF ReadCommand
    <2>3. targetSize = Len(made.target)
      BY <2>2 DEF Replaying, Followed, Sound
    <2> QED BY <1>1, <2>1, <2>2, <2>3 DEF Followed, Done
  <1>6. CASE Check
    <2>1. result' = "success" /\ target = made.target
      BY <1>6, CheckEnds DEF Replaying
    <2>2. pc = "commands" /\ pc' = "decide" /\ UNCHANGED <<target, targetSize, astray>>
      BY <1>6 DEF Check
    <2>3. ~astray /\ targetSize = Len(made.target)
      BY <2>2 DEF Replaying, Followed, Sound
    <2>4. IsPrefix(target, made.target)
      <3>1. made.target \in Seq(Byte)
        BY SoundFacts DEF Replaying
      <3>2. Len(made.target) \in Nat /\ Len(made.target) <= Len(made.target)
        BY <3>1
      <3> QED BY <2>1, <3>2 DEF IsPrefix
    <2> QED BY <1>1, <2>1, <2>2, <2>3, <2>4 DEF Followed, Done, ReplaysTarget
  <1> QED BY <1>4, <1>5, <1>6

\* Nothing has been made at first.
LEMMA ReplayBegins ==
  ASSUME Init
  PROVE  Replaying
  BY DEF Init, Replaying, Resting, Grown, Made, Followed, Done, Creating

\* So it holds wherever the suffixes are in their order.
LEMMA ReplayStays ==
  ASSUME TInv, SuffixesOrdered, Replaying, [Next]_vars
  PROVE  Replaying'
  <1>1. CASE UNCHANGED vars
    BY <1>1 DEF vars, memory, Replaying, Resting, Grown, Here, Made, Followed, Done, Creating,
                Pristine, Small, ReplaysTarget
  <1>2. CASE StartApply
    <2>1. /\ pc = "idle" /\ pc' = "header"
          /\ UNCHANGED <<made, target, sourceRelativeOffset, targetRelativeOffset>>
      BY <1>2 DEF StartApply
    <2>2. Made'
      BY <2>1, MadeKept DEF Replaying
    <2> QED BY <2>1, <2>2 DEF Replaying, Resting, Grown, Followed, Done, Creating
  <1>3. CASE Fault \/ Decide \/ Crash
    <2>1. pc' = "idle" /\ Idle /\ UNCHANGED made
      BY <1>3 DEF Fault, Decide, Crash
    <2> QED BY <2>1, MadeKept, BackResting DEF Replaying
  <1>4. CASE Damage \/ Exchange
    <2>1. pc = "idle"
            /\ UNCHANGED <<made, pc, target, sourceRelativeOffset, targetRelativeOffset>>
      BY <1>4 DEF Damage, Exchange, memory
    <2>2. Made'
      BY <2>1, MadeKept DEF Replaying
    <2> QED BY <2>1, <2>2 DEF Replaying, Resting, Grown, Followed, Done, Creating
  <1> QED BY <1>1, <1>2, <1>3, <1>4, StartCreateReplays, BuildTableReplays, CreateReplays,
             FinishCreateReplays, ReplayStep DEF Next, Works

\* Where the suffixes are in their order, a patch that is replayed over the file
\* it was made from reads nothing outside of its files, writes the modified file
\* byte after byte and ends with it.
THEOREM ReplaysCorrect == Spec /\ []SuffixesOrdered => []ReplaysTarget
  <1>1. TInv /\ Replaying => ReplaysTarget
    <2> SUFFICES ASSUME TInv, Replaying, pc = "commands", Pristine, Small
                 PROVE  /\ ~astray /\ IsPrefix(target, made.target)
                        /\ targetSize = Len(made.target)
      BY DEF ReplaysTarget, Replaying, Done
    <2>1. /\ ~astray /\ targetSize = Len(made.target)
          /\ Agrees(target, made.target)
      BY DEF Replaying, Followed, Follows
    <2>2. made.target \in Seq(Byte)
      BY DEF Replaying, Made, Pristine
    <2>3. target \in Seq(Byte)
      BY DEF TInv, Loaded
    <2> QED BY <2>1, <2>2, <2>3, AgreesEnds
  <1>2. Init => Replaying
    BY ReplayBegins
  <1>3. TInv /\ SuffixesOrdered /\ Replaying /\ [Next]_vars => Replaying'
    BY ReplayStays
  <1> QED BY <1>1, <1>2, <1>3, TypesStay, PTL DEF Spec
=============================================================================
