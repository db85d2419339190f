---------------------------- MODULE BackupProofs ----------------------------
(***************************************************************************)
(* The safety of restoring and of backing up.                              *)
(*                                                                         *)
(* Restore, for any number of presses and versions: one that is reported   *)
(* as done has run its script to the end, alone, over nothing that was     *)
(* there before.  A script gets past its first statement only on an empty  *)
(* database, which it then is not any more, so only one script is at work, *)
(* on what it has made itself and on what handlers commit into that.       *)
(*                                                                         *)
(* Backup, for any number of jobs, files to keep, versions and seconds: a  *)
(* name tells what the file holds, and a file is lost only to newer ones.  *)
(* A name is taken before the snapshot and nothing is committed in the     *)
(* past, so what had been committed before the name is in the dump.  Names *)
(* are the files' own and every change of the directory leaves the other   *)
(* files in their order, so the last places hold as many different files.  *)
(***************************************************************************)
EXTENDS Restore, Backup, FiniteSetTheorems, SequenceTheorems, TLAPS

-----------------------------------------------------------------------------
(* Restore.                                                                 *)

\* Who loads has read a file, works on a part of it, with or without commits of handlers,
\* and is alone.
OneLoads ==
    \A p \in Presses : At(p, "loading") =>
        /\ db \in {Part, Amended}
        /\ press[p].file \in Contents
        /\ \A q \in Presses : At(q, "loading") => q = p

\* Only a press that has read a file gets to psql.
LoadsFile == \A p \in Presses : At(p, "load") => press[p].file \in Contents

IInv == TypeOK /\ OneLoads /\ LoadsFile

LEMMA ContentsFacts ==
    /\ 0 \in Version /\ Version \subseteq Nat
    /\ {NoSchema, Part, Amended} \subseteq Contents /\ None \notin Contents
    /\ NoSchema \notin {Part, Amended} /\ Version \cap {NoSchema, Part, Amended} = {}
  BY RestoreAssumption DEF Version, Contents

LEMMA InitInv == Init => IInv
  BY ContentsFacts DEF Init, IInv, TypeOK, OneLoads, LoadsFile, At, NoFlow, Contents, Pc

\* A step of the flow or of the surroundings, which leaves the presses alone.
LEMMA SurroundingsKeep ==
    ASSUME IInv,
           \/ \E f \in backups \cup {Part} : AskRestore(f)
           \/ SaveFile \/ CancelRestore \/ DropFile \/ Commit \/ Dump \/ DropSchema \/ Launch
           \/ UNCHANGED vars
    PROVE  IInv'
  <1>1. ASSUME NEW f \in backups \cup {Part}, AskRestore(f) PROVE IInv'
    BY <1>1, ContentsFacts DEF AskRestore, IInv, TypeOK, OneLoads, LoadsFile, At
  <1>2. CASE SaveFile
    BY <1>2 DEF SaveFile, IInv, TypeOK, OneLoads, LoadsFile, At
  <1>3. CASE CancelRestore
    BY <1>3 DEF CancelRestore, IInv, TypeOK, OneLoads, LoadsFile, At
  <1>4. CASE Commit
    <2>1. /\ db' \in Contents
          /\ db \in {Part, Amended} => db' \in {Part, Amended}
      BY <1>4, RestoreAssumption, ContentsFacts DEF Commit, Version, Contents
    <2>2. UNCHANGED <<up, backups, flow, press>>
      BY <1>4 DEF Commit
    <2> QED
      BY <2>1, <2>2 DEF IInv, TypeOK, OneLoads, LoadsFile, At
  <1>5. CASE Dump
    BY <1>5 DEF Dump, IInv, TypeOK, OneLoads, LoadsFile, At
  <1>6. CASE DropSchema
    BY <1>6, ContentsFacts DEF DropSchema, IInv, TypeOK, OneLoads, LoadsFile, At
  <1>7. CASE Launch
    BY <1>7, ContentsFacts DEF Launch, Contents, IInv, TypeOK, OneLoads, LoadsFile, At
  <1>8. CASE UNCHANGED vars
    BY <1>8 DEF vars, IInv, TypeOK, OneLoads, LoadsFile, At
  <1>9. CASE DropFile
    BY <1>9 DEF DropFile, IInv, TypeOK, OneLoads, LoadsFile, At
  <1> QED
    BY <1>1, <1>2, <1>3, <1>4, <1>5, <1>6, <1>7, <1>8, <1>9

LEMMA ExitKeeps ==
    ASSUME IInv, Exit
    PROVE  IInv'
  <1> DEFINE P == [pc: Pc, file: Contents \cup {None}]
  <1>1. press \in [Presses -> P]
    BY DEF IInv, TypeOK
  <1>2. press' = [p \in Presses |->
                    IF press[p].pc \in Working THEN [press[p] EXCEPT !.pc = "failed"] ELSE press[p]]
    BY DEF Exit
  <1>3. \A p \in Presses : /\ press'[p] \in P
                           /\ press'[p].pc # "loading" /\ press'[p].pc # "load"
    <2>1. "failed" \in Pc /\ "loading" \in Working /\ "load" \in Working
      BY DEF Pc, Working
    <2> QED
      BY <1>1, <1>2, <2>1
  <1>4. press' \in [Presses -> P]
    BY <1>2, <1>3
  <1> QED
    BY <1>3, <1>4 DEF Exit, IInv, TypeOK, OneLoads, LoadsFile, At

LEMMA PressKeeps ==
    ASSUME IInv, NEW p \in Presses,
           \/ ConfirmRestore(p) \/ ReadFlow(p) \/ ClearFlow(p) \/ ClearData(p)
           \/ Load(p) \/ Loaded(p) \/ RestoreFails(p)
    PROVE  IInv'
  <1> USE DEF IInv, TypeOK, OneLoads, LoadsFile, At, Pc, Working
  <1>1. CASE ConfirmRestore(p)
    BY <1>1 DEF ConfirmRestore
  <1>2. CASE ReadFlow(p)
    BY <1>2 DEF ReadFlow
  <1>3. CASE ClearFlow(p)
    BY <1>3 DEF ClearFlow
  <1>4. CASE ClearData(p)
    BY <1>4 DEF ClearData
  <1>5. CASE Load(p)
    <2>1. CASE press[p].file = NoSchema \/ db # NoSchema
      BY <1>5, <2>1 DEF Load
    <2>2. CASE press[p].file # NoSchema /\ db = NoSchema
      <3>1. \A q \in Presses : ~At(q, "loading")
        BY <2>2, ContentsFacts
      <3> QED
        BY <1>5, <2>2, <3>1, ContentsFacts DEF Load
    <2> QED
      BY <2>1, <2>2
  <1>6. CASE Loaded(p)
    BY <1>6, ContentsFacts DEF Loaded
  <1>7. CASE RestoreFails(p)
    BY <1>7 DEF RestoreFails
  <1> QED
    BY <1>1, <1>2, <1>3, <1>4, <1>5, <1>6, <1>7

LEMMA NextInv == IInv /\ [Next]_vars => IInv'
  BY SurroundingsKeep, ExitKeeps, PressKeeps DEF Next

\* At most one script is at work, and the database is a part then, with or without commits.
THEOREM Invariance == Spec => []IInv
  BY InitInv, NextInv, PTL DEF Spec

\* The flow, the presses and the database are well typed.
THEOREM TypeCorrect == Spec => []TypeOK
  <1>1. IInv => TypeOK
    BY DEF IInv
  <1> QED
    BY <1>1, Invariance, PTL

\* A restore that is reported as done has put its file in place, alone and over nothing,
\* with what handlers have committed meanwhile.
THEOREM DoneIsDone == Spec => RestoredIsThere
  <1> DEFINE A == \A p \in Presses :
                    ~At(p, "restored") /\ At(p, "restored")' /\ press[p].file # NoSchema
                    => /\ db \in {Part, Amended}
                       /\ db' = press[p].file \/ (db = Amended /\ db' = Amended)
                       /\ \A q \in Presses : ~At(q, "loading")'
  <1>1. IInv /\ [Next]_vars => [A]_vars
    <2> SUFFICES ASSUME IInv, Next, NEW p \in Presses,
                        press[p].pc # "restored", press'[p].pc = "restored", press[p].file # NoSchema
                 PROVE  /\ db \in {Part, Amended}
                        /\ db' = press[p].file \/ (db = Amended /\ db' = Amended)
                        /\ \A q \in Presses : press'[q].pc # "loading"
      BY DEF At
    <2>1. press \in [Presses -> [pc: Pc, file: Contents \cup {None}]]
      BY DEF IInv, TypeOK
    <2>2. Loaded(p)
      <3>1. ~Exit
        BY <2>1 DEF Exit
      <3>2. \A q \in Presses : \/ ConfirmRestore(q) \/ ReadFlow(q) \/ ClearFlow(q)
                               \/ ClearData(q) \/ RestoreFails(q)
                               => press'[p].pc # "restored"
        BY <2>1 DEF ConfirmRestore, ReadFlow, ClearFlow, ClearData, RestoreFails
      <3>3. \A q \in Presses : ~Load(q)
        BY <2>1 DEF Load
      <3>4. \A q \in Presses : Loaded(q) => q = p
        BY <2>1 DEF Loaded
      <3> QED
        BY <3>1, <3>2, <3>3, <3>4 DEF Next, AskRestore, SaveFile, CancelRestore, DropFile, Commit,
           Dump, DropSchema, Launch
    <2> QED
      BY <2>1, <2>2 DEF Loaded, At, IInv, OneLoads
  <1> QED
    BY <1>1, Invariance, PTL DEF Spec, RestoredIsThere

-----------------------------------------------------------------------------
(* The files of the backups.                                                *)

FileRecord == [name: Time, holds: Versions \cup {Nothing}]

Distinct(fs) == \A i, k \in 1..Len(fs) : fs[i].name = fs[k].name => i = k

\* g tells for each place of the sequence to which place of the sequence from it belongs.
TakenFrom(to, from, g) ==
    /\ g \in [1..Len(to) -> 1..Len(from)]
    /\ \A i, k \in 1..Len(to) : i < k => g[i] < g[k]
    /\ \A i \in 1..Len(to) : to[i] = from[g[i]]

\* What a sequence is without one of its places.
LEMMA WithoutOne ==
    ASSUME NEW S, NEW s \in Seq(S), NEW i \in 1..Len(s)
    PROVE  /\ RemoveAt(s, i) \in Seq(S)
           /\ Len(RemoveAt(s, i)) = Len(s) - 1
           /\ \A k \in 1..(Len(s) - 1) : RemoveAt(s, i)[k] = IF k < i THEN s[k] ELSE s[k + 1]
  <1> DEFINE a == SubSeq(s, 1, i - 1)
             b == SubSeq(s, i + 1, Len(s))
  <1>1. Len(s) \in Nat /\ i \in Nat /\ i <= Len(s) /\ 1 <= i
    OBVIOUS
  <1>2. /\ a \in Seq(S) /\ Len(a) = i - 1
        /\ \A k \in 1..(i - 1) : a[k] = s[k]
    <2>1. \A k \in 1..(i - 1) : s[k] \in S
      BY <1>1
    <2> QED
      BY <1>1, <2>1, SubSeqProperties
  <1>3. /\ b \in Seq(S) /\ Len(b) = Len(s) - i
        /\ \A k \in 1..(Len(s) - i) : b[k] = s[i + k]
    <2>1. \A k \in (i + 1)..Len(s) : s[k] \in S
      BY <1>1
    <2>2. /\ b \in Seq(S)
          /\ Len(b) = IF i + 1 <= Len(s) THEN Len(s) - (i + 1) + 1 ELSE 0
          /\ \A k \in 1..(Len(s) - (i + 1) + 1) : b[k] = s[(i + 1) + k - 1]
      BY <1>1, <2>1, SubSeqProperties
    <2> QED
      BY <1>1, <2>2
  <1>4. /\ a \o b \in Seq(S) /\ Len(a \o b) = Len(a) + Len(b)
        /\ \A k \in 1..(Len(a) + Len(b)) : (a \o b)[k] = IF k <= Len(a) THEN a[k] ELSE b[k - Len(a)]
    BY <1>2, <1>3, ConcatProperties
  <1>5. RemoveAt(s, i) = a \o b
    BY DEF RemoveAt
  <1> HIDE DEF a, b
  <1>6. \A k \in 1..(Len(s) - 1) : (a \o b)[k] = IF k < i THEN s[k] ELSE s[k + 1]
    <2> SUFFICES ASSUME NEW k \in 1..(Len(s) - 1)
                 PROVE  (a \o b)[k] = IF k < i THEN s[k] ELSE s[k + 1]
      OBVIOUS
    <2>1. CASE k < i
      BY <1>1, <1>2, <1>3, <1>4, <2>1
    <2>2. CASE k >= i
      <3>1. /\ k - (i - 1) \in 1..(Len(s) - i)
            /\ i + (k - (i - 1)) = k + 1
        BY <1>1, <2>2
      <3>2. (a \o b)[k] = b[k - (i - 1)]
        BY <1>1, <1>2, <1>3, <1>4, <2>2
      <3>3. b[k - (i - 1)] = s[i + (k - (i - 1))]
        BY <1>3, <3>1
      <3>4. (a \o b)[k] = s[k + 1] /\ ~(k < i)
        BY <1>1, <2>2, <3>1, <3>2, <3>3
      <3> QED
        BY <3>4
    <2>3. k < i \/ k >= i
      BY <1>1
    <2> QED
      BY <2>1, <2>2, <2>3
  <1>7. Len(a \o b) = Len(s) - 1
    BY <1>1, <1>2, <1>3, <1>4
  <1> QED
    BY <1>4, <1>5, <1>6, <1>7

\* A backup that is written comes last; the files of other names stay, in their order.
LEMMA WrittenFacts ==
    ASSUME files \in Seq(FileRecord), Distinct(files),
           NEW name \in Time, NEW holds \in Versions \cup {Nothing}
    PROVE  /\ Written(name, holds) \in Seq(FileRecord)
           /\ Len(Written(name, holds)) > 0
           /\ Last(Written(name, holds)) = [name |-> name, holds |-> holds]
           /\ Distinct(Written(name, holds))
           /\ \E rest \in Seq(FileRecord) : \E g :
                 /\ Len(Written(name, holds)) = Len(rest) + 1
                 /\ \A i \in 1..Len(rest) : Written(name, holds)[i] = rest[i]
                 /\ TakenFrom(rest, files, g)
                 /\ \A i \in 1..Len(files) :
                       files[i].name # name => \E k \in 1..Len(rest) : g[k] = i
  <1> DEFINE rec == [name |-> name, holds |-> holds]
             rest == RemoveFirstMatch(files, LAMBDA f : f.name = name)
  <1>1. rec \in FileRecord /\ rec.name = name
    BY DEF FileRecord
  <1>2. \E g : /\ rest \in Seq(FileRecord)
               /\ TakenFrom(rest, files, g)
               /\ \A i \in 1..Len(files) : files[i].name # name => \E k \in 1..Len(rest) : g[k] = i
               /\ \A i \in 1..Len(rest) : rest[i].name # name
    <2>1. CASE \A i \in 1..Len(files) : files[i].name # name
      <3>1. rest = files
        BY <2>1 DEF RemoveFirstMatch
      <3> HIDE DEF rest
      <3> DEFINE id == [i \in 1..Len(files) |-> i]
      <3>2. TakenFrom(rest, files, id)
        BY <3>1 DEF TakenFrom
      <3> QED
        BY <2>1, <3>1, <3>2
    <2>2. CASE \E i \in 1..Len(files) : files[i].name = name
      <3>1. PICK c \in 1..Len(files) : files[c].name = name
        BY <2>2
      <3>2. \A i \in 1..Len(files) : files[i].name = name => i = c
        BY <3>1 DEF Distinct
      <3>3. rest = RemoveAt(files, c)
        <4>1. SelectInSeq(files, LAMBDA f : f.name = name) = c
          <5>1. {i \in 1..Len(files) : files[i].name = name} = {c}
            BY <3>1, <3>2
          <5>2. (CHOOSE x \in {c} : \A y \in {c} : x =< y) = c
            BY <3>1
          <5> QED
            BY <5>1, <5>2 DEF SelectInSeq, Min
        <4> QED
          BY <3>1, <4>1 DEF RemoveFirstMatch
      <3> HIDE DEF rest
      <3> DEFINE g == [k \in 1..(Len(files) - 1) |-> IF k < c THEN k ELSE k + 1]
      <3>4. /\ rest \in Seq(FileRecord) /\ Len(rest) = Len(files) - 1
            /\ \A k \in 1..(Len(files) - 1) : rest[k] = IF k < c THEN files[k] ELSE files[k + 1]
        BY <3>3, WithoutOne
      <3>5. Len(files) \in Nat /\ c \in Nat /\ 1 <= c /\ c <= Len(files)
        BY <3>1
      <3>6. g \in [1..Len(rest) -> 1..Len(files)]
        BY <3>4, <3>5
      <3>7. \A k \in 1..Len(rest) : g[k] = (IF k < c THEN k ELSE k + 1) /\ g[k] # c
        BY <3>4, <3>5
      <3>8. \A i \in 1..Len(files) : i # c => \E k \in 1..Len(rest) : g[k] = i
        <4> SUFFICES ASSUME NEW i \in 1..Len(files), i # c
                     PROVE  \E k \in 1..Len(rest) : g[k] = i
          OBVIOUS
        <4>1. CASE i < c
          BY <3>4, <3>5, <3>7, <4>1
        <4>2. CASE i > c
          <5>1. i - 1 \in 1..Len(rest) /\ ~(i - 1 < c) /\ (i - 1) + 1 = i
            BY <3>4, <3>5, <4>2
          <5> QED
            BY <3>7, <5>1
        <4>3. i < c \/ i > c
          BY <3>5
        <4> QED
          BY <4>1, <4>2, <4>3
      <3> HIDE DEF g
      <3>9. \A k \in 1..Len(rest) : rest[k] = files[g[k]]
        BY <3>4, <3>7
      <3>10. \A i, k \in 1..Len(rest) : i < k => g[i] < g[k]
        BY <3>4, <3>5, <3>7
      <3>11. TakenFrom(rest, files, g)
        BY <3>6, <3>9, <3>10 DEF TakenFrom
      <3>12. \A i \in 1..Len(rest) : rest[i].name # name
        BY <3>2, <3>6, <3>7, <3>9
      <3> QED
        BY <3>1, <3>4, <3>8, <3>11, <3>12
    <2> QED
      BY <2>1, <2>2
  <1>3. PICK g : /\ rest \in Seq(FileRecord)
                 /\ TakenFrom(rest, files, g)
                 /\ \A i \in 1..Len(files) : files[i].name # name => \E k \in 1..Len(rest) : g[k] = i
                 /\ \A i \in 1..Len(rest) : rest[i].name # name
    BY <1>2
  <1>4. Written(name, holds) = Append(rest, rec)
    BY DEF Written
  <1> HIDE DEF rest, rec
  <1>5. /\ Append(rest, rec) \in Seq(FileRecord)
        /\ Len(Append(rest, rec)) = Len(rest) + 1
        /\ \A i \in 1..Len(rest) : Append(rest, rec)[i] = rest[i]
        /\ Append(rest, rec)[Len(rest) + 1] = rec
    BY <1>1, <1>3, AppendProperties
  <1>6. Distinct(Append(rest, rec))
    <2> SUFFICES ASSUME NEW i \in 1..(Len(rest) + 1), NEW k \in 1..(Len(rest) + 1),
                        Append(rest, rec)[i].name = Append(rest, rec)[k].name
                 PROVE  i = k
      BY <1>5 DEF Distinct
    <2>1. Len(rest) \in Nat
      BY <1>3
    <2>2. CASE i \in 1..Len(rest) /\ k \in 1..Len(rest)
      <3>1. g[i] \in 1..Len(files) /\ g[k] \in 1..Len(files) /\ files[g[i]].name = files[g[k]].name
        BY <1>3, <1>5, <2>2 DEF TakenFrom
      <3>2. g[i] = g[k]
        BY <3>1 DEF Distinct
      <3>3. ~(g[i] < g[k]) /\ ~(g[k] < g[i])
        BY <3>1, <3>2
      <3> QED
        BY <1>3, <2>1, <2>2, <3>3 DEF TakenFrom
    <2>3. CASE i \notin 1..Len(rest) /\ k \in 1..Len(rest)
      <3>1. Append(rest, rec)[i] = rec
        BY <1>5, <2>1, <2>3
      <3> QED
        BY <1>1, <1>3, <1>5, <2>3, <3>1
    <2>4. CASE i \in 1..Len(rest) /\ k \notin 1..Len(rest)
      <3>1. Append(rest, rec)[k] = rec
        BY <1>5, <2>1, <2>4
      <3> QED
        BY <1>1, <1>3, <1>5, <2>4, <3>1
    <2> QED
      BY <2>1, <2>2, <2>3, <2>4
  <1> USE DEF rec
  <1> QED
    BY <1>3, <1>4, <1>5, <1>6 DEF Last

\* What remains of some files are files in the same order.
LEMMA RemainsFacts ==
    ASSUME NEW S, NEW fs \in Seq(S), NEW left \in Remains(fs)
    PROVE  left \in Seq(S) /\ \E g : TakenFrom(left, fs, g)
  <1>1. PICK g : /\ g \in UNION {[1..k -> 1..Len(fs)] : k \in 0..Len(fs)}
                 /\ \A i, k \in DOMAIN g : i < k => g[i] < g[k]
                 /\ left = [k \in DOMAIN g |-> fs[g[k]]]
    BY DEF Remains
  <1>2. PICK n \in 0..Len(fs) : g \in [1..n -> 1..Len(fs)]
    BY <1>1
  <1>3. left \in [1..n -> S] /\ n \in Nat
    BY <1>1, <1>2
  <1>4. left \in Seq(S)
    BY <1>3, IsASeq
  <1>5. Len(left) = n
    BY <1>3, <1>4
  <1> QED
    BY <1>1, <1>2, <1>4, <1>5 DEF TakenFrom

\* The last Keep files outlive the pruning, and the others keep their order.
LEMMA PruningFacts ==
    ASSUME NEW S, NEW fs \in Seq(S), NEW pruned \in Prunings(fs)
    PROVE  /\ pruned \in Seq(S)
           /\ \E g : TakenFrom(pruned, fs, g)
           /\ Len(fs) > 0 => Len(pruned) > 0 /\ Last(pruned) = Last(fs)
           /\ \A i \in 1..Len(fs) : i + Keep > Len(fs) => \E k \in 1..Len(pruned) : pruned[k] = fs[i]
  <1>1. Len(fs) \in Nat /\ Keep \in Nat /\ Keep > 0
    BY BackupAssumption
  <1>2. CASE Len(fs) <= Keep
    <2>1. pruned = fs
      BY <1>2 DEF Prunings
    <2> DEFINE id == [i \in 1..Len(fs) |-> i]
    <2>2. TakenFrom(pruned, fs, id)
      BY <2>1 DEF TakenFrom
    <2> QED
      BY <2>1, <2>2
  <1>3. CASE Len(fs) > Keep
    <2> DEFINE n == Len(fs) - Keep
               old == SubSeq(fs, 1, n)
               kept == SubSeq(fs, n + 1, Len(fs))
    <2>1. n \in Nat /\ n > 0 /\ n < Len(fs) /\ n + Keep = Len(fs)
      BY <1>1, <1>3
    <2>2. PICK left \in Remains(old) : pruned = left \o kept
      <3>1. ~(Len(fs) <= Keep)
        BY <1>1, <1>3
      <3> QED
        BY <3>1 DEF Prunings
    <2> HIDE DEF n
    <2>3. /\ old \in Seq(S) /\ Len(old) = n
          /\ \A i \in 1..n : old[i] = fs[i]
      <3>1. \A i \in 1..n : fs[i] \in S
        BY <1>1, <2>1
      <3> QED
        BY <2>1, <3>1, SubSeqProperties
    <2>4. /\ kept \in Seq(S) /\ Len(kept) = Keep
          /\ \A i \in 1..Keep : kept[i] = fs[n + i]
      <3>1. \A i \in (n + 1)..Len(fs) : fs[i] \in S
        BY <1>1, <2>1
      <3>2. /\ kept \in Seq(S)
            /\ Len(kept) = IF n + 1 <= Len(fs) THEN Len(fs) - (n + 1) + 1 ELSE 0
            /\ \A i \in 1..(Len(fs) - (n + 1) + 1) : kept[i] = fs[(n + 1) + i - 1]
        BY <1>1, <2>1, <3>1, SubSeqProperties
      <3>3. Len(fs) - (n + 1) + 1 = Keep /\ n + 1 <= Len(fs)
        BY <1>1, <2>1
      <3>4. \A i \in 1..Keep : (n + 1) + i - 1 = n + i
        BY <1>1, <2>1
      <3> QED
        BY <3>2, <3>3, <3>4
    <2> HIDE DEF old, kept
    <2>5. PICK h : left \in Seq(S) /\ TakenFrom(left, old, h)
      BY <2>2, <2>3, RemainsFacts
    <2>6. Len(left) \in Nat
      BY <2>5
    <2>7. /\ pruned \in Seq(S) /\ Len(pruned) = Len(left) + Keep
          /\ \A i \in 1..(Len(left) + Keep) :
                pruned[i] = IF i <= Len(left) THEN left[i] ELSE kept[i - Len(left)]
      BY <2>2, <2>4, <2>5, ConcatProperties
    <2> DEFINE g == [i \in 1..Len(pruned) |-> IF i <= Len(left) THEN h[i] ELSE n + (i - Len(left))]
    <2>8. \A i \in 1..Len(pruned) :
             \/ /\ i \in 1..Len(left) /\ i <= Len(left) /\ pruned[i] = left[i]
                /\ g[i] = h[i] /\ h[i] \in 1..n
             \/ /\ ~(i <= Len(left)) /\ i - Len(left) \in 1..Keep
                /\ pruned[i] = kept[i - Len(left)] /\ g[i] = n + (i - Len(left))
      <3> SUFFICES ASSUME NEW i \in 1..Len(pruned)
                   PROVE  \/ /\ i \in 1..Len(left) /\ i <= Len(left) /\ pruned[i] = left[i]
                             /\ g[i] = h[i] /\ h[i] \in 1..n
                          \/ /\ ~(i <= Len(left)) /\ i - Len(left) \in 1..Keep
                             /\ pruned[i] = kept[i - Len(left)] /\ g[i] = n + (i - Len(left))
        OBVIOUS
      <3>1. i \in 1..(Len(left) + Keep)
        BY <2>7
      <3>2. CASE i <= Len(left)
        <4>1. i \in 1..Len(left)
          BY <1>1, <2>6, <3>1, <3>2
        <4>2. h[i] \in 1..n
          BY <2>3, <2>5, <4>1 DEF TakenFrom
        <4> QED
          BY <2>7, <3>1, <3>2, <4>1, <4>2
      <3>3. CASE ~(i <= Len(left))
        <4>1. i - Len(left) \in 1..Keep
          BY <1>1, <2>6, <3>1, <3>3
        <4> QED
          BY <2>7, <3>1, <3>3, <4>1
      <3> QED
        BY <3>2, <3>3
    <2>9. g \in [1..Len(pruned) -> 1..Len(fs)]
      <3> SUFFICES ASSUME NEW i \in 1..Len(pruned) PROVE g[i] \in 1..Len(fs)
        OBVIOUS
      <3> QED
        BY <1>1, <2>1, <2>8
    <2>10. \A i \in 1..Len(pruned) : pruned[i] = fs[g[i]]
      BY <2>3, <2>4, <2>5, <2>8 DEF TakenFrom
    <2>11. \A i, k \in 1..Len(pruned) : i < k => g[i] < g[k]
      <3> SUFFICES ASSUME NEW i \in 1..Len(pruned), NEW k \in 1..Len(pruned), i < k
                   PROVE  g[i] < g[k]
        OBVIOUS
      <3> HIDE DEF g
      <3>1. CASE k <= Len(left)
        BY <2>5, <2>6, <2>7, <2>8, <3>1 DEF TakenFrom
      <3>2. CASE i <= Len(left) /\ ~(k <= Len(left))
        <4>1. g[i] \in 1..n
          BY <2>8, <3>2
        <4>2. g[k] = n + (k - Len(left)) /\ k - Len(left) \in 1..Keep
          BY <2>8, <3>2
        <4> QED
          BY <1>1, <2>1, <4>1, <4>2
      <3>3. CASE ~(i <= Len(left))
        BY <2>1, <2>6, <2>7, <2>8, <3>3
      <3> QED
        BY <3>1, <3>2, <3>3
    <2> HIDE DEF g
    <2>12. TakenFrom(pruned, fs, g)
      BY <2>9, <2>10, <2>11 DEF TakenFrom
    <2>13. \A i \in 1..Len(fs) : i + Keep > Len(fs) => \E k \in 1..Len(pruned) : pruned[k] = fs[i]
      <3> SUFFICES ASSUME NEW i \in 1..Len(fs), i + Keep > Len(fs)
                   PROVE  \E k \in 1..Len(pruned) : pruned[k] = fs[i]
        OBVIOUS
      <3>1. /\ i - n \in 1..Keep /\ n + (i - n) = i
            /\ Len(left) + (i - n) \in 1..Len(pruned)
            /\ ~(Len(left) + (i - n) <= Len(left))
            /\ Len(left) + (i - n) - Len(left) = i - n
        BY <1>1, <2>1, <2>6, <2>7
      <3>2. kept[i - n] = fs[n + (i - n)]
        BY <2>4, <3>1
      <3>3. pruned[Len(left) + (i - n)] = kept[i - n]
        BY <2>7, <3>1
      <3> QED
        BY <3>1, <3>2, <3>3
    <2>14. Len(pruned) > 0 /\ Last(pruned) = Last(fs)
      <3>1. /\ Len(pruned) \in 1..(Len(left) + Keep) /\ ~(Len(pruned) <= Len(left))
            /\ Len(pruned) - Len(left) = Keep /\ Keep \in 1..Keep
        BY <1>1, <2>6, <2>7
      <3>2. pruned[Len(pruned)] = kept[Keep]
        BY <2>7, <3>1
      <3>3. kept[Keep] = fs[n + Keep]
        BY <2>4, <3>1
      <3> QED
        BY <1>1, <2>1, <2>6, <2>7, <3>2, <3>3 DEF Last
    <2> QED
      BY <2>7, <2>12, <2>13, <2>14
  <1> QED
    BY <1>1, <1>2, <1>3

\* No two names become one by taking files from a sequence.
LEMMA TakenStayDistinct ==
    ASSUME NEW from \in Seq(FileRecord), Distinct(from), NEW to \in Seq(FileRecord),
           NEW g, TakenFrom(to, from, g)
    PROVE  Distinct(to) /\ ToSet(to) \subseteq ToSet(from)
  <1>1. Distinct(to)
    <2> SUFFICES ASSUME NEW i \in 1..Len(to), NEW k \in 1..Len(to), to[i].name = to[k].name
                 PROVE  i = k
      BY DEF Distinct
    <2>1. g[i] \in 1..Len(from) /\ g[k] \in 1..Len(from) /\ from[g[i]].name = from[g[k]].name
      BY DEF TakenFrom
    <2>2. g[i] = g[k]
      BY <2>1 DEF Distinct
    <2>3. ~(g[i] < g[k]) /\ ~(g[k] < g[i])
      BY <2>1, <2>2
    <2> QED
      BY <2>3 DEF TakenFrom
  <1>2. ToSet(to) \subseteq ToSet(from)
    BY DEF ToSet, TakenFrom
  <1> QED
    BY <1>1, <1>2

-----------------------------------------------------------------------------
(* The invariant of the backups.                                            *)

\* The versions are committed one after the other.
CommittedInOrder == \E n \in Versions : \A v \in Versions : since[v] # Nothing <=> v <= n

\* A dump of a backup that began at name holds what had been committed before.
IsFull(name, holds) == \A v \in Versions : since[v] # Nothing /\ since[v] < name => v <= holds

\* Files have names of their own, from the past, and tell by them what they hold.
FilesTell(fs) ==
    /\ fs \in Seq(FileRecord)
    /\ Distinct(fs)
    /\ \A f \in ToSet(fs) : f.name <= now /\ (f.holds # Nothing => IsFull(f.name, f.holds))

JobState == [pc: {"off", "ready", "named", "dumped", "written", "asleep"},
             name: Time \cup {Nothing}, holds: Versions \cup {Nothing}]

\* A job that is at work began in the past, and its dump holds what was there then.
JobTells(jb) ==
    /\ jb \in JobState
    /\ jb.pc \in {"named", "dumped"} => jb.name \in Time /\ jb.name <= now
    /\ jb.pc = "dumped" => jb.holds \in Versions /\ IsFull(jb.name, jb.holds)

BackupInv ==
    /\ BackupTypeOK
    /\ CommittedInOrder
    /\ FilesTell(files)
    /\ job \in [Jobs -> JobState] /\ \A j \in Jobs : JobTells(job[j])

-----------------------------------------------------------------------------
LEMMA BackupConstants ==
    /\ 0 \in Time /\ Time \subseteq Nat /\ MaxTime \in Nat /\ MaxCommits \in Nat
    /\ 0 \in Versions /\ Versions \subseteq Nat /\ Nothing \notin Time /\ Nothing \notin Versions
    /\ 1 \in 1..MaxBackoff /\ MaxBackoff \in Nat
    /\ Loop \in Jobs
  BY BackupAssumption DEF Time, Versions, Jobs

LEMMA BackupInitInv == BackupInit => BackupInv
  <1> SUFFICES ASSUME BackupInit PROVE BackupInv
    OBVIOUS
  <1> USE BackupConstants DEF BackupInit
  <1>1. Off \in JobState /\ Off.pc = "off"
    BY DEF Off, JobState
  <1>2. files \in Seq(FileRecord) /\ Len(files) = 0 /\ ToSet(files) = {}
    BY DEF ToSet
  <1>3. BackupTypeOK
    BY <1>1, <1>2 DEF BackupTypeOK, JobState, FileRecord
  <1>4. CommittedInOrder
    <2>1. \A v \in Versions : since[v] # Nothing <=> v <= 0
      OBVIOUS
    <2> QED
      BY <2>1 DEF CommittedInOrder
  <1>5. FilesTell(files)
    BY <1>2 DEF FilesTell, Distinct
  <1>6. job \in [Jobs -> JobState] /\ \A j \in Jobs : JobTells(job[j])
    BY <1>1 DEF JobTells
  <1> QED
    BY <1>3, <1>4, <1>5, <1>6 DEF BackupInv

\* A snapshot holds all that is committed.
LEMMA SnapshotFacts ==
    ASSUME BackupInv
    PROVE  /\ Max({v \in Versions : since[v] # Nothing}) \in Versions
           /\ \A name : IsFull(name, Max({v \in Versions : since[v] # Nothing}))
  <1> DEFINE T == {v \in Versions : since[v] # Nothing}
  <1>1. PICK n \in Versions : \A v \in Versions : since[v] # Nothing <=> v <= n
    BY DEF BackupInv, CommittedInOrder
  <1>2. n \in T /\ \A v \in T : n >= v
    BY <1>1, BackupConstants
  <1>3. \E x \in T : \A y \in T : x >= y
    BY <1>2
  <1>4. Max(T) \in T /\ \A y \in T : Max(T) >= y
    BY <1>3 DEF Max
  <1> QED
    BY <1>4, BackupConstants DEF IsFull

\* A step of a job that leaves the files alone.
LEMMA JobStepKeeps ==
    ASSUME BackupInv, NEW j \in Jobs,
           BeginBackup(j) \/ TakeSnapshot(j) \/ Upload(j) \/ BackupFails(j) \/ Wake
    PROVE  BackupInv'
  <1>1. UNCHANGED <<now, since, files, proc>>
    BY DEF BeginBackup, TakeSnapshot, Upload, BackupFails, Wake
  <1>2. /\ now \in Time /\ since \in [Versions -> Time \cup {Nothing}]
        /\ job \in [Jobs -> JobState] /\ \A i \in Jobs : JobTells(job[i])
        /\ proc \in [pc: {"down", "starting", "polling", "sleeping", "stopped"}, backoff: 1..MaxBackoff]
    BY DEF BackupInv, BackupTypeOK
  <1>3. \A i \in Jobs : job[i] \in JobState
    BY <1>2
  <1>4. job' \in [Jobs -> JobState] /\ \A i \in Jobs : JobTells(job'[i])
    <2> USE DEF JobTells, JobState
    <2>1. CASE BeginBackup(j)
      <3>1. now <= now
        BY <1>2, BackupConstants
      <3> QED
        BY <1>2, <1>3, <2>1, <3>1 DEF BeginBackup
    <2>2. CASE TakeSnapshot(j)
      BY <1>2, <1>3, <2>2, SnapshotFacts DEF TakeSnapshot
    <2>3. CASE Upload(j)
      BY <1>2, <1>3, <2>3 DEF Upload, Off
    <2>4. CASE BackupFails(j)
      BY <1>2, <1>3, <2>4 DEF BackupFails, Ended, Off
    <2>5. CASE Wake
      BY <1>2, <1>3, <2>5, BackupConstants DEF Wake
    <2> QED
      BY <2>1, <2>2, <2>3, <2>4, <2>5
  <1>5. \A i \in Jobs : JobTells(job[i])'
    BY <1>1, <1>4 DEF JobTells, IsFull
  <1>6. FilesTell(files)' /\ CommittedInOrder'
    BY <1>1 DEF BackupInv, FilesTell, IsFull, CommittedInOrder
  <1>7. BackupTypeOK'
    BY <1>1, <1>2, <1>4, <1>6 DEF BackupTypeOK, FilesTell, FileRecord, JobState
  <1> QED
    BY <1>4, <1>5, <1>6, <1>7 DEF BackupInv

\* Files that are written by a job that tells, and files taken from others, tell too.
LEMMA WrittenTells ==
    ASSUME FilesTell(files), NEW name \in Time, name <= now, NEW holds \in Versions \cup {Nothing},
           holds # Nothing => IsFull(name, holds)
    PROVE  FilesTell(Written(name, holds))
  <1> DEFINE w == Written(name, holds)
             rec == [name |-> name, holds |-> holds]
  <1>1. PICK rest, g :
           /\ rest \in Seq(FileRecord)
           /\ Len(w) = Len(rest) + 1
           /\ \A i \in 1..Len(rest) : w[i] = rest[i]
           /\ TakenFrom(rest, files, g)
    BY WrittenFacts DEF FilesTell
  <1>2. w \in Seq(FileRecord) /\ Distinct(w) /\ w[Len(w)] = rec
    BY WrittenFacts DEF FilesTell, Last
  <1> HIDE DEF w
  <1>3. ASSUME NEW i \in 1..Len(w) PROVE w[i] \in ToSet(files) \/ w[i] = rec
    <2>1. CASE i \in 1..Len(rest)
      BY <1>1, <2>1 DEF TakenFrom, ToSet
    <2>2. CASE i \notin 1..Len(rest)
      <3>1. i = Len(w)
        BY <1>1, <2>2
      <3> QED
        BY <1>2, <3>1
    <2> QED
      BY <2>1, <2>2
  <1>4. \A f \in ToSet(w) : f \in ToSet(files) \/ f = rec
    BY <1>2, <1>3 DEF ToSet
  <1>5. \A f \in ToSet(w) : f.name <= now /\ (f.holds # Nothing => IsFull(f.name, f.holds))
    BY <1>4 DEF FilesTell
  <1>6. FilesTell(w)
    BY <1>2, <1>5 DEF FilesTell
  <1> QED
    BY <1>6 DEF w

LEMMA PrunedTells ==
    ASSUME NEW fs, FilesTell(fs), NEW pruned \in Prunings(fs)
    PROVE  FilesTell(pruned)
  <1>1. pruned \in Seq(FileRecord) /\ Distinct(pruned) /\ ToSet(pruned) \subseteq ToSet(fs)
    BY PruningFacts, TakenStayDistinct DEF FilesTell
  <1> QED
    BY <1>1 DEF FilesTell

\* What a job writes, whole or cut.
LEMMA JobWrites ==
    ASSUME BackupInv, NEW j \in Jobs, job[j].pc = "dumped"
    PROVE  /\ job[j].name \in Time /\ job[j].holds \in Versions
           /\ FilesTell(Written(job[j].name, job[j].holds))
           /\ FilesTell(Written(job[j].name, Nothing))
  <1>1. /\ job[j].name \in Time /\ job[j].name <= now
        /\ job[j].holds \in Versions /\ IsFull(job[j].name, job[j].holds)
        /\ FilesTell(files)
    BY DEF BackupInv, JobTells
  <1> QED
    BY <1>1, WrittenTells

\* The file is written or cut, or the process ends meanwhile.
LEMMA FileStepKeeps ==
    ASSUME BackupInv, (\E j \in Jobs : WriteFile(j) \/ WriteFails(j)) \/ ProcessExits
    PROVE  BackupInv'
  <1>1. UNCHANGED <<now, since>>
    BY DEF WriteFile, WriteFails, ProcessExits
  <1>2. /\ now \in Time /\ since \in [Versions -> Time \cup {Nothing}]
        /\ job \in [Jobs -> JobState] /\ \A i \in Jobs : JobTells(job[i])
        /\ proc \in [pc: {"down", "starting", "polling", "sleeping", "stopped"}, backoff: 1..MaxBackoff]
    BY DEF BackupInv, BackupTypeOK
  <1>3. \A i \in Jobs : job[i] \in JobState
    BY <1>2
  <1>4. FilesTell(files')
    <2>1. ASSUME NEW j \in Jobs, WriteFile(j) PROVE FilesTell(files')
      BY <2>1, JobWrites, PrunedTells DEF WriteFile
    <2>2. ASSUME NEW j \in Jobs, CutFile(j) PROVE FilesTell(files')
      BY <2>2, JobWrites DEF CutFile
    <2>3. CASE UNCHANGED files
      BY <2>3 DEF BackupInv
    <2> QED
      BY <2>1, <2>2, <2>3 DEF WriteFails, ProcessExits
  <1>5. job' \in [Jobs -> JobState] /\ \A i \in Jobs : JobTells(job'[i])
    <2> USE DEF JobTells, JobState
    <2>1. ASSUME NEW j \in Jobs, WriteFile(j) \/ WriteFails(j)
          PROVE  job' \in [Jobs -> JobState] /\ \A i \in Jobs : JobTells(job'[i])
      BY <1>2, <1>3, <2>1 DEF WriteFile, WriteFails, Ended, Off
    <2>2. CASE ProcessExits
      BY <2>2 DEF ProcessExits, Off
    <2> QED
      BY <2>1, <2>2
  <1>6. \A i \in Jobs : JobTells(job[i])'
    BY <1>1, <1>5 DEF JobTells, IsFull
  <1>7. FilesTell(files)' /\ CommittedInOrder'
    BY <1>1, <1>4 DEF BackupInv, FilesTell, IsFull, CommittedInOrder
  <1>8. proc' \in [pc: {"down", "starting", "polling", "sleeping", "stopped"}, backoff: 1..MaxBackoff]
    BY <1>2 DEF WriteFile, WriteFails, ProcessExits
  <1>9. BackupTypeOK'
    BY <1>1, <1>2, <1>5, <1>7, <1>8 DEF BackupTypeOK, FilesTell, FileRecord, JobState
  <1> QED
    BY <1>5, <1>6, <1>7, <1>9 DEF BackupInv

\* A step of the process.
LEMMA ProcessKeeps ==
    ASSUME BackupInv, StartProcess \/ StartPolling \/ PollingFails \/ Retry \/ StartAgain
    PROVE  BackupInv'
  <1>1. UNCHANGED <<now, since, files>>
    BY DEF StartProcess, StartPolling, PollingFails, Retry, StartAgain
  <1>2. /\ now \in Time /\ since \in [Versions -> Time \cup {Nothing}]
        /\ job \in [Jobs -> JobState] /\ \A i \in Jobs : JobTells(job[i])
        /\ proc \in [pc: {"down", "starting", "polling", "sleeping", "stopped"}, backoff: 1..MaxBackoff]
    BY DEF BackupInv, BackupTypeOK
  <1>3. \A i \in Jobs : job[i] \in JobState
    BY <1>2
  <1>4. job' \in [Jobs -> JobState] /\ \A i \in Jobs : JobTells(job'[i])
    <2>1. CASE StartProcess
      BY <1>2, <1>3, <2>1 DEF StartProcess, JobTells, JobState
    <2>2. CASE UNCHANGED job
      BY <1>2, <2>2
    <2> QED
      BY <2>1, <2>2 DEF StartPolling, PollingFails, Retry, StartAgain
  <1>5. \A i \in Jobs : JobTells(job[i])'
    BY <1>1, <1>4 DEF JobTells, IsFull
  <1>6. FilesTell(files)' /\ CommittedInOrder'
    BY <1>1 DEF BackupInv, FilesTell, IsFull, CommittedInOrder
  <1>7. proc' \in [pc: {"down", "starting", "polling", "sleeping", "stopped"}, backoff: 1..MaxBackoff]
    <2>1. \A n \in 1..MaxBackoff : Doubled(n) \in 1..MaxBackoff
      BY BackupConstants DEF Doubled
    <2> QED
      BY <1>2, <2>1, BackupConstants DEF StartProcess, StartPolling, PollingFails, Retry, StartAgain
  <1>8. BackupTypeOK'
    BY <1>1, <1>2, <1>4, <1>6, <1>7 DEF BackupTypeOK, FilesTell, FileRecord, JobState
  <1> QED
    BY <1>4, <1>5, <1>6, <1>8 DEF BackupInv

\* Time goes on, or something is committed, which no name is younger than.
LEMMA CommitKeeps ==
    ASSUME BackupInv, Tick \/ \E v \in 1..MaxCommits : HandlerCommits(v)
    PROVE  BackupInv'
  <1>1. UNCHANGED <<files, job, proc>>
    BY DEF Tick, HandlerCommits
  <1>2. /\ now \in Time /\ since \in [Versions -> Time \cup {Nothing}]
        /\ job \in [Jobs -> JobState] /\ \A i \in Jobs : JobTells(job[i])
        /\ FilesTell(files)
        /\ proc \in [pc: {"down", "starting", "polling", "sleeping", "stopped"}, backoff: 1..MaxBackoff]
    BY DEF BackupInv, BackupTypeOK
  <1>3. \A f \in ToSet(files) : f \in FileRecord
    BY <1>2 DEF FilesTell, ToSet
  <1>4. /\ now' \in Time /\ now' >= now /\ since' \in [Versions -> Time \cup {Nothing}]
        /\ CommittedInOrder'
        /\ \A name \in Time : \A holds : name <= now /\ IsFull(name, holds) => IsFull(name, holds)'
    <2>1. CASE Tick
      <3>1. now' \in Time /\ now' >= now
        BY <1>2, <2>1, BackupConstants DEF Tick, Time
      <3> QED
        BY <1>2, <2>1, <3>1 DEF Tick, BackupInv, CommittedInOrder, IsFull
    <2>2. ASSUME NEW v \in 1..MaxCommits, HandlerCommits(v)
          PROVE  /\ now' \in Time /\ now' >= now /\ since' \in [Versions -> Time \cup {Nothing}]
                 /\ CommittedInOrder'
                 /\ \A name \in Time : \A holds : name <= now /\ IsFull(name, holds) => IsFull(name, holds)'
      <3>1. /\ v \in Versions /\ v - 1 \in Versions /\ v \in Nat
            /\ since[v] = Nothing /\ since[v - 1] # Nothing
            /\ since' = [since EXCEPT ![v] = now] /\ now' = now /\ now \in Nat
        BY <1>2, <2>2, BackupConstants DEF HandlerCommits, Versions
      <3>2. PICK n \in Versions : \A u \in Versions : since[u] # Nothing <=> u <= n
        BY DEF BackupInv, CommittedInOrder
      <3>3. v = n + 1
        <4>1. ~(v <= n) /\ v - 1 <= n
          BY <3>1, <3>2
        <4> QED
          BY <3>1, <4>1, BackupConstants
      <3>4. \A u \in Versions : since'[u] # Nothing <=> u <= v
        <4> SUFFICES ASSUME NEW u \in Versions PROVE since'[u] # Nothing <=> u <= v
          OBVIOUS
        <4>1. CASE u = v
          BY <1>2, <3>1, <4>1, BackupConstants
        <4>2. CASE u # v
          <5>1. since'[u] = since[u]
            BY <1>2, <3>1, <4>2
          <5>2. u <= n <=> u <= v
            BY <3>3, <4>2, BackupConstants
          <5> QED
            BY <3>2, <5>1, <5>2
        <4> QED
          BY <4>1, <4>2
      <3>5. since' \in [Versions -> Time \cup {Nothing}]
        BY <1>2, <3>1
      <3>6. ASSUME NEW name \in Time, NEW holds, name <= now, IsFull(name, holds)
            PROVE  IsFull(name, holds)'
        <4> SUFFICES ASSUME NEW u \in Versions, since'[u] # Nothing, since'[u] < name
                     PROVE  u <= holds
          BY DEF IsFull
        <4>1. u # v
          BY <1>2, <3>1, <3>6, BackupConstants
        <4>2. since'[u] = since[u]
          BY <1>2, <3>1, <4>1
        <4> QED
          BY <3>6, <4>2 DEF IsFull
      <3>7. CommittedInOrder'
        BY <3>1, <3>4 DEF CommittedInOrder
      <3> QED
        BY <1>2, <3>1, <3>5, <3>6, <3>7
    <2> QED
      BY <2>1, <2>2
  <1>5. \A name \in Time : name <= now => name <= now'
    BY <1>2, <1>4, BackupConstants
  <1>6. \A i \in Jobs : JobTells(job[i])'
    <2> SUFFICES ASSUME NEW i \in Jobs PROVE JobTells(job[i])'
      OBVIOUS
    <2>1. JobTells(job[i])
      BY <1>2
    <2> QED
      BY <1>1, <1>4, <1>5, <2>1 DEF JobTells
  <1>7. FilesTell(files)'
    <2>1. ASSUME NEW f \in ToSet(files)
          PROVE  f.name <= now' /\ (f.holds # Nothing => IsFull(f.name, f.holds)')
      <3>1. f.name \in Time /\ f.name <= now /\ (f.holds # Nothing => IsFull(f.name, f.holds))
        BY <1>2, <1>3, <2>1 DEF FilesTell, FileRecord
      <3> QED
        BY <1>4, <1>5, <3>1
    <2> QED
      BY <1>1, <1>2, <2>1 DEF FilesTell, IsFull
  <1>8. BackupTypeOK'
    BY <1>1, <1>2, <1>4 DEF BackupTypeOK, FilesTell, FileRecord, JobState
  <1> QED
    BY <1>1, <1>2, <1>4, <1>6, <1>7, <1>8 DEF BackupInv

LEMMA BackupNextInv == BackupInv /\ [BackupNext]_backupVars => BackupInv'
  <1> SUFFICES ASSUME BackupInv, [BackupNext]_backupVars PROVE BackupInv'
    OBVIOUS
  <1>1. CASE UNCHANGED backupVars
    BY <1>1 DEF backupVars, BackupInv, BackupTypeOK, CommittedInOrder, FilesTell, JobTells, IsFull
  <1>2. CASE BackupNext
    BY <1>2, JobStepKeeps, FileStepKeeps, ProcessKeeps, CommitKeeps, BackupConstants
       DEF BackupNext, BackupStep
  <1> QED
    BY <1>1, <1>2

\* What is committed, what is being backed up and what the files hold, as their names tell.
THEOREM BackupInvariance == BackupSpec => []BackupInv
  BY BackupInitInv, BackupNextInv, PTL DEF BackupSpec

\* The clock, the versions, the files, the jobs and the process are well typed.
THEOREM BackupTypeCorrect == BackupSpec => []BackupTypeOK
  <1>1. BackupInv => BackupTypeOK
    BY DEF BackupInv
  <1> QED
    BY <1>1, BackupInvariance, PTL

\* A backup holds whatever had been committed before the second in its name.
THEOREM NamesTell == BackupSpec => []NameTellsTime
  <1>1. BackupInv => NameTellsTime
    BY DEF BackupInv, FilesTell, IsFull, NameTellsTime
  <1> QED
    BY <1>1, BackupInvariance, PTL

-----------------------------------------------------------------------------
(* What is lost.                                                            *)

\* The files at n places of a sequence without namesakes are n files.
LEMMA DistinctCount ==
    ASSUME NEW fs \in Seq(FileRecord), Distinct(fs), NEW n \in Nat, n <= Len(fs),
           NEW T, IsFiniteSet(T), \A i \in 1..Len(fs) : i + n > Len(fs) => fs[i] \in T
    PROVE  Cardinality(T) >= n
  <1> DEFINE P == (Len(fs) - n + 1)..Len(fs)
             f == [i \in P |-> fs[i]]
  <1>1. Len(fs) \in Nat /\ \A i \in P : i \in 1..Len(fs) /\ i + n > Len(fs)
    OBVIOUS
  <1>2. IsFiniteSet(P) /\ Cardinality(P) = n
    <2>1. Len(fs) - n + 1 \in Int /\ Len(fs) \in Int
      BY <1>1
    <2>2. /\ IsFiniteSet(P)
          /\ Cardinality(P) = IF Len(fs) - n + 1 > Len(fs) THEN 0 ELSE Len(fs) - (Len(fs) - n + 1) + 1
      BY <2>1, FS_Interval
    <2> QED
      BY <1>1, <2>2
  <1> HIDE DEF P
  <1>3. f \in [P -> T]
    BY <1>1
  <1>4. \A i, k \in P : f[i] = f[k] => i = k
    BY <1>1 DEF Distinct
  <1>5. f \in Injection(P, T)
    BY <1>3, <1>4 DEF Injection, IsInjective
  <1>6. Cardinality(P) <= Cardinality(T)
    BY <1>5, FS_Injection
  <1>7. Cardinality(T) \in Nat
    BY FS_CardinalityType
  <1> QED
    BY <1>2, <1>6, <1>7

LEMMA SeqIsFinite ==
    ASSUME NEW S, NEW s \in Seq(S)
    PROVE  IsFiniteSet(ToSet(s))
  <1>1. IsFiniteSet(1..Len(s)) /\ DOMAIN s = 1..Len(s)
    BY FS_Interval
  <1>2. s \in Surjection(1..Len(s), ToSet(s))
    BY <1>1 DEF Surjection, ToSet
  <1> QED
    BY <1>1, <1>2, FS_Surjection

\* When a backup is written and the old ones are pruned, a file that is lost has a namesake,
\* or there are Keep newer ones that stay.
LEMMA PruningLosesOld ==
    ASSUME FilesTell(files), NEW name \in Time, NEW holds \in Versions \cup {Nothing},
           NEW pruned \in Prunings(Written(name, holds)),
           NEW i \in 1..Len(files), files[i] \notin ToSet(pruned)
    PROVE  /\ Last(pruned) = [name |-> name, holds |-> holds]
           /\ Last(pruned) \in ToSet(pruned)
           /\ \/ files[i].name = name
              \/ Cardinality({Last(pruned)} \cup (ToSet(pruned) \ {files[k] : k \in 1..i})) >= Keep
  <1> DEFINE w == Written(name, holds)
             kept == {Last(pruned)} \cup (ToSet(pruned) \ {files[k] : k \in 1..i})
  <1>1. files \in Seq(FileRecord) /\ Distinct(files) /\ Len(files) \in Nat
    BY DEF FilesTell
  <1>2. PICK rest, g :
           /\ rest \in Seq(FileRecord)
           /\ Len(w) = Len(rest) + 1
           /\ \A m \in 1..Len(rest) : w[m] = rest[m]
           /\ TakenFrom(rest, files, g)
           /\ \A m \in 1..Len(files) : files[m].name # name => \E k \in 1..Len(rest) : g[k] = m
    BY <1>1, WrittenFacts
  <1>3. /\ w \in Seq(FileRecord) /\ Len(w) > 0 /\ Distinct(w)
        /\ Last(w) = [name |-> name, holds |-> holds]
    BY <1>1, WrittenFacts
  <1>4. pruned \in Prunings(w)
    OBVIOUS
  <1> HIDE DEF w
  <1>5. /\ pruned \in Seq(FileRecord) /\ Len(pruned) > 0 /\ Last(pruned) = Last(w)
        /\ \A m \in 1..Len(w) : m + Keep > Len(w) => \E k \in 1..Len(pruned) : pruned[k] = w[m]
    BY <1>3, <1>4, PruningFacts
  <1>6. \A m \in 1..Len(w) : m + Keep > Len(w) => w[m] \in ToSet(pruned)
    BY <1>5 DEF ToSet
  <1>7. Last(pruned) \in ToSet(pruned)
    BY <1>5 DEF Last, ToSet
  <1>8. ASSUME files[i].name # name PROVE Cardinality(kept) >= Keep
    <2>1. PICK m \in 1..Len(rest) : g[m] = i
      BY <1>2, <1>8
    <2>2. /\ w[m] = files[i] /\ m \in 1..Len(w) /\ Len(rest) \in Nat /\ Len(w) \in Nat
          /\ Keep \in Nat
      BY <1>2, <2>1, BackupAssumption DEF TakenFrom
    <2>3. ~(m + Keep > Len(w))
      BY <1>6, <2>2
    <2>4. ASSUME NEW p \in 1..Len(w), p + Keep > Len(w) PROVE w[p] \in kept
      <3>1. p > m
        BY <2>2, <2>3, <2>4
      <3>2. CASE p = Len(w)
        BY <1>3, <1>5, <3>2 DEF Last
      <3>3. CASE p # Len(w)
        <4>1. p \in 1..Len(rest)
          BY <1>2, <2>2, <3>3
        <4>2. w[p] = files[g[p]] /\ g[p] \in 1..Len(files) /\ g[p] > i
          BY <1>2, <2>1, <3>1, <4>1 DEF TakenFrom
        <4>3. ASSUME NEW k \in 1..i PROVE files[k] # files[g[p]]
          <5>1. k \in 1..Len(files) /\ k # g[p]
            BY <1>1, <4>2
          <5> QED
            BY <1>1, <4>2, <5>1 DEF Distinct
        <4> QED
          BY <1>6, <2>4, <4>2, <4>3
      <3> QED
        BY <3>2, <3>3
    <2>5. IsFiniteSet(kept)
      <3>1. IsFiniteSet(ToSet(pruned)) /\ kept \in SUBSET ToSet(pruned)
        BY <1>5, <1>7, SeqIsFinite
      <3> QED
        BY <3>1, FS_Subset
    <2>6. Keep <= Len(w)
      BY <2>2, <2>3
    <2> HIDE DEF kept
    <2> QED
      BY <1>3, <2>2, <2>4, <2>5, <2>6, DistinctCount
  <1> QED
    BY <1>3, <1>5, <1>7, <1>8

\* A cut file costs no other name.
LEMMA CutLosesNone ==
    ASSUME FilesTell(files), NEW name \in Time,
           NEW i \in 1..Len(files), files[i] \notin ToSet(Written(name, Nothing))
    PROVE  \E f \in ToSet(Written(name, Nothing)) : f.name = files[i].name
  <1> DEFINE w == Written(name, Nothing)
  <1>1. PICK rest, g :
           /\ rest \in Seq(FileRecord)
           /\ Len(w) = Len(rest) + 1
           /\ \A m \in 1..Len(rest) : w[m] = rest[m]
           /\ TakenFrom(rest, files, g)
           /\ \A m \in 1..Len(files) : files[m].name # name => \E k \in 1..Len(rest) : g[k] = m
    BY WrittenFacts DEF FilesTell
  <1>2. w \in Seq(FileRecord) /\ Len(w) > 0 /\ Last(w) = [name |-> name, holds |-> Nothing]
    BY WrittenFacts DEF FilesTell
  <1>3. files[i] \notin ToSet(w)
    OBVIOUS
  <1> SUFFICES \E f \in ToSet(w) : f.name = files[i].name
    OBVIOUS
  <1> HIDE DEF w
  <1>4. CASE files[i].name = name
    BY <1>2, <1>4 DEF Last, ToSet
  <1>5. CASE files[i].name # name
    <2>1. PICK m \in 1..Len(rest) : g[m] = i
      BY <1>1, <1>5
    <2>2. m \in 1..Len(w) /\ w[m] = files[i]
      BY <1>1, <2>1 DEF TakenFrom
    <2> QED
      BY <1>2, <1>3, <2>2 DEF ToSet
  <1> QED
    BY <1>4, <1>5

\* A file is lost only to a namesake or when there are Keep newer ones, the newest of which
\* is a dump that has just succeeded.
THEOREM LostToNewer == BackupSpec => LostOnlyToNewer
  <1> DEFINE Excused(i) ==
               \/ \E g \in ToSet(files') : g.name = files[i].name
               \/ /\ Cardinality({Last(files')} \cup (ToSet(files') \ {files[k] : k \in 1..i})) >= Keep
                  /\ \E j \in Jobs : /\ job[j].pc = "dumped"
                                     /\ Last(files') = [name |-> job[j].name, holds |-> job[j].holds]
             A == \A i \in 1..Len(files) : files[i] \notin ToSet(files') => Excused(i)
  <1>1. BackupInv /\ [BackupNext]_backupVars => [A]_backupVars
    <2> SUFFICES ASSUME BackupInv, BackupNext, NEW i \in 1..Len(files), files[i] \notin ToSet(files')
                 PROVE  Excused(i)
      OBVIOUS
    <2>1. FilesTell(files) /\ files \in Seq(FileRecord)
      BY DEF BackupInv, FilesTell
    <2>2. files' # files
      BY <2>1 DEF ToSet
    <2>3. \E j \in Jobs : WriteFile(j) \/ CutFile(j)
      BY <2>2 DEF BackupNext, BackupStep, BeginBackup, TakeSnapshot, WriteFails, Upload, BackupFails,
         Wake, StartProcess, StartPolling, PollingFails, Retry, ProcessExits, StartAgain,
         HandlerCommits, Tick
    <2>4. PICK j \in Jobs : WriteFile(j) \/ CutFile(j)
      BY <2>3
    <2>5. job[j].pc = "dumped" /\ job[j].name \in Time /\ job[j].holds \in Versions
      BY <2>4, JobWrites DEF WriteFile, CutFile
    <2>6. CASE WriteFile(j)
      <3>1. files' \in Prunings(Written(job[j].name, job[j].holds))
        BY <2>6 DEF WriteFile
      <3>2. /\ Last(files') = [name |-> job[j].name, holds |-> job[j].holds]
            /\ Last(files') \in ToSet(files')
            /\ \/ files[i].name = job[j].name
               \/ Cardinality({Last(files')} \cup (ToSet(files') \ {files[k] : k \in 1..i})) >= Keep
        BY <2>1, <2>5, <3>1, PruningLosesOld
      <3>3. Last(files').name = job[j].name
        BY <3>2
      <3> QED
        BY <2>5, <3>2, <3>3
    <2>7. CASE CutFile(j)
      BY <2>1, <2>5, <2>7, CutLosesNone DEF CutFile
    <2> QED
      BY <2>4, <2>6, <2>7
  <1> QED
    BY <1>1, BackupInvariance, PTL DEF BackupSpec, LostOnlyToNewer

=============================================================================
