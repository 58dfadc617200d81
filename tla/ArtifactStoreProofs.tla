------------------------- MODULE ArtifactStoreProofs -------------------------
(* Theorems about ArtifactStore, for every number of provs, files and       *)
(* contents, with kills and refused statements.                             *)
EXTENDS ArtifactStore, SequenceTheorems, TLAPS

\* e inserted behind the first i elements of s, as Inserted writes it.
InsertedAt(s, i, e) == SubSeq(s, 1, i) \o <<e>> \o SubSeq(s, i + 1, Len(s))

LEMMA InsertedSeq ==
    ASSUME NEW S, NEW s \in Seq(S), NEW e \in S, NEW i \in 0..Len(s)
    PROVE  /\ InsertedAt(s, i, e) \in Seq(S)
           /\ Len(InsertedAt(s, i, e)) = Len(s) + 1
           /\ \A j \in 1..i : InsertedAt(s, i, e)[j] = s[j]
           /\ InsertedAt(s, i, e)[i + 1] = e
           /\ \A j \in i + 2..Len(s) + 1 : InsertedAt(s, i, e)[j] = s[j - 1]
<1> DEFINE r == InsertedAt(s, i, e)
           a == SubSeq(s, 1, i)
           b == SubSeq(s, i + 1, Len(s))
           c == a \o <<e>>
           n == Len(s)
<1>1. n \in Nat /\ \A k \in 1..n : s[k] \in S
  OBVIOUS
<1>2. a \in Seq(S) /\ Len(a) = i /\ \A j \in 1..i : a[j] = s[j]
  OBVIOUS
<1>3. b \in Seq(S) /\ Len(b) = n - i /\ \A j \in 1..n - i : b[j] = s[i + j]
  OBVIOUS
<1>4. r = c \o b
  BY DEF InsertedAt
<1> HIDE DEF a, b, n, r
<1>5. <<e>> \in Seq(S) /\ Len(<<e>>) = 1 /\ <<e>>[1] = e
  OBVIOUS
<1>6. /\ c \in Seq(S) /\ Len(c) = i + 1
      /\ \A j \in 1..i + 1 : c[j] = IF j <= i THEN a[j] ELSE <<e>>[j - i]
  BY <1>2, <1>5, ConcatProperties
<1> HIDE DEF c
<1>7. i \in 0..n
  BY DEF n
<1>8. /\ r \in Seq(S) /\ Len(r) = Len(c) + Len(b)
      /\ \A j \in 1..Len(c) + Len(b) : r[j] = IF j <= Len(c) THEN c[j] ELSE b[j - Len(c)]
  <2>1. b \in Seq(S) /\ c \in Seq(S)
    BY <1>3, <1>6
  <2>2. /\ c \o b \in Seq(S) /\ Len(c \o b) = Len(c) + Len(b)
        /\ \A j \in 1..Len(c) + Len(b) :
             (c \o b)[j] = IF j <= Len(c) THEN c[j] ELSE b[j - Len(c)]
    BY ONLY <2>1, ConcatProperties
  <2> QED
    BY ONLY <1>4, <2>2
<1>9. Len(r) = n + 1 /\ Len(c) + Len(b) = n + 1
  <2>1. Len(c) = i + 1 /\ Len(b) = n - i /\ Len(r) = Len(c) + Len(b)
    BY <1>3, <1>6, <1>8
  <2> QED
    BY ONLY <2>1, <1>1, <1>7
<1>10. \A j \in 1..n + 1 : r[j] = IF j <= i + 1 THEN c[j] ELSE b[j - (i + 1)]
  BY <1>6, <1>8, <1>9
<1>11. \A j \in 1..i : r[j] = s[j]
  <2> TAKE j \in 1..i
  <2>1. j \in 1..n + 1 /\ j \in 1..i + 1 /\ j <= i /\ j <= i + 1
    BY ONLY <1>1, <1>7, j \in 1..i
  <2> QED
    BY <1>2, <1>6, <1>10, <2>1
<1>12. r[i + 1] = e
  <2>1. /\ i + 1 \in 1..n + 1 /\ i + 1 \in 1..i + 1 /\ i + 1 <= i + 1
        /\ ~(i + 1 <= i) /\ (i + 1) - i = 1
    BY ONLY <1>1, <1>7
  <2> QED
    BY <1>5, <1>6, <1>10, <2>1
<1>13. \A j \in i + 2..n + 1 : r[j] = s[j - 1]
  <2> TAKE j \in i + 2..n + 1
  <2>1. /\ j \in 1..n + 1 /\ ~(j <= i + 1)
        /\ j - (i + 1) \in 1..n - i /\ i + (j - (i + 1)) = j - 1
    BY ONLY <1>1, <1>7, j \in i + 2..n + 1
  <2> QED
    BY <1>3, <1>10, <2>1
<1> QED
  BY <1>8, <1>9, <1>11, <1>12, <1>13 DEF n, r

LEMMA InsertedVisited ==
    ASSUME NEW t \in Seq(Entry), NEW x \in Entry, NEW m \in 0..Len(t)
    PROVE  /\ InsertedAt(t, m, x) \in Seq(Entry)
           /\ Len(InsertedAt(t, m, x)) = Len(t) + 1
           /\ \A j \in 1..m : InsertedAt(t, m, x)[j] = t[j]
           /\ InsertedAt(t, m, x)[m + 1] = x
           /\ \A j \in m + 2..Len(t) + 1 : InsertedAt(t, m, x)[j] = t[j - 1]
<1>1. InsertedAt(t, m, x) \in Seq(Entry)
  BY InsertedSeq
<1>2. Len(InsertedAt(t, m, x)) = Len(t) + 1
  BY InsertedSeq
<1>3. \A j \in 1..m : InsertedAt(t, m, x)[j] = t[j]
  BY InsertedSeq
<1>4. InsertedAt(t, m, x)[m + 1] = x
  BY InsertedSeq
<1>5. \A j \in m + 2..Len(t) + 1 : InsertedAt(t, m, x)[j] = t[j - 1]
  BY InsertedSeq
<1> QED
  BY <1>1, <1>2, <1>3, <1>4, <1>5

\* A visit leaves out a file that cannot be opened, and puts its entry anywhere
\* among the others.
LEMMA VisitEntries ==
    ASSUME TypeOK, NEW p \in Prov, Visit(p)
    PROVE  \E f \in todo[p] :
        /\ todo' = [todo EXCEPT ![p] = @ \ {f}]
        /\ \/ workspace[f] = Absent /\ entries' = entries
           \/ /\ workspace[f] \in Content
              /\ \E s \in Seq(Entry) :
                  /\ entries' = [entries EXCEPT ![p] = s]
                  /\ Len(s) = Len(entries[p]) + 1
                  /\ \A j \in 1..Len(s) :
                      \/ s[j] = [path |-> f, checksum |-> workspace[f], missing |-> FALSE]
                      \/ \E k \in 1..Len(entries[p]) : s[j] = entries[p][k]
                  /\ \A k \in 1..Len(entries[p]) : \E j \in 1..Len(s) : s[j] = entries[p][k]
                  /\ \E j \in 1..Len(s) :
                        s[j] = [path |-> f, checksum |-> workspace[f], missing |-> FALSE]
<1>1. PICK f \in todo[p] :
        /\ todo' = [todo EXCEPT ![p] = @ \ {f}]
        /\ IF workspace[f] = Absent
           THEN UNCHANGED entries
           ELSE \E s \in Inserted(p, [path |-> f, checksum |-> workspace[f], missing |-> FALSE]) :
                    entries' = [entries EXCEPT ![p] = s]
  BY DEF Visit
<1>2. CASE workspace[f] = Absent
  BY <1>1, <1>2
<1>3. CASE workspace[f] # Absent
  <2> DEFINE e == [path |-> f, checksum |-> workspace[f], missing |-> FALSE]
  <2>1. f \in File /\ workspace[f] \in Content
    BY <1>3 DEF TypeOK
  <2>2. e \in Entry
    BY <2>1 DEF Entry
  <2>3. PICK s \in Inserted(p, e) : entries' = [entries EXCEPT ![p] = s]
    BY <1>1, <1>3
  <2>4. PICK i \in 0..Len(entries[p]) :
            s = SubSeq(entries[p], 1, i) \o <<e>> \o SubSeq(entries[p], i + 1, Len(entries[p]))
    BY <2>3 DEF Inserted
  <2>5. entries[p] \in Seq(Entry)
    BY DEF TypeOK
  <2> HIDE DEF e
  <2>6. /\ s \in Seq(Entry)
        /\ Len(s) = Len(entries[p]) + 1
        /\ \A j \in 1..i : s[j] = entries[p][j]
        /\ s[i + 1] = e
        /\ \A j \in i + 2..Len(entries[p]) + 1 : s[j] = entries[p][j - 1]
    <3>1. s = InsertedAt(entries[p], i, e)
      BY <2>4 DEF InsertedAt
    <3> QED
      BY <2>2, <2>5, <3>1, InsertedVisited
  <2>7. Len(entries[p]) \in Nat
    BY <2>5
  <2>8. \A j \in 1..Len(s) : s[j] = e \/ \E k \in 1..Len(entries[p]) : s[j] = entries[p][k]
    <3> TAKE j \in 1..Len(s)
    <3>1. CASE j <= i
      BY <2>6, <2>7, <3>1
    <3>2. CASE j = i + 1
      BY <2>6, <3>2
    <3>3. CASE j >= i + 2
      <4>1. j - 1 \in 1..Len(entries[p]) /\ s[j] = entries[p][j - 1]
        BY <2>6, <2>7, <3>3
      <4> QED
        BY <4>1
    <3> QED
      BY <3>1, <3>2, <3>3
  <2>9. \A k \in 1..Len(entries[p]) : \E j \in 1..Len(s) : s[j] = entries[p][k]
    <3> TAKE k \in 1..Len(entries[p])
    <3>1. CASE k <= i
      BY <2>6, <2>7, <3>1
    <3>2. CASE k > i
      <4>1. k + 1 \in 1..Len(s) /\ s[k + 1] = entries[p][k]
        BY <2>6, <2>7, <3>2
      <4> QED
        BY <4>1
    <3> QED
      BY <3>1, <3>2
  <2>10. \E j \in 1..Len(s) : s[j] = e
    BY <2>6, <2>7
  <2> QED
    BY <1>1, <2>1, <2>3, <2>6, <2>8, <2>9, <2>10 DEF e
<1> QED
  BY <1>2, <1>3

(* The inductive invariant. *)

\* The entries of p that Owed counts, by their places.
OwedAt(p, j) ==
    /\ pc[p] \in {"select", "insert", "copy", "fill"}
    /\ j \in 1..Len(entries[p])
    /\ entries[p][j].missing
    /\ pc[p] \in {"copy", "fill"} => j >= at[p]

OwedBySome(c) == \E p \in Prov : \E j \in Nat : OwedAt(p, j) /\ entries[p][j].checksum = c

\* Nothing is missing before its SELECT: only the database says what is.
FreshInv ==
    \A p \in Prov : \A j \in 1..Len(entries[p]) :
        pc[p] = "hash" \/ (pc[p] = "select" /\ j >= at[p]) => ~entries[p][j].missing

\* A file that has not changed since it was hashed has the contents hashed,
\* and so has the file a copy has open.
HashInv ==
    \A p \in Prov :
        /\ \A j \in 1..Len(entries[p]) :
              entries[p][j].path \notin stale[p] =>
                  workspace[entries[p][j].path] = entries[p][j].checksum
        /\ pc[p] = "fill" /\ Current(p).path \notin stale[p] => source[p] = Current(p).checksum

\* The target of an open copy exists.
TargetInv == \A p \in Prov : pc[p] = "fill" => artifacts[Current(p).checksum] # Absent

\* A truncated target is being filled, and a target with contents that are not
\* its own got them by a fault.
PartialInv ==
    \A c \in Content : artifacts[c] = Partial => OwedBySome(c) \/ c \in doubted
WrongInv ==
    \A c \in Content : artifacts[c] \notin {Absent, Partial, c} => c \in doubted

KeptNow(c) == artifacts[c] = c \/ OwedBySome(c) \/ c \in doubted
RowsInv == \A c \in rows : KeptNow(c)

\* A prov has left files behind only in its second pass, which its post ends.
PassInv ==
    \A p \in Prov :
        /\ pc[p] \in {"idle", "run"} => pass[p] = 1
        /\ pc[p] = "done" => pass[p] = 2
        /\ pass[p] = 1 => left[p] = {}

\* What the command left is to be hashed, hashed, and kept from its SELECT on.
LeftInv ==
    \A p \in Prov : \A l \in left[p] : l[1] \notin deleted[p] =>
        /\ pc[p] = "hash" =>
              \/ l[1] \in todo[p] /\ workspace[l[1]] = l[2]
              \/ \E j \in 1..Len(entries[p]) : entries[p][j].checksum = l[2]
        /\ pc[p] = "select" =>
              \/ \E j \in 1..Len(entries[p]) : j >= at[p] /\ entries[p][j].checksum = l[2]
              \/ KeptNow(l[2])
        /\ pc[p] \in {"insert", "copy", "fill", "done"} => KeptNow(l[2])

StoreInv == FreshInv /\ HashInv /\ TargetInv /\ PartialInv /\ WrongInv /\ RowsInv
IInv == TypeOK /\ StoreInv /\ PassInv /\ LeftInv
-----------------------------------------------------------------------------
LEMMA InitType == Init => TypeOK
<1> SUFFICES ASSUME Init PROVE TypeOK
  OBVIOUS
<1>1. <<>> \in Seq(Entry)
  OBVIOUS
<1> QED
  BY <1>1, ArtifactStoreAssumption DEF Init, TypeOK

LEMMA VisitResult ==
    ASSUME TypeOK, NEW p \in Prov, Visit(p)
    PROVE  /\ entries' \in [Prov -> Seq(Entry)]
           /\ \A q \in Prov : q # p => entries'[q] = entries[q]
           /\ \A j \in 1..Len(entries'[p]) :
                \/ \E k \in 1..Len(entries[p]) : entries'[p][j] = entries[p][k]
                \/ /\ entries'[p][j].checksum = workspace[entries'[p][j].path]
                   /\ ~entries'[p][j].missing
           /\ \A k \in 1..Len(entries[p]) :
                \E j \in 1..Len(entries'[p]) : entries'[p][j] = entries[p][k]
           /\ \A f \in todo[p] : workspace[f] \in Content =>
                \/ f \in todo'[p]
                \/ \E j \in 1..Len(entries'[p]) : entries'[p][j].checksum = workspace[f]
<1>1. PICK f \in todo[p] :
        /\ todo' = [todo EXCEPT ![p] = @ \ {f}]
        /\ \/ workspace[f] = Absent /\ entries' = entries
           \/ /\ workspace[f] \in Content
              /\ \E s \in Seq(Entry) :
                  /\ entries' = [entries EXCEPT ![p] = s]
                  /\ Len(s) = Len(entries[p]) + 1
                  /\ \A j \in 1..Len(s) :
                      \/ s[j] = [path |-> f, checksum |-> workspace[f], missing |-> FALSE]
                      \/ \E k \in 1..Len(entries[p]) : s[j] = entries[p][k]
                  /\ \A k \in 1..Len(entries[p]) : \E j \in 1..Len(s) : s[j] = entries[p][k]
                  /\ \E j \in 1..Len(s) :
                        s[j] = [path |-> f, checksum |-> workspace[f], missing |-> FALSE]
  BY VisitEntries
<1>2. \A g \in todo[p] : g # f => g \in todo'[p]
  BY <1>1 DEF TypeOK
<1>3. entries \in [Prov -> Seq(Entry)]
  BY DEF TypeOK
<1>4. CASE workspace[f] = Absent /\ entries' = entries
  BY <1>2, <1>3, <1>4, ArtifactStoreAssumption
<1>5. CASE \E s \in Seq(Entry) :
              /\ entries' = [entries EXCEPT ![p] = s]
              /\ Len(s) = Len(entries[p]) + 1
              /\ \A j \in 1..Len(s) :
                  \/ s[j] = [path |-> f, checksum |-> workspace[f], missing |-> FALSE]
                  \/ \E k \in 1..Len(entries[p]) : s[j] = entries[p][k]
              /\ \A k \in 1..Len(entries[p]) : \E j \in 1..Len(s) : s[j] = entries[p][k]
              /\ \E j \in 1..Len(s) :
                    s[j] = [path |-> f, checksum |-> workspace[f], missing |-> FALSE]
  <2>1. PICK s \in Seq(Entry) :
              /\ entries' = [entries EXCEPT ![p] = s]
              /\ \A j \in 1..Len(s) :
                  \/ s[j] = [path |-> f, checksum |-> workspace[f], missing |-> FALSE]
                  \/ \E k \in 1..Len(entries[p]) : s[j] = entries[p][k]
              /\ \A k \in 1..Len(entries[p]) : \E j \in 1..Len(s) : s[j] = entries[p][k]
              /\ \E j \in 1..Len(s) :
                    s[j] = [path |-> f, checksum |-> workspace[f], missing |-> FALSE]
    BY <1>5
  <2>2. entries'[p] = s /\ entries' \in [Prov -> Seq(Entry)]
        /\ \A q \in Prov : q # p => entries'[q] = entries[q]
    BY <1>3, <2>1
  <2>3. \A j \in 1..Len(s) :
            \/ \E k \in 1..Len(entries[p]) : s[j] = entries[p][k]
            \/ s[j].checksum = workspace[s[j].path] /\ ~s[j].missing
    BY <2>1
  <2>4. \E j \in 1..Len(s) : s[j].checksum = workspace[f]
    BY <2>1
  <2> QED
    BY <1>2, <2>1, <2>2, <2>3, <2>4
<1> QED
  BY <1>1, <1>4, <1>5

\* A lookup changes one flag, the one of the entry it is at.
LEMMA SelectEntries ==
    ASSUME TypeOK, NEW p \in Prov, Select(p)
    PROVE  /\ pc[p] = "select" /\ at[p] \in 1..Len(entries[p])
           /\ entries' \in [Prov -> Seq(Entry)]
           /\ \A q \in Prov : Len(entries'[q]) = Len(entries[q])
           /\ \A q \in Prov : \A j \in 1..Len(entries[q]) :
                /\ entries'[q][j].path = entries[q][j].path
                /\ entries'[q][j].checksum = entries[q][j].checksum
                /\ q # p \/ j # at[p] => entries'[q][j] = entries[q][j]
           /\ entries'[p][at[p]].missing =>
                 entries[p][at[p]].checksum \notin rows \/ Busy(p)
           /\ ~entries'[p][at[p]].missing => entries[p][at[p]].checksum \in rows
<1> DEFINE s == entries[p]
           i == at[p]
<1>1. PICK m \in {Current(p).checksum \notin rows} \cup (IF Busy(p) THEN {TRUE} ELSE {}) :
          entries' = [entries EXCEPT ![p][at[p]].missing = m]
  BY DEF Select
<1>2. m \in BOOLEAN /\ (m => s[i].checksum \notin rows \/ Busy(p)) /\ (~m => s[i].checksum \in rows)
  BY <1>1 DEF Current
<1>3. s \in Seq(Entry) /\ i \in 1..Len(s) /\ pc[p] = "select"
  BY DEF TypeOK, Select, InLoop
<1>4. s[i] \in Entry
  BY <1>3
<1> DEFINE x == [s[i] EXCEPT !.missing = m]
<1>5. x \in Entry /\ x.path = s[i].path /\ x.checksum = s[i].checksum /\ x.missing = m
  BY <1>2, <1>4 DEF Entry
<1> HIDE DEF x
<1> DEFINE t == [s EXCEPT ![i] = x]
<1>6. t \in Seq(Entry) /\ Len(t) = Len(s) /\ t[i] = x
      /\ \A j \in 1..Len(s) : j # i => t[j] = s[j]
  BY <1>3, <1>5
<1>7. entries' = [entries EXCEPT ![p] = t]
  BY <1>1 DEF x
<1> HIDE DEF t
<1>8. entries' \in [Prov -> Seq(Entry)] /\ entries'[p] = t
      /\ \A q \in Prov : q # p => entries'[q] = entries[q]
  BY <1>6, <1>7 DEF TypeOK
<1> QED
  BY <1>2, <1>3, <1>5, <1>6, <1>8

-----------------------------------------------------------------------------
\* The steps of a prov, of its command and of the programs around it.
LEMMA NextSteps ==
    ASSUME Next
    PROVE  \/ \E p \in Prov : \/ Visit(p) \/ Select(p) \/ Insert(p) \/ CopySkips(p)
                              \/ CopyOpens(p) \/ CopyFills(p) \/ CopyThrows(p) \/ LoopDone(p)
                              \/ Start(p) \/ CommandEnds(p) \/ Kill(p)
           \/ \E f \in File : \E c \in Content \cup {Absent} :
                /\ Change(f, c)
                /\ \A q \in Prov : pc[q] # "run" => deleted'[q] = deleted[q]
                /\ TypeOK => written' \in [Prov -> SUBSET File] /\ deleted' \in [Prov -> SUBSET File]
<1>1. ASSUME NEW p \in Prov, NEW f \in File, CommandUnlinks(p, f)
      PROVE  /\ Change(f, Absent)
             /\ \A q \in Prov : pc[q] # "run" => deleted'[q] = deleted[q]
             /\ TypeOK => written' \in [Prov -> SUBSET File] /\ deleted' \in [Prov -> SUBSET File]
  BY <1>1 DEF CommandUnlinks, TypeOK
<1>2. ASSUME NEW p \in Prov, NEW f \in File, NEW c \in Content, CommandWrites(p, f, c)
      PROVE  /\ Change(f, c)
             /\ \A q \in Prov : pc[q] # "run" => deleted'[q] = deleted[q]
             /\ TypeOK => written' \in [Prov -> SUBSET File] /\ deleted' \in [Prov -> SUBSET File]
  BY <1>2 DEF CommandWrites, TypeOK
<1>3. ASSUME NEW f \in File, NEW c \in Content \cup {Absent}, OtherChanges(f, c)
      PROVE  /\ Change(f, c)
             /\ \A q \in Prov : pc[q] # "run" => deleted'[q] = deleted[q]
             /\ TypeOK => written' \in [Prov -> SUBSET File] /\ deleted' \in [Prov -> SUBSET File]
  BY <1>3 DEF OtherChanges, TypeOK
<1> QED
  BY <1>1, <1>2, <1>3 DEF Next, ProvStep, CommandStep

LEMMA OwedType == ASSUME TypeOK, NEW p \in Prov PROVE Owed(p) \subseteq Content
<1>1. ASSUME NEW j \in 1..Len(entries[p]) PROVE entries[p][j].checksum \in Content
  <2>1. entries[p] \in Seq(Entry)
    BY DEF TypeOK
  <2>2. entries[p][j] \in Entry
    BY <2>1
  <2> QED
    BY <2>2 DEF Entry
<1> QED
  BY <1>1 DEF Owed

LEMMA TypeNext == TypeOK /\ [Next]_vars => TypeOK'
<1> SUFFICES ASSUME TypeOK, [Next]_vars PROVE TypeOK'
  OBVIOUS
<1> USE DEF storeVars, loopVars, commandVars
<1>1. ASSUME NEW p \in Prov, Visit(p) PROVE TypeOK'
  <2>1. entries' \in [Prov -> Seq(Entry)] /\ \A q \in Prov : q # p => entries'[q] = entries[q]
    BY <1>1, VisitResult
  <2>2. todo' \in [Prov -> SUBSET File]
    BY <1>1 DEF TypeOK, Visit
  <2> QED
    BY <1>1, <2>1, <2>2 DEF TypeOK, Visit, Working, InLoop, Current
<1>2. ASSUME NEW p \in Prov, Select(p) PROVE TypeOK'
  <2>1. /\ at' \in [Prov -> Nat \ {0}] /\ pc' = pc
        /\ \A q \in Prov : q # p => at'[q] = at[q]
    BY <1>2 DEF TypeOK, Select
  <2>2. \A q \in Prov : pc'[q] = "fill" => InLoop(q)' /\ Current(q)'.missing /\ source'[q] \in Content
    BY <1>2, <2>1, SelectEntries DEF TypeOK, Select, InLoop, Current
  <2> QED
    BY <1>2, <2>1, <2>2, SelectEntries DEF TypeOK, Select
<1>3. ASSUME NEW p \in Prov, Insert(p) PROVE TypeOK'
  <2>1. Current(p) \in Entry
    BY <1>3 DEF TypeOK, Insert, InLoop, Current
  <2>2. rows' \subseteq Content
    BY <1>3, <2>1 DEF TypeOK, Insert, Entry
  <2> QED
    BY <1>3, <2>2 DEF TypeOK, Insert, Working, InLoop, Current
<1>4. ASSUME NEW p \in Prov, CopySkips(p) PROVE TypeOK'
  BY <1>4 DEF TypeOK, CopySkips, Working, InLoop, Current
<1>5. ASSUME NEW p \in Prov, CopyOpens(p) PROVE TypeOK'
  <2>1. Current(p) \in Entry
    BY <1>5 DEF TypeOK, CopyOpens, InLoop, Current
  <2>2. source'[p] \in Content /\ source' \in [Prov -> Content \cup {Absent}]
    BY <1>5, <2>1 DEF TypeOK, CopyOpens, Entry
  <2> QED
    BY <1>5, <2>1, <2>2 DEF TypeOK, CopyOpens, Working, InLoop, Current
<1>6. ASSUME NEW p \in Prov, CopyFills(p) PROVE TypeOK'
  <2>1. Current(p) \in Entry
    BY <1>6 DEF TypeOK, CopyFills, InLoop, Current
  <2>2. artifacts' \in [Content -> Content \cup {Absent, Partial}]
    BY <1>6, <2>1 DEF TypeOK, CopyFills, Copied, Entry
  <2>3. doubted' \subseteq Content
    BY <1>6, <2>1 DEF TypeOK, CopyFills, Entry
  <2> QED
    BY <1>6, <2>2, <2>3 DEF TypeOK, CopyFills, Working, InLoop, Current
<1>7. ASSUME NEW p \in Prov, CopyThrows(p) \/ Kill(p) PROVE TypeOK'
  BY <1>7, OwedType DEF TypeOK, CopyThrows, Kill, Dies, Working, InLoop, Current
<1>8. ASSUME NEW p \in Prov, LoopDone(p) PROVE TypeOK'
  BY <1>8 DEF TypeOK, LoopDone, NextPhase, Working, InLoop, Current
<1>9. ASSUME NEW p \in Prov, Start(p) PROVE TypeOK'
  <2>1. <<>> \in Seq(Entry)
    OBVIOUS
  <2> QED
    BY <1>9, <2>1, ArtifactStoreAssumption DEF TypeOK, Start, Collect, Working, InLoop, Current
<1>10. ASSUME NEW p \in Prov, CommandEnds(p) PROVE TypeOK'
  <2>1. <<>> \in Seq(Entry)
    OBVIOUS
  <2>2. left' \in [Prov -> SUBSET (File \X Content)]
    BY <1>10 DEF TypeOK, CommandEnds
  <2>3. PICK apart \in SUBSET (written[p] \cap deleted[p]) : Collect(p, Ended(p, apart), 2)
    BY <1>10 DEF CommandEnds
  <2>4. Ended(p, apart) \subseteq File
    BY DEF TypeOK, Ended
  <2> QED
    BY <1>10, <2>1, <2>2, <2>3, <2>4 DEF TypeOK, CommandEnds, Collect, Working, InLoop, Current
<1>11. ASSUME NEW f \in File, NEW c \in Content \cup {Absent}, Change(f, c),
              written' \in [Prov -> SUBSET File], deleted' \in [Prov -> SUBSET File]
       PROVE  TypeOK'
  <2>1. left' \in [Prov -> SUBSET (File \X Content)] /\ stale' \in [Prov -> SUBSET File]
    BY <1>11 DEF TypeOK, Change
  <2>2. changes' \in 0..MaxChanges
    BY <1>11, ArtifactStoreAssumption DEF TypeOK, Change
  <2> QED
    BY <1>11, <2>1, <2>2 DEF TypeOK, Change, InLoop, Current
<1>12. CASE UNCHANGED vars
  BY <1>12 DEF TypeOK, vars, InLoop, Current
<1> QED
  BY <1>1, <1>2, <1>3, <1>4, <1>5, <1>6, <1>7, <1>8, <1>9, <1>10, <1>11, <1>12, NextSteps

-----------------------------------------------------------------------------
(* What a step does to the fate of one checksum. *)

LEMMA OwedMeans ==
    ASSUME NEW p \in Prov, NEW c
    PROVE  c \in Owed(p) <=> \E j \in Nat : OwedAt(p, j) /\ entries[p][j].checksum = c
<1>1. \A j \in 1..Len(entries[p]) : j \in Nat
  OBVIOUS
<1> QED
  BY <1>1 DEF Owed, OwedAt

LEMMA OwedMeansNext ==
    ASSUME NEW p \in Prov, NEW c
    PROVE  c \in Owed(p)' <=> \E j \in Nat : OwedAt(p, j)' /\ entries'[p][j].checksum = c
<1>1. \A j \in 1..Len(entries'[p]) : j \in Nat
  OBVIOUS
<1> QED
  BY <1>1 DEF Owed, OwedAt

\* An entry that p owes is still owed.
StillOwed(q, j) == OwedAt(q, j)' /\ entries'[q][j].checksum = entries[q][j].checksum

\* No step gives up a checksum without doubting it, and none breaks its file
\* but by a copy that is under way or by a fault.
Effect(c) ==
    /\ c \in doubted => c \in doubted'
    /\ OwedBySome(c) => OwedBySome(c)' \/ c \in doubted' \/ artifacts'[c] = c
    /\ \/ artifacts'[c] = artifacts[c]
       \/ artifacts'[c] = c
       \/ artifacts'[c] = Partial /\ (OwedBySome(c)' \/ c \in doubted')
       \/ artifacts'[c] # Absent /\ c \in doubted'
    /\ c \in rows' => c \in rows \/ OwedBySome(c)'

LEMMA NothingLost ==
    ASSUME NEW c,
           \A q \in Prov : \A j \in Nat : OwedAt(q, j) => StillOwed(q, j),
           doubted' = doubted, artifacts' = artifacts,
           c \in rows' => c \in rows \/ OwedBySome(c)'
    PROVE  Effect(c)
  BY DEF Effect, OwedBySome, StillOwed

LEMMA EntryType ==
    ASSUME TypeOK, NEW p \in Prov
    PROVE  /\ Len(entries[p]) \in Nat /\ at[p] \in Nat \ {0}
           /\ \A j \in 1..Len(entries[p]) : entries[p][j] \in Entry
<1>1. entries[p] \in Seq(Entry)
  BY DEF TypeOK
<1> QED
  BY <1>1 DEF TypeOK

LEMMA StepEffect ==
    ASSUME TypeOK, StoreInv, [Next]_vars, NEW c \in Content
    PROVE  Effect(c)
<1> USE DEF storeVars, loopVars, commandVars
<1>1. ASSUME NEW p \in Prov, Visit(p) PROVE Effect(c)
  <2>1. \A q \in Prov : q # p => entries'[q] = entries[q]
    BY <1>1, VisitResult
  <2>2. \A q \in Prov : \A j \in Nat : OwedAt(q, j) => StillOwed(q, j)
    BY <1>1, <2>1 DEF Visit, OwedAt, StillOwed
  <2> QED
    BY <1>1, <2>2, NothingLost DEF Visit
<1>2. ASSUME NEW p \in Prov, Select(p) PROVE Effect(c)
  <2>1. \A q \in Prov : \A j \in Nat : OwedAt(q, j) => StillOwed(q, j)
    <3> SUFFICES ASSUME NEW q \in Prov, NEW j \in Nat, OwedAt(q, j) PROVE StillOwed(q, j)
      OBVIOUS
    <3>1. j \in 1..Len(entries[q]) /\ entries[q][j].missing
      BY DEF OwedAt
    <3>2. q # p \/ j # at[p]
      BY <1>2, <3>1 DEF StoreInv, FreshInv, Select
    <3>3. entries'[q][j] = entries[q][j] /\ Len(entries'[q]) = Len(entries[q])
      BY <1>2, <3>1, <3>2, SelectEntries
    <3>4. pc' = pc /\ (q # p => at'[q] = at[q]) /\ pc[p] = "select"
      BY <1>2 DEF Select
    <3> QED
      BY <3>1, <3>3, <3>4 DEF OwedAt, StillOwed
  <2> QED
    BY <1>2, <2>1, NothingLost DEF Select
<1>3. ASSUME NEW p \in Prov, Insert(p) PROVE Effect(c)
  <2>1. \A q \in Prov : \A j \in Nat : OwedAt(q, j) => StillOwed(q, j)
    BY <1>3 DEF Insert, OwedAt, StillOwed
  <2>2. c \in rows' => c \in rows \/ (Current(p).missing /\ Current(p).checksum = c)
    BY <1>3 DEF Insert
  <2>3. at[p] \in 1..Len(entries[p]) /\ at[p] \in Nat
    BY <1>3, EntryType DEF Insert, InLoop
  <2>4. ASSUME NEW j \in Nat, j = at[p], entries[p][j].missing PROVE OwedAt(p, j)'
    BY <1>3, <2>3, <2>4 DEF Insert, OwedAt
  <2>5. c \in rows' => c \in rows \/ OwedBySome(c)'
    BY <1>3, <2>2, <2>3, <2>4 DEF Insert, OwedBySome, Current
  <2> QED
    BY <1>3, <2>1, <2>5, NothingLost DEF Insert
<1>4. ASSUME NEW p \in Prov, CopySkips(p) PROVE Effect(c)
  <2>1. \A q \in Prov : \A j \in Nat : OwedAt(q, j) => StillOwed(q, j)
    BY <1>4, EntryType DEF TypeOK, CopySkips, OwedAt, StillOwed, Current
  <2> QED
    BY <1>4, <2>1, NothingLost DEF CopySkips
<1>5. ASSUME NEW p \in Prov, CopyOpens(p) PROVE Effect(c)
  <2>1. \A q \in Prov : \A j \in Nat : OwedAt(q, j) => StillOwed(q, j)
    BY <1>5 DEF TypeOK, CopyOpens, OwedAt, StillOwed
  <2>2. at[p] \in 1..Len(entries[p]) /\ at[p] \in Nat
    BY <1>5, EntryType DEF CopyOpens, InLoop
  <2>3. ASSUME NEW j \in Nat, j = at[p] PROVE OwedAt(p, j)'
    BY <1>5, <2>2, <2>3 DEF TypeOK, CopyOpens, OwedAt, Current
  <2>4. c = Current(p).checksum => OwedBySome(c)'
    BY <1>5, <2>2, <2>3 DEF CopyOpens, OwedBySome, Current
  <2>5. artifacts'[c] = artifacts[c] \/ (artifacts'[c] = Partial /\ OwedBySome(c)')
    BY <1>5, <2>4 DEF TypeOK, CopyOpens
  <2> QED
    BY <1>5, <2>1, <2>5 DEF CopyOpens, Effect, OwedBySome, StillOwed
<1>6. ASSUME NEW p \in Prov, CopyFills(p) PROVE Effect(c)
  <2> DEFINE e == Current(p)
  <2>1. at[p] \in 1..Len(entries[p]) /\ at[p] \in Nat /\ e \in Entry /\ e.missing /\ source[p] \in Content
    BY <1>6, EntryType DEF TypeOK, CopyFills, InLoop, Current
  <2>2. \A q \in Prov : \A j \in Nat : OwedAt(q, j) /\ ~(q = p /\ j = at[p]) => StillOwed(q, j)
    BY <1>6, <2>1 DEF TypeOK, CopyFills, OwedAt, StillOwed
  <2>3. ASSUME c # e.checksum PROVE Effect(c)
    <3>1. artifacts'[c] = artifacts[c] /\ (c \in doubted => c \in doubted')
      BY <1>6, <2>3 DEF TypeOK, CopyFills
    <3>2. OwedBySome(c) => OwedBySome(c)'
      BY <2>2, <2>3 DEF OwedBySome, StillOwed, Current
    <3> QED
      BY <1>6, <3>1, <3>2 DEF CopyFills, Effect
  <2>4. ASSUME c = e.checksum, e.path \in stale[p] PROVE Effect(c)
    <3>1. c \in doubted'
      BY <1>6, <2>4 DEF CopyFills
    <3>2. artifacts'[c] \in Content \cup {Partial}
      BY <1>6, <2>1, <2>4 DEF TypeOK, CopyFills, Copied
    <3> QED
      BY <1>6, <3>1, <3>2, ArtifactStoreAssumption DEF CopyFills, Effect
  <2>5. ASSUME c = e.checksum, e.path \notin stale[p] PROVE Effect(c)
    <3>1. workspace[e.path] = c /\ source[p] = c
      BY <1>6, <2>1, <2>5 DEF StoreInv, HashInv, CopyFills, Current
    <3>2. artifacts'[c] \in Copied(p, c, c)
      BY <1>6, <2>5, <3>1 DEF TypeOK, CopyFills
    <3>3. \/ artifacts'[c] = c
          \/ artifacts'[c] = Partial /\ artifacts[c] \notin {Partial, c}
          \/ artifacts'[c] = Partial /\ \E q \in Prov \ {p} : pc[q] = "fill" /\ Current(q).checksum = c
      BY <3>2 DEF Copied
    <3>4. artifacts[c] # Absent
      BY <1>6, <2>5 DEF StoreInv, TargetInv, CopyFills
    <3>5. c \in doubted => c \in doubted'
      BY <1>6 DEF CopyFills
    <3>6. ASSUME artifacts[c] \notin {Partial, c} PROVE c \in doubted'
      BY <3>4, <3>5, <3>6 DEF StoreInv, WrongInv
    <3>7. ASSUME NEW q \in Prov \ {p}, pc[q] = "fill", Current(q).checksum = c PROVE OwedBySome(c)'
      <4>1. PICK j \in Nat : j = at[q]
        BY EntryType
      <4>2. OwedAt(q, j) /\ entries[q][j].checksum = c
        BY <3>7, <4>1, EntryType DEF TypeOK, OwedAt, InLoop, Current
      <4>3. StillOwed(q, j)
        BY <2>2, <4>2
      <4> QED
        BY <4>2, <4>3 DEF OwedBySome, StillOwed
    <3>8. artifacts'[c] = c \/ (artifacts'[c] = Partial /\ (c \in doubted' \/ OwedBySome(c)'))
      BY <3>3, <3>6, <3>7
    <3> QED
      BY <1>6, <3>5, <3>8 DEF CopyFills, Effect
  <2> QED
    BY <2>3, <2>4, <2>5
<1>7. ASSUME NEW p \in Prov, CopyThrows(p) \/ Kill(p) PROVE Effect(c)
  <2>1. PICK how \in {"dead", "killed"} : Dies(p, how)
    BY <1>7 DEF CopyThrows, Kill
  <2>2. \A q \in Prov : \A j \in Nat : OwedAt(q, j) /\ q # p => StillOwed(q, j)
    BY <2>1 DEF Dies, OwedAt, StillOwed
  <2>3. OwedBySome(c) => OwedBySome(c)' \/ c \in Owed(p)
    BY <2>2, OwedMeans DEF OwedBySome, StillOwed
  <2> QED
    BY <2>1, <2>3 DEF Dies, Effect
<1>8. ASSUME NEW p \in Prov, LoopDone(p) PROVE Effect(c)
  <2>1. \A q \in Prov : \A j \in Nat : OwedAt(q, j) => StillOwed(q, j)
    BY <1>8, EntryType DEF TypeOK, LoopDone, NextPhase, InLoop, OwedAt, StillOwed
  <2> QED
    BY <1>8, <2>1, NothingLost DEF LoopDone
<1>9. ASSUME NEW p \in Prov, Start(p) \/ CommandEnds(p) PROVE Effect(c)
  <2>1. \A q \in Prov : \A j \in Nat : OwedAt(q, j) => StillOwed(q, j)
    BY <1>9 DEF TypeOK, Start, CommandEnds, Collect, OwedAt, StillOwed
  <2> QED
    BY <1>9, <2>1, NothingLost DEF Start, CommandEnds
<1>10. ASSUME NEW f \in File, NEW d \in Content \cup {Absent}, Change(f, d) PROVE Effect(c)
  <2>1. \A q \in Prov : \A j \in Nat : OwedAt(q, j) => StillOwed(q, j)
    BY <1>10 DEF Change, OwedAt, StillOwed
  <2> QED
    BY <1>10, <2>1, NothingLost DEF Change
<1>11. CASE UNCHANGED vars
  <2>1. \A q \in Prov : \A j \in Nat : OwedAt(q, j) => StillOwed(q, j)
    BY <1>11 DEF vars, OwedAt, StillOwed
  <2> QED
    BY <1>11, <2>1, NothingLost DEF vars
<1> QED
  BY <1>1, <1>2, <1>3, <1>4, <1>5, <1>6, <1>7, <1>8, <1>9, <1>10, <1>11, NextSteps

LEMMA KeptStable ==
    ASSUME TypeOK, StoreInv, [Next]_vars, NEW c \in Content, KeptNow(c)
    PROVE  KeptNow(c)'
  BY StepEffect DEF KeptNow, Effect

\* The invariants of a checksum follow from what a step does to it.
LEMMA ChecksumsNext ==
    ASSUME TypeOK, StoreInv, [Next]_vars
    PROVE  PartialInv' /\ WrongInv' /\ RowsInv'
<1>1. ASSUME NEW c \in Content PROVE Effect(c)
  BY StepEffect
<1>2. PartialInv'
  <2> SUFFICES ASSUME NEW c \in Content, artifacts'[c] = Partial
               PROVE  OwedBySome(c)' \/ c \in doubted'
    BY DEF PartialInv
  <2> QED
    BY <1>1, ArtifactStoreAssumption DEF Effect, StoreInv, PartialInv
<1>3. WrongInv'
  <2> SUFFICES ASSUME NEW c \in Content, artifacts'[c] \notin {Absent, Partial, c}
               PROVE  c \in doubted'
    BY DEF WrongInv
  <2> QED
    BY <1>1 DEF Effect, StoreInv, WrongInv
<1>4. RowsInv'
  <2>1. rows' \subseteq Content
    BY TypeNext DEF TypeOK
  <2> SUFFICES ASSUME NEW c \in Content, c \in rows' PROVE KeptNow(c)'
    BY <2>1 DEF RowsInv
  <2> QED
    BY <1>1, KeptStable DEF Effect, StoreInv, RowsInv, KeptNow
<1> QED
  BY <1>2, <1>3, <1>4

LEMMA FreshNext ==
    ASSUME TypeOK, StoreInv, [Next]_vars
    PROVE  FreshInv'
<1> USE DEF storeVars, loopVars, commandVars
<1>1. ASSUME NEW p \in Prov, Visit(p) PROVE FreshInv'
  <2>1. \A j \in 1..Len(entries[p]) : ~entries[p][j].missing
    BY <1>1 DEF StoreInv, FreshInv, Visit
  <2>2. \A j \in 1..Len(entries'[p]) : ~entries'[p][j].missing
    BY <1>1, <2>1, VisitResult
  <2>3. \A q \in Prov : q # p => entries'[q] = entries[q]
    BY <1>1, VisitResult
  <2> QED
    BY <1>1, <2>2, <2>3 DEF StoreInv, FreshInv, Visit
<1>2. ASSUME NEW p \in Prov, Select(p) PROVE FreshInv'
  <2>1. \A q \in Prov : \A j \in 1..Len(entries[q]) :
            (q # p \/ j # at[p]) => entries'[q][j] = entries[q][j]
    BY <1>2, SelectEntries
  <2>2. \A q \in Prov : Len(entries'[q]) = Len(entries[q])
    BY <1>2, SelectEntries
  <2> QED
    BY <1>2, <2>1, <2>2, EntryType DEF TypeOK, StoreInv, FreshInv, Select
<1>3. ASSUME NEW p \in Prov, LoopDone(p) PROVE FreshInv'
  BY <1>3 DEF TypeOK, StoreInv, FreshInv, LoopDone, NextPhase
<1>4. ASSUME NEW p \in Prov, Insert(p) \/ CopySkips(p) PROVE FreshInv'
  BY <1>4 DEF TypeOK, StoreInv, FreshInv, Insert, CopySkips
<1>5. ASSUME NEW p \in Prov, CopyOpens(p) \/ CopyFills(p) PROVE FreshInv'
  <2>1. entries' = entries /\ pc'[p] \in {"copy", "fill"}
    BY <1>5 DEF TypeOK, CopyOpens, CopyFills
  <2>2. \A q \in Prov : q # p => pc'[q] = pc[q] /\ at'[q] = at[q]
    BY <1>5 DEF TypeOK, CopyOpens, CopyFills
  <2>3. FreshInv
    BY DEF StoreInv
  <2> QED
    BY ONLY <2>1, <2>2, <2>3 DEF FreshInv
<1>6. ASSUME NEW p \in Prov, CopyThrows(p) \/ Kill(p) PROVE FreshInv'
  BY <1>6 DEF TypeOK, StoreInv, FreshInv, CopyThrows, Kill, Dies
<1>7. ASSUME NEW p \in Prov, Start(p) \/ CommandEnds(p) PROVE FreshInv'
  <2>1. pc'[p] = "hash" /\ Len(entries'[p]) = 0
        /\ \A q \in Prov : q # p => entries'[q] = entries[q] /\ pc'[q] = pc[q]
    BY <1>7 DEF TypeOK, Start, CommandEnds, Collect
  <2> QED
    BY <1>7, <2>1 DEF StoreInv, FreshInv, Start, CommandEnds
<1>8. ASSUME NEW f \in File, NEW c \in Content \cup {Absent}, Change(f, c) PROVE FreshInv'
  BY <1>8 DEF StoreInv, FreshInv, Change
<1>9. CASE UNCHANGED vars
  BY <1>9 DEF StoreInv, FreshInv, vars
<1> QED
  BY <1>1, <1>2, <1>3, <1>4, <1>5, <1>6, <1>7, <1>8, <1>9, NextSteps

LEMMA HashNext ==
    ASSUME TypeOK, StoreInv, [Next]_vars
    PROVE  HashInv'
<1> USE DEF storeVars, loopVars, commandVars
<1>1. ASSUME NEW p \in Prov, Visit(p) PROVE HashInv'
  <2>1. \A j \in 1..Len(entries'[p]) :
            \/ \E k \in 1..Len(entries[p]) : entries'[p][j] = entries[p][k]
            \/ workspace[entries'[p][j].path] = entries'[p][j].checksum
    BY <1>1, VisitResult
  <2>2. \A j \in 1..Len(entries'[p]) :
            entries'[p][j].path \notin stale[p] =>
                workspace[entries'[p][j].path] = entries'[p][j].checksum
    BY <2>1 DEF StoreInv, HashInv
  <2>3. \A q \in Prov : q # p => entries'[q] = entries[q]
    BY <1>1, VisitResult
  <2> QED
    BY <1>1, <2>2, <2>3 DEF StoreInv, HashInv, Visit, Current
<1>2. ASSUME NEW p \in Prov, Select(p) PROVE HashInv'
  <2>1. \A q \in Prov : pc[q] = "fill" => q # p /\ at[q] \in 1..Len(entries[q])
    BY <1>2, EntryType DEF TypeOK, Select, InLoop
  <2>2. \A q \in Prov : pc[q] = "fill" => Current(q)' = Current(q)
    BY <1>2, <2>1, SelectEntries DEF TypeOK, Select, Current
  <2> QED
    BY <1>2, <2>2, SelectEntries DEF TypeOK, StoreInv, HashInv, Select
<1>3. ASSUME NEW p \in Prov, LoopDone(p) PROVE HashInv'
  BY <1>3 DEF TypeOK, StoreInv, HashInv, LoopDone, NextPhase, Current
<1>4. ASSUME NEW p \in Prov, Insert(p) \/ CopySkips(p) PROVE HashInv'
  BY <1>4 DEF TypeOK, StoreInv, HashInv, Insert, CopySkips, Current
<1>5. ASSUME NEW p \in Prov, CopyOpens(p) PROVE HashInv'
  <2>1. at[p] \in 1..Len(entries[p])
    BY <1>5, EntryType DEF CopyOpens, InLoop
  <2> QED
    BY <1>5, <2>1 DEF TypeOK, StoreInv, HashInv, CopyOpens, Current
<1>6. ASSUME NEW p \in Prov, CopyFills(p) PROVE HashInv'
  BY <1>6 DEF TypeOK, StoreInv, HashInv, CopyFills, Current
<1>7. ASSUME NEW p \in Prov, CopyThrows(p) \/ Kill(p) PROVE HashInv'
  BY <1>7 DEF TypeOK, StoreInv, HashInv, CopyThrows, Kill, Dies, Current
<1>8. ASSUME NEW p \in Prov, Start(p) \/ CommandEnds(p) PROVE HashInv'
  <2>1. pc'[p] = "hash" /\ Len(entries'[p]) = 0
        /\ \A q \in Prov : q # p =>
              entries'[q] = entries[q] /\ pc'[q] = pc[q] /\ stale'[q] = stale[q]
    BY <1>8 DEF TypeOK, Start, CommandEnds, Collect
  <2> QED
    BY <1>8, <2>1 DEF StoreInv, HashInv, Start, CommandEnds, Current
<1>9. ASSUME NEW f \in File, NEW c \in Content \cup {Absent}, Change(f, c) PROVE HashInv'
  <2>1. \A q \in Prov : \A j \in 1..Len(entries[q]) :
            entries[q][j].path \notin stale'[q] =>
                entries[q][j].path \notin stale[q] /\ entries[q][j].path # f
    BY <1>9 DEF TypeOK, Change, Entries
  <2>2. \A q \in Prov : pc[q] = "fill" => at[q] \in 1..Len(entries[q])
    BY EntryType DEF TypeOK, InLoop
  <2>3. \A g : g # f => workspace'[g] = workspace[g]
    BY <1>9 DEF TypeOK, Change
  <2>4. pc' = pc /\ entries' = entries /\ at' = at /\ source' = source
    BY <1>9 DEF Change
  <2>5. HashInv
    BY DEF StoreInv
  <2> QED
    BY ONLY <2>1, <2>2, <2>3, <2>4, <2>5 DEF HashInv, Current
<1>10. CASE UNCHANGED vars
  <2>1. /\ pc' = pc /\ at' = at /\ entries' = entries /\ source' = source
        /\ workspace' = workspace /\ stale' = stale
    BY <1>10 DEF vars
  <2>2. HashInv
    BY DEF StoreInv
  <2> QED
    BY ONLY <2>1, <2>2 DEF HashInv, Current
<1> QED
  BY <1>1, <1>2, <1>3, <1>4, <1>5, <1>6, <1>7, <1>8, <1>9, <1>10, NextSteps

LEMMA TargetNext ==
    ASSUME TypeOK, StoreInv, [Next]_vars
    PROVE  TargetInv'
<1> USE DEF storeVars, loopVars, commandVars
<1>1. \A c \in Content : artifacts[c] # Absent => artifacts'[c] # Absent
  BY StepEffect, ArtifactStoreAssumption DEF Effect
<1>2. ASSUME NEW q \in Prov, pc'[q] = "fill"
      PROVE  \/ \E p \in Prov : p = q /\ CopyOpens(p)
             \/ pc[q] = "fill" /\ Current(q)' = Current(q) /\ Current(q) \in Entry
  <2>1. ASSUME pc[q] = "fill" PROVE Current(q) \in Entry /\ at[q] \in 1..Len(entries[q])
    BY <2>1, EntryType DEF TypeOK, InLoop, Current
  <2>2. ASSUME NEW p \in Prov, Visit(p) PROVE pc[q] = "fill" /\ Current(q)' = Current(q)
    BY <1>2, <2>2, VisitResult DEF Visit, Current
  <2>3. ASSUME NEW p \in Prov, Select(p) PROVE pc[q] = "fill" /\ Current(q)' = Current(q)
    <3>1. q # p /\ pc[q] = "fill" /\ at'[q] = at[q]
      BY <1>2, <2>3 DEF TypeOK, Select
    <3> QED
      BY <2>1, <2>3, <3>1, SelectEntries DEF Current
  <2>4. ASSUME NEW p \in Prov, \/ Insert(p) \/ CopySkips(p) \/ CopyFills(p) \/ CopyThrows(p)
                               \/ LoopDone(p) \/ Kill(p)
        PROVE  pc[q] = "fill" /\ Current(q)' = Current(q)
    BY <1>2, <2>4 DEF TypeOK, Insert, CopySkips, CopyFills, CopyThrows, LoopDone, NextPhase,
                      Kill, Dies, Current
  <2>5. ASSUME NEW p \in Prov, CopyOpens(p)
        PROVE  p = q \/ (pc[q] = "fill" /\ Current(q)' = Current(q))
    BY <1>2, <2>5 DEF TypeOK, CopyOpens, Current
  <2>6. ASSUME NEW p \in Prov, Start(p) \/ CommandEnds(p)
        PROVE  pc[q] = "fill" /\ Current(q)' = Current(q)
    BY <1>2, <2>6 DEF TypeOK, Start, CommandEnds, Collect, Current
  <2>7. ASSUME NEW f \in File, NEW c \in Content \cup {Absent}, Change(f, c)
        PROVE  pc[q] = "fill" /\ Current(q)' = Current(q)
    BY <1>2, <2>7 DEF Change, Current
  <2>8. CASE UNCHANGED vars
    BY <1>2, <2>1, <2>8 DEF vars, Current
  <2> QED
    BY <2>1, <2>2, <2>3, <2>4, <2>5, <2>6, <2>7, <2>8, NextSteps
<1>3. ASSUME NEW p \in Prov, CopyOpens(p) PROVE artifacts'[Current(p)'.checksum] # Absent
  <2>1. Current(p) \in Entry /\ Current(p)' = Current(p)
    BY <1>3, EntryType DEF CopyOpens, InLoop, Current
  <2> QED
    BY <1>3, <2>1, ArtifactStoreAssumption DEF TypeOK, CopyOpens, Entry
<1>4. ASSUME NEW q \in Prov, pc[q] = "fill", Current(q)' = Current(q), Current(q) \in Entry
      PROVE  artifacts'[Current(q)'.checksum] # Absent
  <2>1. Current(q).checksum \in Content
    BY <1>4 DEF Entry
  <2> QED
    BY <1>1, <1>4, <2>1 DEF StoreInv, TargetInv
<1> QED
  BY <1>2, <1>3, <1>4 DEF TargetInv

LEMMA PassNext ==
    ASSUME TypeOK, PassInv, [Next]_vars
    PROVE  PassInv'
<1> USE DEF storeVars, loopVars, commandVars
<1>1. ASSUME NEW p \in Prov, Visit(p) \/ Select(p) \/ Insert(p) \/ CopySkips(p) PROVE PassInv'
  BY <1>1 DEF TypeOK, PassInv, Visit, Select, Insert, CopySkips
<1>2. ASSUME NEW p \in Prov, CopyOpens(p) \/ CopyFills(p) PROVE PassInv'
  BY <1>2 DEF TypeOK, PassInv, CopyOpens, CopyFills
<1>3. ASSUME NEW p \in Prov, CopyThrows(p) \/ Kill(p) PROVE PassInv'
  BY <1>3 DEF TypeOK, PassInv, CopyThrows, Kill, Dies
<1>4. ASSUME NEW p \in Prov, LoopDone(p) PROVE PassInv'
  BY <1>4 DEF TypeOK, PassInv, LoopDone, NextPhase
<1>5. ASSUME NEW p \in Prov, Start(p) \/ CommandEnds(p) PROVE PassInv'
  <2>1. CASE Start(p)
    BY <2>1 DEF TypeOK, PassInv, Start, Collect
  <2>2. CASE CommandEnds(p)
    <3>1. /\ pc'[p] = "hash" /\ pass'[p] = 2
          /\ \A q \in Prov : q # p =>
                pc'[q] = pc[q] /\ pass'[q] = pass[q] /\ left'[q] = left[q]
      BY <2>2 DEF TypeOK, CommandEnds, Collect
    <3> QED
      BY <3>1 DEF PassInv
  <2> QED
    BY <1>5, <2>1, <2>2
<1>6. ASSUME NEW f \in File, NEW c \in Content \cup {Absent}, Change(f, c) PROVE PassInv'
  BY <1>6 DEF TypeOK, PassInv, Change
<1>7. CASE UNCHANGED vars
  BY <1>7 DEF PassInv, vars
<1> QED
  BY <1>1, <1>2, <1>3, <1>4, <1>5, <1>6, <1>7, NextSteps

\* LeftInv of one prov and one file its command left.
LeftOf(p, l) == l[1] \notin deleted[p] =>
    /\ pc[p] = "hash" =>
          \/ l[1] \in todo[p] /\ workspace[l[1]] = l[2]
          \/ \E j \in 1..Len(entries[p]) : entries[p][j].checksum = l[2]
    /\ pc[p] = "select" =>
          \/ \E j \in 1..Len(entries[p]) : j >= at[p] /\ entries[p][j].checksum = l[2]
          \/ KeptNow(l[2])
    /\ pc[p] \in {"insert", "copy", "fill", "done"} => KeptNow(l[2])

LEMMA LeftNext ==
    ASSUME TypeOK, StoreInv, PassInv, LeftInv, [Next]_vars
    PROVE  LeftInv'
<1> USE DEF storeVars, loopVars, commandVars
<1> SUFFICES ASSUME NEW q \in Prov, NEW l \in File \X Content, l \in left'[q]
             PROVE  LeftOf(q, l)'
  BY TypeNext DEF LeftInv, LeftOf, TypeOK
<1>1. l \in left[q] => LeftOf(q, l)
  BY DEF LeftInv, LeftOf
<1>2. l[1] \in File /\ l[2] \in Content
  OBVIOUS
<1>3. KeptNow(l[2]) => KeptNow(l[2])'
  BY <1>2, KeptStable
<1> DEFINE Same == /\ entries'[q] = entries[q] /\ todo'[q] = todo[q] /\ at'[q] = at[q]
                   /\ workspace' = workspace /\ left'[q] = left[q] /\ deleted'[q] = deleted[q]
<1>4. ASSUME Same, pc'[q] = pc[q] \/ pc'[q] \in {"dead", "killed"} PROVE LeftOf(q, l)'
  BY <1>1, <1>3, <1>4 DEF LeftOf
<1>5. ASSUME NEW p \in Prov, Visit(p) PROVE LeftOf(q, l)'
  <2>1. CASE p # q
    <3>1. entries'[q] = entries[q] /\ todo'[q] = todo[q]
      BY <1>5, <2>1, VisitResult DEF TypeOK, Visit
    <3> QED
      BY <1>4, <1>5, <3>1 DEF Visit
  <2>2. CASE p = q
    <3>1. LeftOf(q, l) /\ pc[q] = "hash" /\ pc' = pc /\ deleted' = deleted /\ workspace' = workspace
      BY <1>1, <1>5, <2>2 DEF Visit
    <3>2. ASSUME l[1] \in todo[q], workspace[l[1]] = l[2]
          PROVE  \/ l[1] \in todo'[q]
                 \/ \E j \in 1..Len(entries'[q]) : entries'[q][j].checksum = l[2]
      <4>1. \A f \in todo[q] : workspace[f] \in Content =>
                \/ f \in todo'[q]
                \/ \E j \in 1..Len(entries'[q]) : entries'[q][j].checksum = workspace[f]
        BY <1>5, <2>2, VisitResult
      <4> QED
        BY <1>2, <3>2, <4>1
    <3>3. ASSUME NEW k \in 1..Len(entries[q]), entries[q][k].checksum = l[2]
          PROVE  \E j \in 1..Len(entries'[q]) : entries'[q][j].checksum = l[2]
      BY <1>5, <2>2, <3>3, VisitResult
    <3> QED
      BY <3>1, <3>2, <3>3 DEF LeftOf
  <2> QED
    BY <2>1, <2>2
<1>6. ASSUME NEW p \in Prov, Select(p) PROVE LeftOf(q, l)'
  <2>1. CASE p # q
    BY <1>6, <2>1, <1>1, <1>3, SelectEntries DEF TypeOK, Select, LeftOf
  <2>2. CASE p = q
    <3>1. /\ LeftOf(q, l) /\ pc[q] = "select" /\ pc' = pc /\ deleted' = deleted
          /\ at'[q] = at[q] + 1 /\ at[q] \in 1..Len(entries[q]) /\ at[q] \in Nat
      BY <1>1, <1>6, <2>2, SelectEntries DEF TypeOK, Select
    <3>2. ASSUME NEW k \in 1..Len(entries[q]), k >= at[q], k # at[q], entries[q][k].checksum = l[2]
          PROVE  \E j \in 1..Len(entries'[q]) : j >= at'[q] /\ entries'[q][j].checksum = l[2]
      <4>1. Len(entries'[q]) = Len(entries[q]) /\ entries'[q][k].checksum = l[2]
        BY <1>6, <2>2, <3>2, SelectEntries
      <4>2. k >= at'[q] /\ k \in 1..Len(entries'[q])
        BY <3>1, <3>2, <4>1
      <4> QED
        BY <4>1, <4>2
    <3>3. ASSUME entries[q][at[q]].checksum = l[2] PROVE KeptNow(l[2])'
      <4>1. CASE entries'[q][at[q]].missing
        <5>1. PICK j \in Nat : j = at[q]
          BY <3>1
        <5>2. OwedAt(q, j)'
          BY <1>6, <2>2, <3>1, <4>1, <5>1, SelectEntries DEF OwedAt
        <5>3. entries'[q][j].checksum = l[2]
          BY <1>6, <2>2, <3>1, <3>3, <5>1, SelectEntries
        <5> QED
          BY <5>2, <5>3 DEF KeptNow, OwedBySome
      <4>2. CASE ~entries'[q][at[q]].missing
        <5>1. l[2] \in rows
          BY <1>6, <2>2, <3>3, <4>2, SelectEntries
        <5> QED
          BY <1>3, <5>1 DEF StoreInv, RowsInv
      <4> QED
        BY <4>1, <4>2
    <3> QED
      BY <1>3, <3>1, <3>2, <3>3 DEF LeftOf
  <2> QED
    BY <2>1, <2>2
<1>7. ASSUME NEW p \in Prov, Insert(p) \/ CopySkips(p) PROVE LeftOf(q, l)'
  <2>1. pc' = pc /\ left' = left /\ deleted' = deleted /\ pc[p] \in {"insert", "copy"}
    BY <1>7 DEF Insert, CopySkips
  <2>2. p # q => Same
    BY <1>7 DEF TypeOK, Insert, CopySkips
  <2>3. p = q => LeftOf(q, l)'
    BY <1>1, <1>3, <2>1 DEF LeftOf
  <2> QED
    BY <1>4, <2>1, <2>2, <2>3
<1>8. ASSUME NEW p \in Prov, CopyOpens(p) \/ CopyFills(p) PROVE LeftOf(q, l)'
  <2>1. left' = left /\ deleted' = deleted /\ pc[p] \in {"copy", "fill"} /\ pc'[p] \in {"copy", "fill"}
    BY <1>8 DEF TypeOK, CopyOpens, CopyFills
  <2>2. p # q => Same /\ pc'[q] = pc[q]
    BY <1>8 DEF TypeOK, CopyOpens, CopyFills
  <2>3. p = q => LeftOf(q, l)'
    BY <1>1, <1>3, <2>1 DEF LeftOf
  <2> QED
    BY <1>4, <2>2, <2>3
<1>9. ASSUME NEW p \in Prov, CopyThrows(p) \/ Kill(p) PROVE LeftOf(q, l)'
  <2>1. Same /\ (pc'[q] = pc[q] \/ pc'[q] \in {"dead", "killed"})
    BY <1>9 DEF TypeOK, CopyThrows, Kill, Dies
  <2> QED
    BY <1>4, <2>1
<1>10. ASSUME NEW p \in Prov, LoopDone(p) PROVE LeftOf(q, l)'
  <2>1. CASE p # q
    <3>1. Same /\ pc'[q] = pc[q]
      BY <1>10, <2>1 DEF TypeOK, LoopDone
    <3> QED
      BY <1>4, <3>1
  <2>2. CASE p = q
    <3>1. /\ l \in left[q] /\ LeftOf(q, l) /\ deleted' = deleted /\ entries' = entries
          /\ at'[q] = 1 /\ pc'[q] = NextPhase(q)
      BY <1>1, <1>10, <2>2 DEF TypeOK, LoopDone
    <3>2. CASE pc[q] = "hash"
      BY <1>10, <2>2, <3>1, <3>2 DEF LeftOf, LoopDone, NextPhase
    <3>3. CASE pc[q] = "select"
      <4>1. \A j \in 1..Len(entries[q]) : ~(j >= at[q])
        BY <1>10, <2>2, <3>3, EntryType DEF LoopDone, InLoop
      <4> QED
        BY <1>3, <3>1, <3>3, <4>1 DEF LeftOf, NextPhase
    <3>4. CASE pc[q] \in {"insert", "copy"}
      BY <1>3, <3>1, <3>4 DEF LeftOf, NextPhase
    <3> QED
      BY <1>10, <2>2, <3>2, <3>3, <3>4 DEF LoopDone
  <2> QED
    BY <2>1, <2>2
<1>11. ASSUME NEW p \in Prov, Start(p) PROVE LeftOf(q, l)'
  <2>1. p # q => Same /\ pc'[q] = pc[q]
    BY <1>11 DEF TypeOK, Start, Collect
  <2>2. p = q => FALSE
    BY <1>11 DEF TypeOK, PassInv, Start
  <2> QED
    BY <1>4, <2>1, <2>2
<1>12. ASSUME NEW p \in Prov, CommandEnds(p) PROVE LeftOf(q, l)'
  <2>1. p # q => Same /\ pc'[q] = pc[q]
    BY <1>12 DEF TypeOK, CommandEnds, Collect
  <2>2. CASE p = q
    <3>1. /\ pc'[q] = "hash" /\ (written[q] \ deleted[q]) \cap RootOf[q] \subseteq todo'[q]
          /\ workspace' = workspace /\ deleted' = deleted
          /\ left'[q] = {<<f, workspace[f]>> : f \in {g \in written[q] \cap RootOf[q] : workspace[g] # Absent}}
      BY <1>12, <2>2 DEF TypeOK, CommandEnds, Collect, Ended
    <3>2. PICK f \in written[q] \cap RootOf[q] : l = <<f, workspace[f]>>
      BY <3>1
    <3>3. l[1] = f /\ l[2] = workspace[f]
      BY <3>2
    <3> QED
      BY <3>1, <3>2, <3>3 DEF LeftOf
  <2> QED
    BY <1>4, <2>1, <2>2
<1>13. ASSUME NEW f \in File, NEW c \in Content \cup {Absent}, Change(f, c),
              \A p \in Prov : pc[p] # "run" => deleted'[p] = deleted[p]
       PROVE  LeftOf(q, l)'
  <2>1. /\ pc' = pc /\ entries' = entries /\ todo' = todo /\ at' = at
        /\ \A g : g # f => workspace'[g] = workspace[g]
        /\ l \in left[q] /\ (f \in todo[q] => l[1] # f)
    BY <1>13 DEF TypeOK, Change
  <2>2. pc[q] = "run" \/ deleted'[q] = deleted[q]
    BY <1>13
  <2>3. l[1] \in todo[q] => workspace'[l[1]] = workspace[l[1]]
    BY <2>1
  <2> QED
    BY <1>1, <1>3, <2>1, <2>2, <2>3 DEF LeftOf
<1>14. CASE UNCHANGED vars
  <2>1. Same /\ pc'[q] = pc[q]
    BY <1>14 DEF vars
  <2> QED
    BY <1>4, <2>1
<1> QED
  BY <1>5, <1>6, <1>7, <1>8, <1>9, <1>10, <1>11, <1>12, <1>13, <1>14, NextSteps

-----------------------------------------------------------------------------
LEMMA InvInit == Init => IInv
<1> SUFFICES ASSUME Init PROVE IInv
  OBVIOUS
<1>1. \A p \in Prov : Len(entries[p]) = 0 /\ pc[p] = "idle" /\ pass[p] = 1 /\ left[p] = {}
  BY DEF Init
<1>2. rows = {} /\ \A c \in Content : artifacts[c] = Absent
  BY DEF Init
<1> QED
  BY <1>1, <1>2, InitType, ArtifactStoreAssumption
     DEF IInv, StoreInv, FreshInv, HashInv, TargetInv, PartialInv, WrongInv, RowsInv,
         PassInv, LeftInv

LEMMA InvNext == IInv /\ [Next]_vars => IInv'
  BY TypeNext, FreshNext, HashNext, TargetNext, ChecksumsNext, PassNext, LeftNext
     DEF IInv, StoreInv

\* The variables of the store hold rows, files and phases of their types, and
\* a copy that is open stands at a missing entry, whatever the provs do.
THEOREM TypeCorrect == Spec => []TypeOK
<1>1. Init => TypeOK
  BY InitType
<1>2. TypeOK /\ [Next]_vars => TypeOK'
  BY TypeNext
<1> QED
  BY <1>1, <1>2, PTL DEF Spec

LEMMA Invariance == Spec => []IInv
  BY InvInit, InvNext, PTL DEF Spec

LEMMA KeptNowIsKept == ASSUME NEW c PROVE KeptNow(c) <=> Kept(c)
  BY OwedMeans DEF KeptNow, Kept, OwedBySome

\* A checksum in checksums.db (insert_missing_checksums) has its file in
\* artifact_files, or a living prov is still to copy it, or the prov that was
\* to copy it died or found the file changed.
THEOREM RecordedStayKept == Spec => []RecordedIsKept
<1>1. IInv => RecordedIsKept
  BY KeptNowIsKept DEF IInv, StoreInv, RowsInv, RecordedIsKept
<1> QED
  BY <1>1, Invariance, PTL

\* A file of artifact_files (copy_files) that nobody is copying has the contents
\* of its name, unless a fault is known: overlapping copies leave no other.
THEOREM ArtifactsStayTrue == Spec => []ArtifactsAreTrue
<1>1. IInv => ArtifactsAreTrue
  <2> SUFFICES ASSUME IInv, NEW c \in Content, artifacts[c] \notin {Absent, c}
               PROVE  c \in doubted \/ \E p \in Prov : c \in Owed(p)
    BY DEF ArtifactsAreTrue
  <2>1. OwedBySome(c) \/ c \in doubted
    BY DEF IInv, StoreInv, PartialInv, WrongInv
  <2> QED
    BY <2>1, OwedMeans DEF OwedBySome
<1> QED
  BY <1>1, Invariance, PTL

\* When a prov posts its exec (process_files of the second pass is over), what
\* its command wrote under the path and never unlinked is kept.
THEOREM WrittenStaysKept == Spec => []WrittenIsKept
<1>1. IInv => WrittenIsKept
  BY KeptNowIsKept DEF IInv, LeftInv, WrittenIsKept
<1> QED
  BY <1>1, Invariance, PTL

\* No step of any prov touches a checksum that is recorded, complete and owed by
\* nobody, unless the database refuses a lookup (get_missing_checksums).
THEOREM SettledIsStable == Spec => SettledStays
<1>1. ASSUME IInv, [Next]_vars, NEW c \in Content, Settled(c), ~\E p \in Prov : Refused(p)
      PROVE  Settled(c)'
  <2> USE DEF storeVars, loopVars, commandVars
  <2>1. c \in rows /\ artifacts[c] = c /\ ~OwedBySome(c)
    BY <1>1, OwedMeans DEF Settled, OwedBySome
  <2>2. TypeOK /\ StoreInv
    BY <1>1 DEF IInv
  <2>3. ASSUME NEW q \in Prov, NEW j \in Nat, OwedAt(q, j)', entries'[q][j].checksum = c
        PROVE  FALSE
    <3>1. ~(OwedAt(q, j) /\ entries[q][j].checksum = c)
      BY <2>1, <2>3 DEF OwedBySome
    <3>2. ASSUME NEW p \in Prov, Visit(p) PROVE FALSE
      BY <2>2, <2>3, <3>1, <3>2, VisitResult DEF Visit, OwedAt
    <3>3. ASSUME NEW p \in Prov, Select(p) PROVE FALSE
      <4>1. /\ q = p /\ j = at[p] => ~entries'[q][j].missing
        BY <1>1, <2>1, <2>2, <2>3, <3>3, SelectEntries DEF Refused
      <4>2. j \in 1..Len(entries[q]) /\ entries'[q][j].checksum = entries[q][j].checksum
        BY <2>2, <2>3, <3>3, SelectEntries DEF OwedAt
      <4>3. q # p \/ j # at[p]
        BY <2>3, <4>1 DEF OwedAt
      <4>4. entries'[q][j] = entries[q][j]
        BY <2>2, <3>3, <4>2, <4>3, SelectEntries
      <4>5. pc' = pc /\ (q # p => at'[q] = at[q]) /\ pc[p] = "select"
        BY <3>3 DEF Select
      <4> QED
        BY <2>3, <3>1, <4>2, <4>4, <4>5 DEF OwedAt
    <3>4. ASSUME NEW p \in Prov, Insert(p) \/ CopySkips(p) PROVE FALSE
      <4>1. /\ pc' = pc /\ entries' = entries /\ pc[p] \in {"insert", "copy"}
            /\ at'[p] = at[p] + 1 /\ \A r \in Prov : r # p => at'[r] = at[r]
        BY <2>2, <3>4 DEF TypeOK, Insert, CopySkips
      <4>2. j >= at'[q] => j >= at[q]
        BY <2>2, <4>1, EntryType
      <4> QED
        BY <2>3, <3>1, <4>1, <4>2 DEF OwedAt
    <3>5. ASSUME NEW p \in Prov, CopyOpens(p) \/ CopyFills(p) PROVE FALSE
      BY <2>2, <2>3, <3>1, <3>5, EntryType DEF TypeOK, CopyOpens, CopyFills, OwedAt
    <3>6. ASSUME NEW p \in Prov, CopyThrows(p) \/ Kill(p) PROVE FALSE
      BY <2>2, <2>3, <3>1, <3>6 DEF TypeOK, CopyThrows, Kill, Dies, OwedAt
    <3>7. ASSUME NEW p \in Prov, LoopDone(p) PROVE FALSE
      BY <2>2, <2>3, <3>1, <3>7 DEF TypeOK, StoreInv, FreshInv, LoopDone, NextPhase, OwedAt
    <3>8. ASSUME NEW p \in Prov, Start(p) \/ CommandEnds(p) PROVE FALSE
      BY <2>2, <2>3, <3>1, <3>8 DEF TypeOK, Start, CommandEnds, Collect, OwedAt
    <3>9. ASSUME NEW f \in File, NEW d \in Content \cup {Absent}, Change(f, d) PROVE FALSE
      BY <2>3, <3>1, <3>9 DEF Change, OwedAt
    <3>10. CASE UNCHANGED vars
      BY <2>3, <3>1, <3>10 DEF vars, OwedAt
    <3> QED
      BY <1>1, <3>2, <3>3, <3>4, <3>5, <3>6, <3>7, <3>8, <3>9, <3>10, NextSteps
  <2>4. \A q \in Prov : c \notin Owed(q)'
    BY <2>3, OwedMeansNext
  <2>5. c \in rows'
    <3>1. ASSUME NEW p \in Prov, Insert(p) PROVE c \in rows'
      BY <2>1, <3>1 DEF Insert
    <3>2. ASSUME NEW p \in Prov, Visit(p) \/ Select(p) \/ CopySkips(p) \/ CopyOpens(p) \/ CopyFills(p)
          PROVE  c \in rows'
      BY <2>1, <3>2 DEF Visit, Select, CopySkips, CopyOpens, CopyFills
    <3>3. ASSUME NEW p \in Prov, CopyThrows(p) \/ LoopDone(p) \/ Start(p) \/ CommandEnds(p) \/ Kill(p)
          PROVE  c \in rows'
      BY <2>1, <3>3 DEF CopyThrows, LoopDone, Start, CommandEnds, Kill, Dies
    <3>4. ASSUME NEW f \in File, NEW d \in Content \cup {Absent}, Change(f, d) PROVE c \in rows'
      BY <2>1, <3>4 DEF Change
    <3>5. CASE UNCHANGED vars
      BY <2>1, <3>5 DEF vars
    <3> QED
      BY <1>1, <3>1, <3>2, <3>3, <3>4, <3>5, NextSteps
  <2>6. artifacts'[c] = c
    <3>1. ASSUME NEW p \in Prov, CopyOpens(p) \/ CopyFills(p) PROVE artifacts'[c] = artifacts[c]
      <4>1. PICK j \in Nat : j = at[p]
        BY <2>2, EntryType
      <4>2. OwedAt(p, j)
        <5>1. CASE CopyOpens(p)
          BY <2>2, <4>1, <5>1, EntryType DEF CopyOpens, OwedAt, InLoop, Current
        <5>2. CASE CopyFills(p)
          BY <2>2, <4>1, <5>2, EntryType DEF TypeOK, CopyFills, OwedAt, InLoop, Current
        <5> QED
          BY <3>1, <5>1, <5>2
      <4>3. Current(p).checksum # c
        BY <2>1, <4>1, <4>2 DEF OwedBySome, Current
      <4> QED
        BY <2>2, <3>1, <4>3 DEF TypeOK, CopyOpens, CopyFills
    <3>2. ASSUME NEW p \in Prov, Visit(p) \/ Select(p) \/ CopySkips(p) \/ Insert(p)
          PROVE  artifacts' = artifacts
      BY <3>2 DEF Visit, Select, CopySkips, Insert
    <3>3. ASSUME NEW p \in Prov, CopyThrows(p) \/ LoopDone(p) \/ Start(p) \/ CommandEnds(p) \/ Kill(p)
          PROVE  artifacts' = artifacts
      BY <3>3 DEF CopyThrows, LoopDone, Start, CommandEnds, Kill, Dies
    <3>4. ASSUME NEW f \in File, NEW d \in Content \cup {Absent}, Change(f, d)
          PROVE  artifacts' = artifacts
      BY <3>4 DEF Change
    <3>5. CASE UNCHANGED vars
      BY <2>1, <3>5 DEF vars
    <3> QED
      BY <1>1, <2>1, <3>1, <3>2, <3>3, <3>4, <3>5, NextSteps
  <2> QED
    BY <2>4, <2>5, <2>6 DEF Settled
<1>2. IInv /\ [Next]_vars =>
          [\A c \in Content : Settled(c) => Settled(c)' \/ \E p \in Prov : Refused(p)]_vars
  BY <1>1
<1> QED
  BY <1>2, Invariance, PTL DEF Spec, SettledStays

=============================================================================
