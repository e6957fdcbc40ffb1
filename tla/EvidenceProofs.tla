---------------------------- MODULE EvidenceProofs ----------------------------
(***************************************************************************)
(* Proofs about Evidence for every set of sessions, commands and paths,    *)
(* every length of the log and of a batch, and any number of failures and  *)
(* deaths.                                                                 *)
(***************************************************************************)
EXTENDS Evidence, Integers, TLAPS

(***************************************************************************)
(* What Evidence says of the variable log, said of a sequence l of rows:   *)
(* the lemmas about one summary need no state.                             *)
(***************************************************************************)
RowsIn(l, s, op, n) == {i \in 1..n : l[i].session = s /\ l[i].op = op}
CommandsIn(l, s, e) ==
  /\ \A j \in DOMAIN e.commands : e.commands[j] \in RowsIn(l, s, "ssh_command", e.last)
  /\ \A j, k \in DOMAIN e.commands : j < k => e.commands[j] < e.commands[k]
  /\ \A i \in RowsIn(l, s, "ssh_command", e.last) : \E j \in DOMAIN e.commands : e.commands[j] = i
ResultsIn(l, s, e) == e.results = RowsIn(l, s, "ssh_command_result", e.last)
VisitedIn(l, s, e) == e.visited = {l[i].arg : i \in RowsIn(l, s, "visit", e.last)}
SuspicionIn(l, s, e) ==
  IF e.suspicious = 0
  THEN \A i \in RowsIn(l, s, "ssh_command", e.last) : l[i].arg \notin Suspicious
  ELSE /\ e.suspicious \in RowsIn(l, s, "ssh_command", e.last)
       /\ l[e.suspicious].arg \in Suspicious
       /\ \A i \in RowsIn(l, s, "ssh_command", e.suspicious - 1) : l[i].arg \notin Suspicious
EndIn(l, s, e) ==
  IF e.ended = 0 THEN RowsIn(l, s, "ssh_disconnect", e.last) = {}
  ELSE e.ended \in RowsIn(l, s, "ssh_disconnect", e.last)
ExactIn(l, s, e) ==
  /\ e.last \in 0..Len(l)
  /\ CommandsIn(l, s, e) /\ ResultsIn(l, s, e) /\ VisitedIn(l, s, e)
  /\ SuspicionIn(l, s, e) /\ EndIn(l, s, e)

\* A result follows the command it is of, in the same session.
LegalIn(l) ==
  \A i \in DOMAIN l : l[i].op = "ssh_command_result" =>
    \E j \in 1..(i - 1) : /\ l[j].session = l[i].session
                          /\ l[j].op = "ssh_command" /\ l[j].arg = l[i].arg

LEMMA ExactMeans ==
  ASSUME NEW s, NEW e
  PROVE  Exact(s, e) <=> ExactIn(log, s, e)
  BY DEF Exact, ExactIn, Rows, RowsIn, CommandsIn, ResultsIn, VisitedIn, SuspicionIn, EndIn

\* Who has seen no row knows nothing, and rightly so.
LEMMA EmptyExact ==
  ASSUME NEW l \in Seq(Row), NEW s
  PROVE  ExactIn(l, s, NoEvidence) /\ NoEvidence \in Summary
<1>1. \A op : RowsIn(l, s, op, 0) = {}
  BY DEF RowsIn
<1>2. NoEvidence \in Summary
  BY DEF NoEvidence, Summary
<1>3. CommandsIn(l, s, NoEvidence)
  BY <1>1 DEF CommandsIn, NoEvidence
<1>4. ResultsIn(l, s, NoEvidence) /\ VisitedIn(l, s, NoEvidence)
  BY <1>1 DEF ResultsIn, VisitedIn, NoEvidence
<1>5. SuspicionIn(l, s, NoEvidence) /\ EndIn(l, s, NoEvidence)
  BY <1>1 DEF SuspicionIn, EndIn, NoEvidence
<1> QED BY <1>2, <1>3, <1>4, <1>5 DEF ExactIn, NoEvidence

\* A summary stays exact while the log grows.
LEMMA ExactGrows ==
  ASSUME NEW l \in Seq(Row), NEW r \in Row, NEW s, NEW e \in Summary, ExactIn(l, s, e)
  PROVE  ExactIn(Append(l, r), s, e)
<1> DEFINE m == Append(l, r)
<1>1. Len(m) = Len(l) + 1 /\ \A i \in 1..Len(l) : m[i] = l[i]
  OBVIOUS
<1>2. e.last \in 0..Len(l) /\ e.suspicious \in Nat
  BY DEF ExactIn, Summary
<1>3. \A op : \A n \in 0..Len(l) : RowsIn(m, s, op, n) = RowsIn(l, s, op, n)
  BY <1>1 DEF RowsIn
<1>4. \A op : RowsIn(m, s, op, e.last) = RowsIn(l, s, op, e.last)
  BY <1>2, <1>3
<1>5. \A op : \A i \in RowsIn(l, s, op, e.last) : i \in 1..Len(l)
  BY <1>2 DEF RowsIn
<1> HIDE DEF m
<1>6. CommandsIn(m, s, e) /\ ResultsIn(m, s, e)
  BY <1>4 DEF ExactIn, CommandsIn, ResultsIn
<1>7. VisitedIn(m, s, e)
  <2>1. \A i \in RowsIn(l, s, "visit", e.last) : m[i].arg = l[i].arg
    BY <1>1, <1>5
  <2> QED BY <1>4, <2>1 DEF ExactIn, VisitedIn
<1>8. SuspicionIn(m, s, e)
  <2>1. CASE e.suspicious = 0
    BY <2>1, <1>1, <1>4, <1>5 DEF ExactIn, SuspicionIn
  <2>2. CASE e.suspicious # 0
    <3>1. e.suspicious \in RowsIn(l, s, "ssh_command", e.last) /\ l[e.suspicious].arg \in Suspicious
      BY <2>2 DEF ExactIn, SuspicionIn
    <3>2. \A i \in RowsIn(l, s, "ssh_command", e.suspicious - 1) : l[i].arg \notin Suspicious
      BY <2>2 DEF ExactIn, SuspicionIn
    <3>3. e.suspicious \in 1..Len(l) /\ e.suspicious - 1 \in 0..Len(l)
      BY <3>1, <1>5, <1>2
    <3>4. RowsIn(m, s, "ssh_command", e.suspicious - 1) = RowsIn(l, s, "ssh_command", e.suspicious - 1)
      BY <3>3, <1>3
    <3>5. \A i \in RowsIn(l, s, "ssh_command", e.suspicious - 1) : m[i] = l[i]
      BY <3>3, <1>1 DEF RowsIn
    <3>6. m[e.suspicious] = l[e.suspicious]
      BY <3>3, <1>1
    <3> QED BY <2>2, <3>1, <3>2, <3>4, <3>5, <3>6, <1>4 DEF SuspicionIn
  <2> QED BY <2>1, <2>2
<1>9. EndIn(m, s, e)
  BY <1>4 DEF ExactIn, EndIn
<1>10. e.last \in 0..Len(m)
  BY <1>1, <1>2
<1> QED BY <1>6, <1>7, <1>8, <1>9, <1>10 DEF ExactIn, m

(***************************************************************************)
(* A summary that has seen every earlier row of its session is exact again *)
(* when the next one is applied.                                           *)
(***************************************************************************)
\* The result of row i belongs to a command that e holds.
Belongs(l, e, i) == \E j \in DOMAIN e.commands : l[e.commands[j]].arg = l[i].arg
AppliedIn(l, e, i) ==
  CASE l[i].op = "ssh_command"        ->
         [[e EXCEPT !.last = i] EXCEPT !.commands = Append(@, i),
            !.suspicious = IF @ = 0 /\ l[i].arg \in Suspicious THEN i ELSE @]
    [] l[i].op = "ssh_command_result" ->
         IF Belongs(l, e, i)
         THEN [[e EXCEPT !.last = i] EXCEPT !.results = @ \cup {i}] ELSE [e EXCEPT !.last = i]
    [] l[i].op = "visit"              ->
         [[e EXCEPT !.last = i] EXCEPT !.visited = @ \cup {l[i].arg}]
    [] l[i].op = "ssh_disconnect"     -> [[e EXCEPT !.last = i] EXCEPT !.ended = i]

LEMMA AppliedMeans ==
  ASSUME NEW e, NEW i
  PROVE  Applied(e, i) = AppliedIn(log, e, i)
  BY DEF Applied, AppliedIn, Belongs, WithCommand, WithResult, Seen

LEMMA RowFields ==
  ASSUME NEW r \in Row
  PROVE  /\ r.op \in {"ssh_command", "ssh_command_result", "visit", "ssh_disconnect", "write"}
         /\ r.op = "write" => r.session = 0
         /\ r.op = "visit" => r.arg \in Path
         /\ r.session # 0 => r.session \in Session
  BY DEF Row

\* What applying a row does, operation by operation.
Adds(l, e, i, f) ==
  /\ f \in Summary /\ f.last = i
  /\ f.commands = IF l[i].op = "ssh_command" THEN Append(e.commands, i) ELSE e.commands
  /\ f.suspicious = IF l[i].op = "ssh_command" /\ e.suspicious = 0 /\ l[i].arg \in Suspicious
                    THEN i ELSE e.suspicious
  /\ f.results = IF l[i].op = "ssh_command_result" /\ Belongs(l, e, i)
                 THEN e.results \cup {i} ELSE e.results
  /\ f.visited = IF l[i].op = "visit" THEN e.visited \cup {l[i].arg} ELSE e.visited
  /\ f.ended = IF l[i].op = "ssh_disconnect" THEN i ELSE e.ended

\* Applying a row of a session adds to the summary what the row says.
LEMMA AppliedAdds ==
  ASSUME NEW l, NEW i \in Nat, NEW e \in Summary, l[i] \in Row, l[i].session # 0
  PROVE  Adds(l, e, i, AppliedIn(l, e, i))
<1>1. l[i].op \in {"ssh_command", "ssh_command_result", "visit", "ssh_disconnect"}
  BY RowFields
<1>2. CASE l[i].op = "ssh_command"
  <2> DEFINE q == IF e.suspicious = 0 /\ l[i].arg \in Suspicious THEN i ELSE e.suspicious
             c == Append(e.commands, i)
  <2>1. AppliedIn(l, e, i) = [e EXCEPT !.last = i, !.commands = c, !.suspicious = q]
    BY <1>2 DEF AppliedIn, Summary
  <2>2. q \in Nat /\ c \in Seq(Nat)
    BY DEF Summary
  <2>3. l[i].op = "ssh_command" /\ e.suspicious = 0 /\ l[i].arg \in Suspicious
          => q = i
    OBVIOUS
  <2>4. ~(l[i].op = "ssh_command" /\ e.suspicious = 0 /\ l[i].arg \in Suspicious)
          => q = e.suspicious
    BY <1>2
  <2> HIDE DEF q, c
  <2>5. LET g == [e EXCEPT !.last = i, !.commands = c, !.suspicious = q] IN
          /\ g \in Summary /\ g.last = i /\ g.commands = c /\ g.suspicious = q
          /\ g.results = e.results /\ g.visited = e.visited /\ g.ended = e.ended
    BY <2>2 DEF Summary
  <2> QED BY <1>2, <2>1, <2>3, <2>4, <2>5 DEF Adds, c
<1>3. CASE l[i].op = "ssh_command_result"
  BY <1>3 DEF AppliedIn, Adds, Summary
<1>4. CASE l[i].op = "visit"
  <2>1. l[i].arg \in Path
    BY <1>4, RowFields
  <2> QED BY <1>4, <2>1 DEF AppliedIn, Adds, Summary
<1>5. CASE l[i].op = "ssh_disconnect"
  BY <1>5 DEF AppliedIn, Adds, Summary
<1> QED BY <1>1, <1>2, <1>3, <1>4, <1>5

LEMMA AppliedExact ==
  ASSUME NEW l \in Seq(Row), LegalIn(l), NEW i \in DOMAIN l, l[i].session # 0,
         NEW e \in Summary, ExactIn(l, l[i].session, e), e.last < i,
         \A j \in 1..(i - 1) : l[j].session = l[i].session => j <= e.last
  PROVE  /\ ExactIn(l, l[i].session, AppliedIn(l, e, i))
         /\ AppliedIn(l, e, i) \in Summary /\ AppliedIn(l, e, i).last = i
<1> DEFINE s == l[i].session
           f == AppliedIn(l, e, i)
<1>1. i \in 1..Len(l) /\ l[i] \in Row /\ i \in Nat
  OBVIOUS
<1>2. e.last \in 0..Len(l) /\ e.last \in Nat
  BY DEF ExactIn
<1>0. Adds(l, e, i, f)
  BY <1>1, AppliedAdds
<1> HIDE DEF f
<1>3. /\ \A op : l[i].op # op => RowsIn(l, s, op, f.last) = RowsIn(l, s, op, e.last)
      /\ \A op : l[i].op = op => RowsIn(l, s, op, f.last) = RowsIn(l, s, op, e.last) \cup {i}
  <2>1. \A op : l[i].op # op => RowsIn(l, s, op, i) = RowsIn(l, s, op, e.last)
    BY <1>1, <1>2 DEF RowsIn
  <2>2. \A op : l[i].op = op => RowsIn(l, s, op, i) = RowsIn(l, s, op, e.last) \cup {i}
    BY <1>1, <1>2 DEF RowsIn
  <2>3. f.last = i
    BY <1>0 DEF Adds
  <2> QED BY <2>1, <2>2, <2>3
<1>4. \A op : \A j \in RowsIn(l, s, op, e.last) : j \in 1..Len(l) /\ j < i
  BY <1>1, <1>2 DEF RowsIn
<1>5. f \in Summary /\ f.last = i
  BY <1>0 DEF Adds
<1>6. /\ f.commands = IF l[i].op = "ssh_command" THEN Append(e.commands, i) ELSE e.commands
      /\ f.suspicious = IF l[i].op = "ssh_command" /\ e.suspicious = 0 /\ l[i].arg \in Suspicious
                        THEN i ELSE e.suspicious
      /\ f.results = IF l[i].op = "ssh_command_result" /\ Belongs(l, e, i)
                     THEN e.results \cup {i} ELSE e.results
      /\ f.visited = IF l[i].op = "visit" THEN e.visited \cup {l[i].arg} ELSE e.visited
      /\ f.ended = IF l[i].op = "ssh_disconnect" THEN i ELSE e.ended
  BY <1>0 DEF Adds
<1>7. e.commands \in Seq(Nat) /\ e.suspicious \in Nat /\ e.ended \in Nat
  BY DEF Summary
<1>8. CommandsIn(l, s, f)
  <2>1. CASE l[i].op # "ssh_command"
    BY <2>1, <1>3, <1>5, <1>6 DEF ExactIn, CommandsIn
  <2>2. CASE l[i].op = "ssh_command"
    <3> DEFINE c == e.commands
    <3>1. f.commands = Append(c, i) /\ DOMAIN f.commands = 1..(Len(c) + 1) /\ DOMAIN c = 1..Len(c) /\ Len(c) \in Nat
      BY <2>2, <1>6, <1>7, <1>1
    <3>2. f.commands[Len(c) + 1] = i /\ \A j \in 1..Len(c) : f.commands[j] = c[j]
      BY <3>1, <1>7, <1>1
    <3>3. RowsIn(l, s, "ssh_command", f.last) = RowsIn(l, s, "ssh_command", e.last) \cup {i}
      BY <2>2, <1>3, <1>5
    <3>4. \A j \in 1..Len(c) : c[j] \in RowsIn(l, s, "ssh_command", e.last) /\ c[j] < i
      BY <3>1, <1>4 DEF ExactIn, CommandsIn
    <3>5. \A j \in DOMAIN f.commands : f.commands[j] \in RowsIn(l, s, "ssh_command", f.last)
      BY <3>1, <3>2, <3>3, <3>4
    <3>6. \A j, k \in DOMAIN f.commands : j < k => f.commands[j] < f.commands[k]
      <4> SUFFICES ASSUME NEW j \in 1..(Len(c) + 1), NEW k \in 1..(Len(c) + 1), j < k
                   PROVE  f.commands[j] < f.commands[k]
        BY <3>1
      <4>1. j \in 1..Len(c) /\ f.commands[j] = c[j]
        BY <3>2, <1>7
      <4>2. CASE k = Len(c) + 1
        BY <4>1, <4>2, <3>2, <3>4
      <4>3. CASE k # Len(c) + 1
        <5>1. k \in 1..Len(c) /\ f.commands[k] = c[k]
          BY <4>3, <3>1, <3>2
        <5> QED BY <4>1, <5>1, <3>1 DEF ExactIn, CommandsIn
      <4> QED BY <4>2, <4>3
    <3>7. \A r \in RowsIn(l, s, "ssh_command", f.last) : \E j \in DOMAIN f.commands : f.commands[j] = r
      <4> SUFFICES ASSUME NEW r \in RowsIn(l, s, "ssh_command", f.last)
                   PROVE  \E j \in DOMAIN f.commands : f.commands[j] = r
        OBVIOUS
      <4>1. CASE r = i
        BY <4>1, <3>1, <3>2, <1>7
      <4>2. CASE r \in RowsIn(l, s, "ssh_command", e.last)
        <5>1. PICK j \in DOMAIN c : c[j] = r
          BY <4>2 DEF ExactIn, CommandsIn
        <5>2. j \in 1..Len(c) /\ j \in 1..(Len(c) + 1)
          BY <3>1, <1>7
        <5> QED BY <5>1, <5>2, <3>1, <3>2
      <4> QED BY <4>1, <4>2, <3>3
    <3> QED BY <3>5, <3>6, <3>7 DEF CommandsIn
  <2> QED BY <2>1, <2>2
<1>9. ResultsIn(l, s, f)
  <2>1. CASE l[i].op # "ssh_command_result"
    BY <2>1, <1>3, <1>5, <1>6 DEF ExactIn, ResultsIn
  <2>2. CASE l[i].op = "ssh_command_result"
    <3>1. PICK j \in 1..(i - 1) : l[j].session = s /\ l[j].op = "ssh_command" /\ l[j].arg = l[i].arg
      BY <2>2 DEF LegalIn
    <3>2. j \in RowsIn(l, s, "ssh_command", e.last)
      BY <3>1, <1>1, <1>2 DEF RowsIn
    <3>3. Belongs(l, e, i)
      BY <3>1, <3>2 DEF ExactIn, CommandsIn, Belongs
    <3>4. f.results = e.results \cup {i}
      BY <2>2, <3>3, <1>6
    <3> QED BY <2>2, <3>4, <1>3, <1>5 DEF ExactIn, ResultsIn
  <2> QED BY <2>1, <2>2
<1>10. VisitedIn(l, s, f)
  <2>1. CASE l[i].op # "visit"
    BY <2>1, <1>3, <1>5, <1>6 DEF ExactIn, VisitedIn
  <2>2. CASE l[i].op = "visit"
    <3>1. f.visited = e.visited \cup {l[i].arg}
      BY <2>2, <1>6
    <3>2. RowsIn(l, s, "visit", f.last) = RowsIn(l, s, "visit", e.last) \cup {i}
      BY <2>2, <1>3, <1>5
    <3> QED BY <3>1, <3>2 DEF ExactIn, VisitedIn
  <2> QED BY <2>1, <2>2
<1>11. SuspicionIn(l, s, f)
  <2>1. CASE l[i].op # "ssh_command"
    <3>1. f.suspicious = e.suspicious
      BY <2>1, <1>6
    <3>2. RowsIn(l, s, "ssh_command", f.last) = RowsIn(l, s, "ssh_command", e.last)
      BY <2>1, <1>3, <1>5
    <3> QED BY <3>1, <3>2 DEF ExactIn, SuspicionIn
  <2>2. CASE l[i].op = "ssh_command" /\ e.suspicious # 0
    <3>1. f.suspicious = e.suspicious
      BY <2>2, <1>6
    <3>2. RowsIn(l, s, "ssh_command", e.last) \subseteq RowsIn(l, s, "ssh_command", f.last)
      BY <1>3, <1>5
    <3> QED BY <2>2, <3>1, <3>2 DEF ExactIn, SuspicionIn
  <2>3. CASE l[i].op = "ssh_command" /\ e.suspicious = 0 /\ l[i].arg \in Suspicious
    <3>1. f.suspicious = i /\ i # 0
      BY <2>3, <1>6, <1>1
    <3>2. i \in RowsIn(l, s, "ssh_command", f.last)
      BY <2>3, <1>3, <1>5
    <3>3. RowsIn(l, s, "ssh_command", i - 1) \subseteq RowsIn(l, s, "ssh_command", e.last)
      BY <1>1, <1>2 DEF RowsIn
    <3>4. \A r \in RowsIn(l, s, "ssh_command", e.last) : l[r].arg \notin Suspicious
      BY <2>3 DEF ExactIn, SuspicionIn
    <3> QED BY <2>3, <3>1, <3>2, <3>3, <3>4 DEF SuspicionIn
  <2>4. CASE l[i].op = "ssh_command" /\ e.suspicious = 0 /\ l[i].arg \notin Suspicious
    <3>1. f.suspicious = 0
      BY <2>4, <1>6
    <3>2. RowsIn(l, s, "ssh_command", f.last) = RowsIn(l, s, "ssh_command", e.last) \cup {i}
      BY <2>4, <1>3, <1>5
    <3>3. \A r \in RowsIn(l, s, "ssh_command", e.last) : l[r].arg \notin Suspicious
      BY <2>4 DEF ExactIn, SuspicionIn
    <3> QED BY <2>4, <3>1, <3>2, <3>3 DEF SuspicionIn
  <2> QED BY <2>1, <2>2, <2>3, <2>4
<1>12. EndIn(l, s, f)
  <2>1. CASE l[i].op # "ssh_disconnect"
    BY <2>1, <1>3, <1>5, <1>6 DEF ExactIn, EndIn
  <2>2. CASE l[i].op = "ssh_disconnect"
    BY <2>2, <1>1, <1>3, <1>5, <1>6 DEF EndIn
  <2> QED BY <2>1, <2>2
<1>13. f.last \in 0..Len(l)
  BY <1>1, <1>5
<1> QED BY <1>5, <1>8, <1>9, <1>10, <1>11, <1>12, <1>13 DEF ExactIn, f

(***************************************************************************)
(* The inductive invariant.  EvidenceExact and NoneSkipped need each       *)
(* other: a row is applied to a summary that has seen every earlier row of *)
(* its session because the cursor passed none that is not stored.  InHand  *)
(* says what the thread holds between the steps of one row.                *)
(***************************************************************************)
Exacts ==
  \A s \in Session :
    /\ ExactIn(log, s, progress[s]) /\ ExactIn(log, s, cache[s]) /\ ExactIn(log, s, final[s])
    /\ cache[s].last <= progress[s].last /\ final[s].last <= progress[s].last

\* The session of the row in hand.
S == log[Id].session
InHand ==
  /\ pc \in {"save", "cache", "flush", "drop"} => S \in Session /\ S # 0
  /\ pc = "save" => /\ ExactIn(log, S, evidence)
                    /\ evidence.last = Id /\ progress[S].last < Id
  /\ pc = "cache" => evidence = progress[S] /\ evidence.last = Id
  /\ pc \in {"flush", "drop"} => /\ Ends /\ evidence = progress[S] /\ evidence.last >= Id
  /\ pc = "drop" => final[S].last >= Id

IInv == TypeOK /\ LegalIn(log) /\ Exacts /\ NoneSkipped /\ InHand

\* The state an Upserted row leaves is that of evidence or the one before.
LEMMA UpsertedFields ==
  ASSUME NEW t \in [Session -> Summary], NEW s \in Session, evidence \in Summary
  PROVE  /\ Upserted(t, s) \in [Session -> Summary]
         /\ \A r \in Session : r # s => Upserted(t, s)[r] = t[r]
         /\ Upserted(t, s)[s] = IF t[s].last < evidence.last THEN evidence ELSE t[s]
  BY DEF Upserted

LEMMA SummaryLast == ASSUME NEW e \in Summary PROVE e.last \in Nat
  BY DEF Summary

LEMMA InitIInv == Init => IInv
<1> SUFFICES ASSUME Init PROVE IInv
  OBVIOUS
<1>1. log = <<>> /\ log \in Seq(Row) /\ Len(log) = 0 /\ DOMAIN log = {}
  BY DEF Init
<1>2. \A s : ExactIn(log, s, NoEvidence) /\ NoEvidence \in Summary
  BY <1>1, EmptyExact
<1>3. NoEvidence \in Summary
  BY <1>2
<1>4. TypeOK
  BY <1>1, <1>3, EvidenceConstants DEF Init, TypeOK
<1>5. LegalIn(log)
  BY <1>1 DEF LegalIn
<1>6. Exacts
  <2>1. NoEvidence.last = 0
    BY DEF NoEvidence
  <2>2. \A s \in Session : /\ progress[s] = NoEvidence /\ cache[s] = NoEvidence
                           /\ final[s] = NoEvidence
    BY DEF Init
  <2>3. NoEvidence.last <= NoEvidence.last
    BY <2>1
  <2> QED BY <1>2, <2>2, <2>3 DEF Exacts
<1>7. NoneSkipped /\ InHand
  BY DEF Init, NoneSkipped, InHand
<1> QED BY <1>4, <1>5, <1>6, <1>7 DEF IInv

\* A new row is legal: a result is of a command of its session.
LEMMA AppearLegal ==
  ASSUME IInv, NEW row \in Row, RowAppears(row)
  PROVE  LegalIn(log')
<1>1. log \in Seq(Row) /\ log' = Append(log, row) /\ Len(log) \in Nat
  BY DEF IInv, TypeOK, RowAppears
<1>2. /\ DOMAIN log = 1..Len(log) /\ DOMAIN log' = 1..(Len(log) + 1)
      /\ log'[Len(log) + 1] = row /\ \A i \in 1..Len(log) : log'[i] = log[i]
  BY <1>1
<1> SUFFICES ASSUME NEW i \in DOMAIN log', log'[i].op = "ssh_command_result"
             PROVE  \E j \in 1..(i - 1) : /\ log'[j].session = log'[i].session
                                          /\ log'[j].op = "ssh_command"
                                          /\ log'[j].arg = log'[i].arg
  BY DEF LegalIn
<1>3. CASE i \in 1..Len(log)
  <2>1. PICK j \in 1..(i - 1) : /\ log[j].session = log[i].session
                                /\ log[j].op = "ssh_command" /\ log[j].arg = log[i].arg
    BY <1>2, <1>3 DEF IInv, LegalIn
  <2>2. log'[j] = log[j] /\ log'[i] = log[i]
    BY <1>2, <1>3
  <2> QED BY <2>1, <2>2
<1>4. CASE i = Len(log) + 1
  <2>1. Has(row.session, "ssh_command", row.arg)
    BY <1>2, <1>4 DEF RowAppears
  <2>2. PICK j \in DOMAIN log : /\ log[j].session = row.session
                                /\ log[j].op = "ssh_command" /\ log[j].arg = row.arg
    BY <2>1 DEF Has
  <2>3. j \in 1..(i - 1) /\ log'[j] = log[j] /\ log'[i] = row
    BY <1>1, <1>2, <1>4
  <2> QED BY <2>2, <2>3
<1> QED BY <1>1, <1>2, <1>3, <1>4

\* The log grows: what is stored and what is in hand stay exact.
LEMMA AppearStep ==
  ASSUME IInv, NEW row \in Row, RowAppears(row)
  PROVE  IInv'
<1>1. log \in Seq(Row) /\ log' = Append(log, row) /\ Len(log) \in Nat
  BY DEF IInv, TypeOK, RowAppears
<1>2. /\ log' \in Seq(Row) /\ Len(log') = Len(log) + 1
      /\ \A i \in 1..Len(log) : log'[i] = log[i]
  BY <1>1
<1>3. UNCHANGED <<pc, last_id, upto, evidence, progress, cache, final>>
  BY DEF RowAppears, stored
<1>4. /\ last_id \in 0..Len(log) /\ upto \in 0..Len(log) /\ (pc # "poll" => Id <= upto)
  BY DEF IInv, TypeOK
<1>5. TypeOK'
  <2>1. UNCHANGED <<counted, faults, crashes>> /\ Len(log) < MaxRows
    BY DEF RowAppears
  <2>2. Len(log') <= MaxRows /\ last_id' \in 0..Len(log') /\ upto' \in 0..Len(log')
    BY <1>1, <1>2, <1>3, <1>4, <2>1, EvidenceConstants
  <2>3. Id' = Id
    BY <1>3 DEF Id
  <2> QED BY <1>2, <1>3, <1>4, <2>1, <2>2, <2>3 DEF IInv, TypeOK
<1>6. LegalIn(log')
  BY AppearLegal
<1>7. Exacts'
  <2>1. \A s \in Session : /\ progress[s] \in Summary /\ cache[s] \in Summary
                           /\ final[s] \in Summary
    BY DEF IInv, TypeOK
  <2> QED BY <1>1, <1>3, <2>1, ExactGrows DEF IInv, Exacts
<1>8. NoneSkipped'
  <2>1. \A i \in 1..last_id : log'[i] = log[i]
    BY <1>2, <1>4
  <2> QED BY <1>3, <2>1 DEF IInv, NoneSkipped
<1>9. InHand'
  <2>1. CASE pc = "poll"
    BY <2>1, <1>3 DEF InHand
  <2>2. CASE pc # "poll"
    <3>1. Id \in 1..Len(log) /\ Id' = Id /\ log'[Id] = log[Id]
      BY <2>2, <1>2, <1>3, <1>4 DEF Id
    <3>2. S' = S /\ Ends' = Ends
      BY <3>1 DEF S, Ends
    <3>3. pc = "save" => ExactIn(log', S, evidence)
      BY <1>1, ExactGrows DEF IInv, InHand, TypeOK
    <3> QED BY <1>3, <3>1, <3>2, <3>3 DEF IInv, InHand
  <2> QED BY <2>1, <2>2
<1> QED BY <1>5, <1>6, <1>7, <1>8, <1>9 DEF IInv

\* What is true of the row in hand, whatever the step.
LEMMA RowInHand ==
  ASSUME IInv, pc # "poll"
  PROVE  /\ Id \in 1..Len(log) /\ Id \in Nat /\ Id # 0 /\ last_id \in Nat /\ log[Id] \in Row
         /\ Id <= upto /\ upto <= Len(log)
         /\ S # 0 => S \in Session /\ progress[S] \in Summary /\ final[S] \in Summary
<1>1. Id \in 1..Len(log) /\ Id \in Nat /\ Id # 0 /\ last_id \in Nat /\ Id <= upto /\ upto <= Len(log)
  BY DEF IInv, TypeOK, Id
<1>2. log[Id] \in Row
  BY <1>1 DEF IInv, TypeOK
<1>3. S # 0 => S \in Session
  BY <1>2, RowFields DEF S
<1> QED BY <1>1, <1>2, <1>3 DEF IInv, TypeOK

\* A step that leaves the log alone: what then makes TypeOK hold again.
LEMMA TypeStep ==
  ASSUME IInv, log' = log,
         pc' \in {"poll", "next", "save", "cache", "flush", "drop"},
         last_id' \in 0..Len(log), upto' \in 0..Len(log), pc' # "poll" => last_id' + 1 <= upto',
         evidence' \in Summary, progress' \in [Session -> Summary],
         cache' \in [Session -> Summary], final' \in [Session -> Summary],
         counted' \in Nat, faults' \in 0..MaxFaults, crashes' \in 0..MaxCrashes
  PROVE  TypeOK' /\ LegalIn(log')
  BY DEF IInv, TypeOK, Id

\* Where Handled leaves the thread.
LEMMA HandledGoes ==
  ASSUME IInv, pc # "poll", Handled
  PROVE  /\ pc' \in {"poll", "next"} /\ last_id' \in 0..Len(log) /\ last_id' = Id
         /\ pc' # "poll" => last_id' + 1 <= upto
<1>1. Id \in 1..Len(log) /\ Len(log) \in Nat /\ upto \in 0..Len(log)
  BY RowInHand DEF IInv, TypeOK
<1> QED BY <1>1 DEF Handled

\* The cursor passes row Id: nothing is skipped if that row is stored.
LEMMA PassStored ==
  ASSUME IInv, pc # "poll", log' = log, last_id' = Id, progress' = progress, final' = final,
         S # 0 => progress[S].last >= Id, S # 0 /\ Ends => final[S].last >= Id
  PROVE  NoneSkipped'
<1>1. \A i \in 1..Id : i \in 1..last_id \/ i = Id
  BY RowInHand DEF IInv, TypeOK, Id
<1> QED BY <1>1 DEF IInv, NoneSkipped, S, Ends

LEMMA FetchStep == ASSUME IInv, Fetch PROVE IInv'
<1>1. /\ UNCHANGED <<log, last_id, evidence, progress, cache, final, counted, faults, crashes>>
      /\ pc' = "next" /\ last_id < Len(log)
  BY DEF Fetch, stored
<1>2. upto' \in 0..Len(log) /\ last_id + 1 <= upto'
  BY EvidenceConstants DEF Fetch, Newest, IInv, TypeOK
<1>3. TypeOK' /\ LegalIn(log')
  <2>1. last_id \in 0..Len(log) /\ evidence \in Summary /\ progress \in [Session -> Summary]
        /\ cache \in [Session -> Summary] /\ final \in [Session -> Summary]
        /\ counted \in Nat /\ faults \in 0..MaxFaults /\ crashes \in 0..MaxCrashes
    BY DEF IInv, TypeOK
  <2> QED BY <1>1, <1>2, <2>1, TypeStep
<1>4. Exacts' /\ NoneSkipped'
  BY <1>1 DEF IInv, Exacts, NoneSkipped
<1>5. InHand'
  BY <1>1 DEF InHand
<1> QED BY <1>3, <1>4, <1>5 DEF IInv

LEMMA SkipStep == ASSUME IInv, Skip PROVE IInv'
<1>1. /\ UNCHANGED <<log, upto, progress, cache, final, counted, faults, crashes>> /\ pc = "next"
  BY DEF Skip, stored
<1>2. /\ Id \in 1..Len(log) /\ Id \in Nat /\ last_id \in Nat /\ Id <= upto
      /\ S # 0 => S \in Session /\ progress[S] \in Summary
  BY <1>1, RowInHand
<1>3. /\ last_id \in 0..Len(log) /\ upto \in 0..Len(log) /\ progress \in [Session -> Summary]
      /\ cache \in [Session -> Summary] /\ final \in [Session -> Summary] /\ evidence \in Summary
      /\ counted \in Nat /\ faults \in 0..MaxFaults /\ crashes \in 0..MaxCrashes
  BY DEF IInv, TypeOK
<1>4. evidence' \in Summary
  BY <1>2, <1>3 DEF Skip, S
<1>5. Exacts'
  BY <1>1 DEF IInv, Exacts
<1>6. S # 0 => progress[S].last >= Id
  <2> SUFFICES ASSUME S # 0 PROVE progress[S].last >= Id
    OBVIOUS
  <2>1. ~(Id > progress[S].last) /\ progress[S].last \in Nat
    BY <1>2, SummaryLast DEF Skip, Fresh, S
  <2> QED BY <2>1, <1>2
<1>7. CASE S = 0 \/ ~Ends
  <2>1. Handled
    BY <1>7 DEF Skip, SeenAgain, S
  <2>2. pc' \in {"poll", "next"} /\ last_id' \in 0..Len(log) /\ last_id' = Id
        /\ (pc' # "poll" => last_id' + 1 <= upto)
    BY <2>1, <1>1, HandledGoes
  <2>3. TypeOK' /\ LegalIn(log')
    BY <2>2, <1>1, <1>3, <1>4, TypeStep
  <2>4. NoneSkipped'
    BY <1>1, <1>6, <1>7, <2>2, PassStored
  <2>5. InHand'
    BY <2>2 DEF InHand
  <2> QED BY <1>5, <2>3, <2>4, <2>5 DEF IInv
<1>8. CASE S # 0 /\ Ends
  <2>1. pc' = "flush" /\ last_id' = last_id /\ evidence' = progress[S]
    BY <1>8 DEF Skip, SeenAgain, S
  <2>2. last_id' + 1 <= upto'
    BY <1>1, <1>2, <2>1 DEF Id
  <2>3. TypeOK' /\ LegalIn(log')
    BY <2>1, <2>2, <1>1, <1>3, <1>4, TypeStep
  <2>4. NoneSkipped'
    BY <1>1, <2>1 DEF IInv, NoneSkipped
  <2>5. Id' = Id /\ S' = S /\ Ends' = Ends
    BY <1>1, <2>1 DEF Id, S, Ends
  <2>6. InHand'
    BY <1>1, <1>2, <1>6, <1>8, <2>1, <2>5 DEF InHand
  <2> QED BY <1>5, <2>3, <2>4, <2>6 DEF IInv
<1> QED BY <1>7, <1>8

LEMMA ProcessStep == ASSUME IInv, Process PROVE IInv'
<1>1. /\ UNCHANGED <<log, last_id, upto, progress, cache, final, faults, crashes>>
      /\ pc = "next" /\ pc' = "save" /\ S # 0
  BY DEF Process, stored, S
<1>2. /\ Id \in 1..Len(log) /\ Id \in Nat /\ last_id \in Nat /\ Id <= upto
      /\ S \in Session /\ progress[S] \in Summary
  BY <1>1, RowInHand
<1>3. /\ last_id \in 0..Len(log) /\ upto \in 0..Len(log) /\ progress \in [Session -> Summary]
      /\ cache \in [Session -> Summary] /\ final \in [Session -> Summary]
      /\ counted \in Nat /\ faults \in 0..MaxFaults /\ crashes \in 0..MaxCrashes
      /\ log \in Seq(Row)
  BY DEF IInv, TypeOK
<1> DEFINE e == progress[S]
<1>4. e \in Summary /\ e.last \in Nat /\ e.last < Id /\ ExactIn(log, S, e) /\ LegalIn(log)
  <2>1. e \in Summary /\ e.last \in Nat
    BY <1>2, SummaryLast
  <2>2. Id > e.last
    BY DEF Process, Fresh, S
  <2> QED BY <2>1, <2>2, <1>2 DEF IInv, Exacts
<1>5. \A j \in 1..(Id - 1) : log[j].session = S => j <= e.last
  <2> SUFFICES ASSUME NEW j \in 1..(Id - 1), log[j].session = S PROVE j <= e.last
    OBVIOUS
  <2>1. j \in 1..last_id
    BY <1>2 DEF Id
  <2>2. progress[log[j].session].last >= j
    BY <2>1, <1>1 DEF IInv, NoneSkipped
  <2> QED BY <2>2, <1>4
<1>6. evidence' = AppliedIn(log, e, Id)
  BY AppliedMeans DEF Process, S
<1>7. ExactIn(log, S, evidence') /\ evidence' \in Summary /\ evidence'.last = Id
  <2> HIDE DEF e
  <2>1. Id \in DOMAIN log
    BY <1>2, <1>3
  <2>2. log[Id].session # 0 /\ ExactIn(log, log[Id].session, e)
    BY <1>1, <1>4 DEF S
  <2>3. \A j \in 1..(Id - 1) : log[j].session = log[Id].session => j <= e.last
    BY <1>5 DEF S
  <2>4. /\ ExactIn(log, log[Id].session, AppliedIn(log, e, Id))
        /\ AppliedIn(log, e, Id) \in Summary /\ AppliedIn(log, e, Id).last = Id
    BY <2>1, <2>2, <2>3, <1>3, <1>4, AppliedExact
  <2> QED BY <2>4, <1>6 DEF S
<1>8. counted' \in Nat
  <2>1. Len(progress[log[Id].session].commands) \in Nat
    BY <1>2 DEF Summary, S
  <2> QED BY <2>1, <1>3 DEF Process
<1>9. TypeOK' /\ LegalIn(log')
  <2>1. last_id' + 1 <= upto'
    BY <1>1, <1>2 DEF Id
  <2> QED BY <2>1, <1>1, <1>3, <1>7, <1>8, TypeStep
<1>10. Exacts' /\ NoneSkipped'
  BY <1>1 DEF IInv, Exacts, NoneSkipped
<1>11. InHand'
  <2>1. Id' = Id /\ S' = S
    BY <1>1 DEF Id, S
  <2> QED BY <2>1, <1>1, <1>2, <1>4, <1>7 DEF InHand
<1> QED BY <1>9, <1>10, <1>11 DEF IInv

(***************************************************************************)
(* The steps that store.  Stored says what the two tables look like after  *)
(* evidence went into one of them, Typed what every step leaves alone.     *)
(***************************************************************************)
Typed ==
  /\ last_id \in 0..Len(log) /\ upto \in 0..Len(log) /\ evidence \in Summary
  /\ progress \in [Session -> Summary] /\ cache \in [Session -> Summary]
  /\ final \in [Session -> Summary]
  /\ counted \in Nat /\ faults \in 0..MaxFaults /\ crashes \in 0..MaxCrashes
  /\ log \in Seq(Row)

LEMMA TypedHolds == ASSUME IInv PROVE Typed
  BY DEF IInv, TypeOK, Typed

\* Saving what is in hand keeps every copy exact and the progress ahead.
LEMMA ProgressStored ==
  ASSUME IInv, pc = "save", log' = log, cache' = cache, final' = final,
         progress' = Upserted(progress, S)
  PROVE  /\ Exacts' /\ progress' \in [Session -> Summary]
         /\ progress'[S] = evidence
         /\ \A s \in Session : progress'[s].last >= progress[s].last
<1>1. /\ S \in Session /\ evidence \in Summary /\ progress \in [Session -> Summary]
      /\ cache \in [Session -> Summary] /\ final \in [Session -> Summary]
      /\ evidence.last = Id /\ progress[S].last < Id /\ ExactIn(log, S, evidence)
  BY DEF IInv, InHand, TypeOK
<1>2. /\ progress' \in [Session -> Summary] /\ progress'[S] = evidence
      /\ \A r \in Session : r # S => progress'[r] = progress[r]
  BY <1>1, UpsertedFields
<1>3. \A s \in Session : /\ progress[s].last \in Nat /\ progress'[s].last \in Nat
                         /\ cache[s].last \in Nat /\ final[s].last \in Nat
  BY <1>1, <1>2, SummaryLast
<1>4. \A s \in Session : progress'[s].last >= progress[s].last
  <2> TAKE s \in Session
  <2>1. CASE s = S
    BY <2>1, <1>1, <1>2, <1>3
  <2>2. CASE s # S
    BY <2>2, <1>2, <1>3
  <2> QED BY <2>1, <2>2
<1>5. \A s \in Session : ExactIn(log, s, progress'[s])
  BY <1>1, <1>2 DEF IInv, Exacts
<1>6. \A s \in Session : cache[s].last <= progress'[s].last /\ final[s].last <= progress'[s].last
  BY <1>3, <1>4 DEF IInv, Exacts
<1> QED BY <1>2, <1>4, <1>5, <1>6 DEF IInv, Exacts

\* Flushing what is in hand keeps the final table exact, no further than the progress.
LEMMA FinalStored ==
  ASSUME IInv, pc = "flush", log' = log, cache' = cache, progress' = progress,
         final' = Upserted(final, S)
  PROVE  /\ Exacts' /\ final' \in [Session -> Summary] /\ final'[S].last >= Id
         /\ \A s \in Session : final'[s].last >= final[s].last
<1>1. /\ S \in Session /\ evidence \in Summary /\ progress \in [Session -> Summary]
      /\ final \in [Session -> Summary]
      /\ evidence = progress[S] /\ evidence.last >= Id
  BY DEF IInv, InHand, TypeOK
<1>2. /\ final' \in [Session -> Summary]
      /\ final'[S] = IF final[S].last < evidence.last THEN evidence ELSE final[S]
      /\ \A r \in Session : r # S => final'[r] = final[r]
  BY <1>1, UpsertedFields
<1>3. \A s \in Session : /\ progress[s].last \in Nat /\ final'[s].last \in Nat
                         /\ final[s].last \in Nat
  BY <1>1, <1>2, SummaryLast
<1>4. Id \in Nat
  BY RowInHand
<1>5. \A s \in Session : /\ final'[s].last >= final[s].last
                         /\ ExactIn(log, s, final'[s]) /\ final'[s].last <= progress[s].last
  <2> TAKE s \in Session
  <2>1. CASE s = S
    BY <2>1, <1>1, <1>2, <1>3 DEF IInv, Exacts
  <2>2. CASE s # S
    BY <2>2, <1>2, <1>3 DEF IInv, Exacts
  <2> QED BY <2>1, <2>2
<1>6. final'[S].last >= Id
  BY <1>1, <1>2, <1>3, <1>4
<1> QED BY <1>2, <1>5, <1>6 DEF IInv, Exacts

\* Rows that were stored stay stored when the tables only grow.
LEMMA StillStored ==
  ASSUME IInv, log' = log, last_id' = last_id,
         progress' \in [Session -> Summary], final' \in [Session -> Summary],
         \A s \in Session : progress'[s].last >= progress[s].last /\ final'[s].last >= final[s].last
  PROVE  NoneSkipped'
<1> SUFFICES ASSUME NEW i \in 1..last_id, log[i].session # 0
             PROVE  /\ progress'[log[i].session].last >= i
                    /\ log[i].op = "ssh_disconnect" => final'[log[i].session].last >= i
  BY DEF NoneSkipped
<1>1. log[i].session \in Session /\ i \in Nat
  <2>1. i \in 1..Len(log) /\ log \in Seq(Row)
    BY DEF IInv, TypeOK
  <2> QED BY <2>1, RowFields
<1> DEFINE s == log[i].session
<1>2. /\ progress[s].last \in Nat /\ progress'[s].last \in Nat
      /\ final[s].last \in Nat /\ final'[s].last \in Nat
  BY <1>1, SummaryLast DEF IInv, TypeOK
<1>3. progress[s].last >= i /\ (log[i].op = "ssh_disconnect" => final[s].last >= i)
  BY DEF IInv, NoneSkipped
<1> QED BY <1>1, <1>2, <1>3

LEMMA SaveStep == ASSUME IInv, Save PROVE IInv'
<1>1. /\ UNCHANGED <<log, last_id, upto, evidence, cache, final, counted, faults, crashes>>
      /\ pc = "save" /\ pc' = "cache" /\ progress' = Upserted(progress, S)
  BY DEF Save, S
<1>2. /\ Exacts' /\ progress' \in [Session -> Summary] /\ progress'[S] = evidence
      /\ \A s \in Session : progress'[s].last >= progress[s].last
  BY <1>1, ProgressStored
<1>3. Typed /\ Id <= upto
  BY <1>1, TypedHolds, RowInHand
<1>4. TypeOK' /\ LegalIn(log')
  <2>1. last_id' + 1 <= upto'
    BY <1>1, <1>3 DEF Id
  <2> QED BY <2>1, <1>1, <1>2, <1>3, TypeStep DEF Typed
<1>5. NoneSkipped'
  <2>1. \A s \in Session : final'[s].last >= final[s].last
    BY <1>1, <1>3, SummaryLast DEF Typed
  <2> QED BY <2>1, <1>1, <1>2, <1>3, StillStored DEF Typed
<1>6. InHand'
  <2>1. Id' = Id /\ S' = S
    BY <1>1 DEF Id, S
  <2> QED BY <2>1, <1>1, <1>2 DEF IInv, InHand
<1> QED BY <1>2, <1>4, <1>5, <1>6 DEF IInv

\* The copy of one session is set to what the progress holds, or to nothing.
LEMMA CopyExact ==
  ASSUME IInv, NEW s \in Session, NEW e, e = progress[s] \/ e = NoEvidence,
         log' = log, progress' = progress, final' = final, cache' = [cache EXCEPT ![s] = e]
  PROVE  Exacts' /\ cache' \in [Session -> Summary]
<1>1. Typed
  BY TypedHolds
<1>2. e \in Summary /\ ExactIn(log, s, e) /\ e.last <= progress[s].last
  <2>1. progress[s].last \in Nat
    BY <1>1, SummaryLast DEF Typed
  <2>2. CASE e = progress[s]
    BY <2>1, <2>2, <1>1 DEF Typed, IInv, Exacts
  <2>3. CASE e = NoEvidence
    <3>1. NoEvidence.last = 0
      BY DEF NoEvidence
    <3> QED BY <3>1, <2>1, <2>3, <1>1, EmptyExact DEF Typed
  <2> QED BY <2>2, <2>3
<1>3. cache' \in [Session -> Summary] /\ cache'[s] = e
      /\ \A r \in Session : r # s => cache'[r] = cache[r]
  BY <1>1, <1>2 DEF Typed
<1>4. \A r \in Session : ExactIn(log, r, cache'[r]) /\ cache'[r].last <= progress[r].last
  BY <1>2, <1>3 DEF IInv, Exacts
<1> QED BY <1>3, <1>4 DEF IInv, Exacts

LEMMA CacheStep == ASSUME IInv, Cache PROVE IInv'
<1>1. /\ UNCHANGED <<log, upto, evidence, progress, final, counted, faults, crashes>>
      /\ pc = "cache" /\ cache' = [cache EXCEPT ![S] = evidence]
  BY DEF Cache, S
<1>2. /\ Typed /\ Id \in Nat /\ Id <= upto
      /\ S \in Session /\ S # 0 /\ evidence = progress[S] /\ evidence.last = Id
  BY <1>1, TypedHolds, RowInHand DEF IInv, InHand
<1>3. Exacts' /\ cache' \in [Session -> Summary]
  BY <1>1, <1>2, CopyExact
<1>4. CASE Ends
  <2>1. pc' = "flush" /\ last_id' = last_id
    BY <1>4 DEF Cache
  <2>2. last_id' + 1 <= upto'
    BY <2>1, <1>1, <1>2 DEF Id
  <2>3. TypeOK' /\ LegalIn(log')
    BY <2>1, <2>2, <1>1, <1>2, <1>3, TypeStep DEF Typed
  <2>4. NoneSkipped'
    BY <1>1, <2>1 DEF IInv, NoneSkipped
  <2>5. Id' = Id /\ S' = S /\ Ends' = Ends
    BY <1>1, <2>1 DEF Id, S, Ends
  <2>6. InHand'
    BY <1>1, <1>2, <1>4, <2>1, <2>5 DEF InHand
  <2> QED BY <1>3, <2>3, <2>4, <2>6 DEF IInv
<1>5. CASE ~Ends
  <2>1. Handled
    BY <1>5 DEF Cache
  <2>2. /\ pc' \in {"poll", "next"} /\ last_id' \in 0..Len(log) /\ last_id' = Id
        /\ pc' # "poll" => last_id' + 1 <= upto
    BY <2>1, <1>1, HandledGoes
  <2>3. TypeOK' /\ LegalIn(log')
    BY <2>2, <1>1, <1>2, <1>3, TypeStep DEF Typed
  <2>4. NoneSkipped'
    BY <1>1, <1>2, <1>5, <2>2, PassStored
  <2>5. InHand'
    BY <2>2 DEF InHand
  <2> QED BY <1>3, <2>3, <2>4, <2>5 DEF IInv
<1> QED BY <1>4, <1>5

LEMMA FlushStep == ASSUME IInv, Flush PROVE IInv'
<1>1. /\ UNCHANGED <<log, last_id, upto, evidence, progress, cache, counted, faults, crashes>>
      /\ pc = "flush" /\ pc' = "drop" /\ final' = Upserted(final, S)
  BY DEF Flush, S
<1>2. /\ Exacts' /\ final' \in [Session -> Summary] /\ final'[S].last >= Id
      /\ \A s \in Session : final'[s].last >= final[s].last
  BY <1>1, FinalStored
<1>3. Typed /\ Id <= upto
  BY <1>1, TypedHolds, RowInHand
<1>4. TypeOK' /\ LegalIn(log')
  <2>1. last_id' + 1 <= upto'
    BY <1>1, <1>3 DEF Id
  <2> QED BY <2>1, <1>1, <1>2, <1>3, TypeStep DEF Typed
<1>5. NoneSkipped'
  <2>1. \A s \in Session : progress'[s].last >= progress[s].last
    BY <1>1, <1>3, SummaryLast DEF Typed
  <2> QED BY <2>1, <1>1, <1>2, <1>3, StillStored DEF Typed
<1>6. InHand'
  <2>1. Id' = Id /\ S' = S /\ Ends' = Ends
    BY <1>1 DEF Id, S, Ends
  <2> QED BY <2>1, <1>1, <1>2 DEF IInv, InHand
<1> QED BY <1>2, <1>4, <1>5, <1>6 DEF IInv

LEMMA DropStep == ASSUME IInv, Drop PROVE IInv'
<1>1. /\ UNCHANGED <<log, upto, evidence, progress, final, counted, faults, crashes>>
      /\ pc = "drop" /\ cache' = [cache EXCEPT ![S] = NoEvidence] /\ Handled
  BY DEF Drop, S
<1>2. /\ Typed /\ S \in Session /\ evidence = progress[S] /\ evidence.last >= Id
      /\ final[S].last >= Id
  BY <1>1, TypedHolds DEF IInv, InHand
<1>3. Exacts' /\ cache' \in [Session -> Summary]
  BY <1>1, <1>2, CopyExact
<1>4. /\ pc' \in {"poll", "next"} /\ last_id' \in 0..Len(log) /\ last_id' = Id
      /\ pc' # "poll" => last_id' + 1 <= upto
  BY <1>1, HandledGoes
<1>5. TypeOK' /\ LegalIn(log')
  BY <1>1, <1>2, <1>3, <1>4, TypeStep DEF Typed
<1>6. NoneSkipped'
  BY <1>1, <1>2, <1>4, PassStored
<1>7. InHand'
  BY <1>4 DEF InHand
<1> QED BY <1>3, <1>5, <1>6, <1>7 DEF IInv

\* A failed call leaves the batch; what it may have stored is exact all the same.
LEMMA FailStep == ASSUME IInv, Fail PROVE IInv'
<1>1. /\ UNCHANGED <<log, upto, evidence, cache, counted, crashes>>
      /\ pc' = "poll" /\ last_id' = last_id /\ faults < MaxFaults /\ faults' = faults + 1
  BY DEF Fail, Retry
<1>2. Typed /\ faults' \in 0..MaxFaults
  BY <1>1, TypedHolds, EvidenceConstants DEF Typed
<1>3. \A s \in Session : progress[s].last >= progress[s].last /\ final[s].last >= final[s].last
  BY <1>2, SummaryLast DEF Typed
<1>4. /\ Exacts' /\ progress' \in [Session -> Summary] /\ final' \in [Session -> Summary]
      /\ \A s \in Session : progress'[s].last >= progress[s].last /\ final'[s].last >= final[s].last
  <2>1. CASE pc = "save" /\ progress' = Upserted(progress, S) /\ UNCHANGED final
    <3>1. /\ Exacts' /\ progress' \in [Session -> Summary]
          /\ \A s \in Session : progress'[s].last >= progress[s].last
      BY <2>1, <1>1, ProgressStored
    <3> QED BY <3>1, <2>1, <1>2, <1>3 DEF Typed
  <2>2. CASE pc = "flush" /\ final' = Upserted(final, S) /\ UNCHANGED progress
    <3>1. /\ Exacts' /\ final' \in [Session -> Summary]
          /\ \A s \in Session : final'[s].last >= final[s].last
      BY <2>2, <1>1, FinalStored
    <3> QED BY <3>1, <2>2, <1>2, <1>3 DEF Typed
  <2>3. CASE UNCHANGED <<progress, final>>
    <3>1. Exacts'
      BY <2>3, <1>1 DEF IInv, Exacts
    <3> QED BY <3>1, <2>3, <1>2, <1>3 DEF Typed
  <2> QED BY <2>1, <2>2, <2>3 DEF Fail, S
<1>5. TypeOK' /\ LegalIn(log')
  BY <1>1, <1>2, <1>4, TypeStep DEF Typed
<1>6. NoneSkipped'
  BY <1>1, <1>4, StillStored
<1>7. InHand'
  BY <1>1 DEF InHand
<1> QED BY <1>4, <1>5, <1>6, <1>7 DEF IInv

\* A death forgets the cursor and what was in hand, nothing that is stored.
LEMMA CrashStep == ASSUME IInv, Crash PROVE IInv'
<1>1. /\ UNCHANGED <<log, progress, cache, final, faults>>
      /\ pc' = "poll" /\ last_id' = 0 /\ upto' = 0 /\ evidence' = NoEvidence /\ counted' = 0
      /\ crashes < MaxCrashes /\ crashes' = crashes + 1
  BY DEF Crash, stored
<1>2. Typed /\ crashes' \in 0..MaxCrashes
  BY <1>1, TypedHolds, EvidenceConstants DEF Typed
<1>3. NoEvidence \in Summary /\ Len(log) \in Nat
  BY <1>2, EmptyExact DEF Typed
<1>4. TypeOK' /\ LegalIn(log')
  BY <1>1, <1>2, <1>3, TypeStep DEF Typed
<1>5. Exacts' /\ NoneSkipped' /\ InHand'
  BY <1>1 DEF IInv, Exacts, NoneSkipped, InHand
<1> QED BY <1>4, <1>5 DEF IInv

LEMMA ExpiresStep == ASSUME IInv, NEW s \in Session, CacheExpires(s) PROVE IInv'
<1>1. /\ UNCHANGED <<log, pc, last_id, upto, evidence, progress, final, counted, faults, crashes>>
      /\ cache' = [cache EXCEPT ![s] = NoEvidence]
  BY DEF CacheExpires
<1>2. Exacts' /\ cache' \in [Session -> Summary]
  BY <1>1, CopyExact
<1>3. TypeOK' /\ LegalIn(log')
  BY <1>1, <1>2 DEF IInv, TypeOK, Id
<1>4. NoneSkipped'
  BY <1>1 DEF IInv, NoneSkipped
<1>5. InHand'
  BY <1>1 DEF IInv, InHand, Id, S, Ends
<1> QED BY <1>2, <1>3, <1>4, <1>5 DEF IInv

LEMMA StutterStep == ASSUME IInv, UNCHANGED vars PROVE IInv'
  BY DEF IInv, TypeOK, Exacts, NoneSkipped, InHand, Id, S, Ends, vars, stored

LEMMA NextIInv == IInv /\ [Next]_vars => IInv'
<1> SUFFICES ASSUME IInv, [Next]_vars PROVE IInv'
  OBVIOUS
<1>1. CASE \E row \in Row : RowAppears(row)
  BY <1>1, AppearStep
<1>2. CASE Fetch
  BY <1>2, FetchStep
<1>3. CASE Skip
  BY <1>3, SkipStep
<1>4. CASE Process
  BY <1>4, ProcessStep
<1>5. CASE Save
  BY <1>5, SaveStep
<1>6. CASE Cache
  BY <1>6, CacheStep
<1>7. CASE Flush
  BY <1>7, FlushStep
<1>8. CASE Drop
  BY <1>8, DropStep
<1>9. CASE Fail
  BY <1>9, FailStep
<1>10. CASE Crash
  BY <1>10, CrashStep
<1>11. CASE \E s \in Session : CacheExpires(s)
  BY <1>11, ExpiresStep
<1>12. CASE UNCHANGED vars
  BY <1>12, StutterStep
<1> QED
  BY <1>1, <1>2, <1>3, <1>4, <1>5, <1>6, <1>7, <1>8, <1>9, <1>10, <1>11, <1>12
     DEF Next, Streamer

\* The inductive invariant holds of every reachable state.
THEOREM SpecIInv == Spec => []IInv
  BY InitIInv, NextIInv, PTL DEF Spec

\* The cursor, the batch and the stored summaries of the streamer and the
\* collector always have their types.
THEOREM SpecTypeOK == Spec => []TypeOK
<1>1. IInv => TypeOK
  BY DEF IInv
<1> QED BY SpecIInv, <1>1, PTL

\* Whatever fails or dies in the middle of _process_event, each stored summary
\* is that of a prefix of the log, and PostgreSQL's progress is the most advanced.
THEOREM SpecEvidenceExact == Spec => []EvidenceExact
<1>1. IInv => EvidenceExact
  BY ExactMeans DEF IInv, Exacts, EvidenceExact
<1> QED BY SpecIInv, <1>1, PTL

\* No row the streamer's cursor passed is missing from what its session stored.
THEOREM SpecNoneSkipped == Spec => []NoneSkipped
<1>1. IInv => NoneSkipped
  BY DEF IInv
<1> QED BY SpecIInv, <1>1, PTL

=============================================================================
