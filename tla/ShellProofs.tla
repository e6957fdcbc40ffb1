---------------------------- MODULE ShellProofs ------------------------------
(***************************************************************************)
(* Proofs about Shell for every set of words, command lines, names and     *)
(* texts, every tree to begin with, every limit and any number of failing  *)
(* calls.                                                                  *)
(*                                                                         *)
(* The parts: what the folds of the model return (parser, paths, lists of  *)
(* system calls); the tree and the handlers; the state between two steps;  *)
(* the and-or lists; a move, and the calls it consists of; the theorems.   *)
(***************************************************************************)
EXTENDS Shell, FoldFacts, SequenceTheorems, TLAPS

\* The indices of a set have a greatest one among them.
LEMMA MaxIn ==
  ASSUME NEW len \in Nat, NEW r \in SUBSET (1..len), r # {}
  PROVE  Max(r) \in 1..len /\ r \ {Max(r)} \in SUBSET (1..len)
<1>1. Max(r) \in r
  BY MaxOf
<1> QED
  BY <1>1

\* A sequence of length len as a function.
LEMMA SeqFun ==
  ASSUME NEW T, NEW s \in Seq(T)
  PROVE  Len(s) \in Nat /\ DOMAIN s = 1..Len(s) /\ s \in [1..Len(s) -> T]
OBVIOUS

\* A function on the first numbers is a list.
LEMMA ListOf ==
  ASSUME NEW S, NEW len \in Nat, NEW f \in [1..len -> S]
  PROVE  f \in Seq(S)
OBVIOUS

\* What is kept of a sequence.
LEMMA KeptTyped ==
  ASSUME NEW T, NEW s \in Seq(T), NEW S
  PROVE  Kept(s, S) \in Seq(T)
<1> DEFINE len == Len(s)
           Step(t, x) == IF x \in S THEN Append(t, x) ELSE t
           A == Seq(T)
           g == [t \in A |-> [x \in T |-> Step(t, x)]]
           Is(it) == it = [r \in SUBSET (1..len) |->
                             IF r = {} THEN <<>> ELSE Step(it[r \ {Max(r)}], s[Max(r)])]
           f == CHOOSE it : Is(it)
<1>1. len \in Nat /\ DOMAIN s = 1..len /\ s \in [1..len -> T]
  BY SeqFun
<1>2. Kept(s, S) = f[1..len]
  BY <1>1 DEF Kept, FoldLeft, MapThenFoldSet
<1>3. \A t \in A, x \in T : Step(t, x) \in A
  OBVIOUS
<1>4. <<>> \in A
  OBVIOUS
<1> HIDE DEF A, Step, len
<1>5. g \in [A -> [T -> A]] /\ \A t \in A, x \in T : g[t][x] = Step(t, x)
  BY <1>3
<1> HIDE DEF g
<1> DEFINE it == FoldOf(len, <<>>, g, s)
<1>6. /\ it = [r \in SUBSET (1..len) |->
                 IF r = {} THEN <<>> ELSE g[it[r \ {Max(r)}]][s[Max(r)]]]
      /\ \A r \in SUBSET (1..len) : it[r] \in A
  BY <1>1, <1>4, <1>5, FoldExists
<1> HIDE DEF it
<1>7. \A r \in SUBSET (1..len) : r # {} =>
        g[it[r \ {Max(r)}]][s[Max(r)]] = Step(it[r \ {Max(r)}], s[Max(r)])
  BY <1>1, <1>5, <1>6, MaxIn
<1>8. Is(it)
  BY <1>6, <1>7
<1>9. Is(f)
  BY <1>8
<1>10. f[{}] \in A
  BY <1>4, <1>9
<1>11. ASSUME NEW r \in SUBSET (1..len), r # {}, f[r \ {Max(r)}] \in A PROVE f[r] \in A
  BY <1>1, <1>3, <1>9, <1>11, MaxIn
<1> HIDE DEF f
<1>12. \A r \in SUBSET (1..len) : f[r] \in A
  BY <1>1, <1>10, <1>11, FoldStays
<1> QED
  BY <1>1, <1>2, <1>12 DEF A

\* A part of a line: its tokens, and the separator before them.
Part(T, ops) == [op : ops \cup {"none"}, tokens : Seq(T \ ops)]
\* What Split has of a line: the parts that are over, and the one it is in.
Splits(T, ops) == [done : Seq(Part(T, ops)), part : Part(T, ops)]

\* A line is split into one part or more.
LEMMA SplitTyped ==
  ASSUME NEW T, NEW ops \in SUBSET T, NEW s \in Seq(T)
  PROVE  Split(s, ops) \in Seq(Part(T, ops)) /\ Len(Split(s, ops)) >= 1
<1> DEFINE len == Len(s)
           Step(a, t) == IF t \in ops THEN [done |-> Append(a.done, a.part), part |-> NoPart(t)]
                         ELSE [a EXCEPT !.part.tokens = Append(@, t)]
           A == Splits(T, ops)
           b == [done |-> <<>>, part |-> NoPart("none")]
           g == [a \in A |-> [t \in T |-> Step(a, t)]]
           Is(it) == it = [r \in SUBSET (1..len) |->
                             IF r = {} THEN b ELSE Step(it[r \ {Max(r)}], s[Max(r)])]
           f == CHOOSE it : Is(it)
<1>1. len \in Nat /\ DOMAIN s = 1..len /\ s \in [1..len -> T]
  BY SeqFun
<1>2. Split(s, ops) = Append(f[1..len].done, f[1..len].part)
  BY <1>1 DEF Split, FoldLeft, MapThenFoldSet
<1>3. ASSUME NEW a \in A, NEW t \in T PROVE Step(a, t) \in A
  <2>1. a.done \in Seq(Part(T, ops)) /\ a.part \in Part(T, ops)
    BY DEF Splits
  <2>2. CASE t \in ops
    <3>1. NoPart(t) \in Part(T, ops)
      BY <2>2 DEF NoPart, Part
    <3> QED BY <2>1, <2>2, <3>1 DEF Splits
  <2>3. CASE t \notin ops
    <3>1. [a.part EXCEPT !.tokens = Append(@, t)] \in Part(T, ops)
      <4>1. a.part.op \in ops \cup {"none"} /\ a.part.tokens \in Seq(T \ ops) /\ t \in T \ ops
        BY <2>1, <2>3 DEF Part
      <4>2. Append(a.part.tokens, t) \in Seq(T \ ops)
        BY <4>1
      <4> QED BY <2>1, <4>1, <4>2 DEF Part
    <3>2. Step(a, t) = [a EXCEPT !.part = [a.part EXCEPT !.tokens = Append(@, t)]]
      BY <2>3
    <3> QED BY <2>1, <3>1, <3>2 DEF Splits
  <2> QED BY <2>2, <2>3
<1>4. b \in A
  BY DEF Splits, Part, NoPart
<1> HIDE DEF A, Step, len, b
<1>5. g \in [A -> [T -> A]] /\ \A a \in A, t \in T : g[a][t] = Step(a, t)
  BY <1>3
<1> HIDE DEF g
<1> DEFINE it == FoldOf(len, b, g, s)
<1>6. /\ it = [r \in SUBSET (1..len) |->
                 IF r = {} THEN b ELSE g[it[r \ {Max(r)}]][s[Max(r)]]]
      /\ \A r \in SUBSET (1..len) : it[r] \in A
  BY <1>1, <1>4, <1>5, FoldExists
<1> HIDE DEF it
<1>7. \A r \in SUBSET (1..len) : r # {} =>
        g[it[r \ {Max(r)}]][s[Max(r)]] = Step(it[r \ {Max(r)}], s[Max(r)])
  BY <1>1, <1>5, <1>6, MaxIn
<1>8. Is(it)
  BY <1>6, <1>7
<1>9. Is(f)
  BY <1>8
<1>10. f[{}] \in A
  BY <1>4, <1>9
<1>11. ASSUME NEW r \in SUBSET (1..len), r # {}, f[r \ {Max(r)}] \in A PROVE f[r] \in A
  BY <1>1, <1>3, <1>9, <1>11, MaxIn
<1> HIDE DEF f
<1>12. \A r \in SUBSET (1..len) : f[r] \in A
  BY <1>1, <1>10, <1>11, FoldStays
<1>13. f[1..len].done \in Seq(Part(T, ops)) /\ f[1..len].part \in Part(T, ops)
  BY <1>1, <1>12 DEF A, Splits
<1> QED
  BY <1>2, <1>13

\* What a command is parsed into.
Command == [args : Seq(Word), out : {<<>>} \cup (Word \X BOOLEAN),
            in : {<<>>} \cup {<<w>> : w \in Word}, open : RedirectOps \cup {"none"}]

LEMMA CommandTyped ==
  ASSUME NEW s \in Seq(Word)
  PROVE  ParsedCommand(s) \in Command
<1> DEFINE len == Len(s)
           Step(c, t) ==
             CASE c.open = "none" /\ t \in RedirectOps    -> [c EXCEPT !.open = t]
               [] c.open = "none" /\ t \notin RedirectOps -> [c EXCEPT !.args = Append(@, t)]
               [] c.open = "<" -> [c EXCEPT !.in = <<t>>, !.open = "none"]
               [] OTHER        -> [c EXCEPT !.out = <<t, c.open = ">>">>, !.open = "none"]
           A == Command
           g == [c \in A |-> [t \in Word |-> Step(c, t)]]
           Is(it) == it = [r \in SUBSET (1..len) |->
                             IF r = {} THEN NoCommand ELSE Step(it[r \ {Max(r)}], s[Max(r)])]
           f == CHOOSE it : Is(it)
<1>1. len \in Nat /\ DOMAIN s = 1..len /\ s \in [1..len -> Word]
  BY SeqFun
<1>2. ParsedCommand(s) = f[1..len]
  BY <1>1 DEF ParsedCommand, FoldLeft, MapThenFoldSet
<1>3. ASSUME NEW c \in A, NEW t \in Word PROVE Step(c, t) \in A
  <2>1. CASE c.open = "none" /\ t \in RedirectOps
    BY <2>1 DEF Command
  <2>2. CASE c.open = "none" /\ t \notin RedirectOps
    <3>1. Append(c.args, t) \in Seq(Word)
      BY DEF Command
    <3>2. Step(c, t) = [c EXCEPT !.args = Append(@, t)]
      BY <2>2
    <3> QED BY <3>1, <3>2 DEF Command
  <2>3. CASE c.open = "<"
    <3>1. <<t>> \in {<<w>> : w \in Word}
      OBVIOUS
    <3>2. Step(c, t) = [c EXCEPT !.in = <<t>>, !.open = "none"]
      BY <2>3
    <3> QED BY <3>1, <3>2 DEF Command
  <2>4. CASE c.open # "none" /\ c.open # "<"
    <3> DEFINE more == c.open = ">>"
    <3>1. more \in BOOLEAN
      OBVIOUS
    <3>2. Step(c, t) = [c EXCEPT !.out = <<t, more>>, !.open = "none"]
      BY <2>4
    <3> HIDE DEF more, Step
    <3>3. <<t, more>> \in Word \X BOOLEAN
      BY <3>1
    <3> QED BY <3>2, <3>3 DEF Command
  <2> QED BY <2>1, <2>2, <2>3, <2>4
<1>4. NoCommand \in A
  BY DEF Command, NoCommand
<1> HIDE DEF A, Step, len
<1>5. g \in [A -> [Word -> A]] /\ \A c \in A, t \in Word : g[c][t] = Step(c, t)
  BY <1>3
<1> HIDE DEF g
<1> DEFINE it == FoldOf(len, NoCommand, g, s)
<1>6. /\ it = [r \in SUBSET (1..len) |->
                 IF r = {} THEN NoCommand ELSE g[it[r \ {Max(r)}]][s[Max(r)]]]
      /\ \A r \in SUBSET (1..len) : it[r] \in A
  BY <1>1, <1>4, <1>5, FoldExists
<1> HIDE DEF it
<1>7. \A r \in SUBSET (1..len) : r # {} =>
        g[it[r \ {Max(r)}]][s[Max(r)]] = Step(it[r \ {Max(r)}], s[Max(r)])
  BY <1>1, <1>5, <1>6, MaxIn
<1>8. Is(it)
  BY <1>6, <1>7
<1>9. Is(f)
  BY <1>8
<1>10. f[{}] \in A
  BY <1>4, <1>9
<1>11. ASSUME NEW r \in SUBSET (1..len), r # {}, f[r \ {Max(r)}] \in A PROVE f[r] \in A
  BY <1>1, <1>3, <1>9, <1>11, MaxIn
<1> HIDE DEF f
<1>12. \A r \in SUBSET (1..len) : f[r] \in A
  BY <1>1, <1>10, <1>11, FoldStays
<1> QED
  BY <1>1, <1>2, <1>12 DEF A

\* A pipeline of a line.
Tokens == Word \cup ListOps \cup {"|"}
Pipeline == [op : ListOps \cup {"none"}, commands : {c \in Seq(Command) : Len(c) >= 1}]

LEMMA LineTyped ==
  ASSUME NEW tokens \in Line
  PROVE  ParsedSequence(tokens) \in Seq(Pipeline)
<1> DEFINE parts == Pipelines(tokens)
           P == Part(Tokens, ListOps)
           Q == Part(Tokens \ ListOps, {"|"})
<1>1. tokens \in Seq(Tokens) /\ ListOps \in SUBSET Tokens /\ {"|"} \in SUBSET (Tokens \ ListOps)
  BY ShellConstants DEF Tokens, ListOps
<1>2. parts \in Seq(P)
  <2>1. Split(tokens, ListOps) \in Seq(P)
    BY <1>1, SplitTyped
  <2> QED BY <2>1, KeptTyped DEF Pipelines
<1> HIDE DEF parts
<1>3. ASSUME NEW i \in DOMAIN parts
      PROVE  /\ parts[i].op \in ListOps \cup {"none"}
             /\ Split(parts[i].tokens, {"|"}) \in Seq(Q)
             /\ Len(Split(parts[i].tokens, {"|"})) >= 1
  <2>1. parts[i] \in P
    BY <1>2
  <2>2. parts[i].op \in ListOps \cup {"none"} /\ parts[i].tokens \in Seq(Tokens \ ListOps)
    BY <2>1 DEF Part
  <2> QED BY <1>1, <2>2, SplitTyped
<1>4. ASSUME NEW q \in Q PROVE ParsedCommand(q.tokens) \in Command
  <2>1. q.tokens \in Seq((Tokens \ ListOps) \ {"|"})
    BY DEF Part
  <2>2. (Tokens \ ListOps) \ {"|"} \subseteq Word
    BY DEF Tokens
  <2>3. q.tokens \in Seq(Word)
    BY <2>1, <2>2, SeqMonotonic
  <2> QED BY <2>3, CommandTyped
<1> HIDE DEF P, Q
<1>5. ASSUME NEW i \in DOMAIN parts, NEW c, c = Split(parts[i].tokens, {"|"})
      PROVE  /\ [j \in DOMAIN c |-> ParsedCommand(c[j].tokens)] \in Seq(Command)
             /\ Len([j \in DOMAIN c |-> ParsedCommand(c[j].tokens)]) >= 1
  <2>1. c \in Seq(Q) /\ Len(c) \in Nat /\ DOMAIN c = 1..Len(c) /\ Len(c) >= 1
    BY <1>3, <1>5
  <2> DEFINE d == [j \in DOMAIN c |-> ParsedCommand(c[j].tokens)]
  <2>2. \A j \in 1..Len(c) : ParsedCommand(c[j].tokens) \in Command
    BY <1>4, <2>1
  <2>3. d \in [1..Len(c) -> Command]
    BY <2>1, <2>2
  <2> HIDE DEF d
  <2>4. d \in Seq(Command) /\ Len(d) = Len(c)
    BY <2>1, <2>3
  <2> QED BY <2>1, <2>4 DEF d
<1>6. ASSUME NEW i \in DOMAIN parts PROVE ParsedSequence(tokens)[i] \in Pipeline
  <2> DEFINE c == Split(parts[i].tokens, {"|"})
             d == [j \in DOMAIN c |-> ParsedCommand(c[j].tokens)]
  <2>1. ParsedSequence(tokens)[i] = [op |-> parts[i].op, commands |-> d]
    BY DEF ParsedSequence, parts
  <2>2. d \in Seq(Command) /\ Len(d) >= 1
    BY <1>5
  <2>3. parts[i].op \in ListOps \cup {"none"}
    BY <1>3
  <2> HIDE DEF d
  <2> QED BY <2>1, <2>2, <2>3 DEF Pipeline
<1>7. Len(parts) \in Nat /\ DOMAIN parts = 1..Len(parts)
  BY <1>2
<1>8. ParsedSequence(tokens) \in [1..Len(parts) -> Pipeline]
  <2>1. ParsedSequence(tokens) = [i \in DOMAIN parts |-> ParsedSequence(tokens)[i]]
    BY DEF ParsedSequence, parts
  <2> QED BY <1>6, <1>7, <2>1
<1> QED
  BY <1>7, <1>8

\* normpath gives a path.
LEMMA NormTyped ==
  ASSUME NEW s \in Seq(Name \cup {".", ".."})
  PROVE  Norm(s) \in Seq(Name)
<1> DEFINE len == Len(s)
           T == Name \cup {".", ".."}
           A == Seq(Name)
           Step(path, part) ==
             CASE part = "."  -> path
               [] part = ".." -> IF path = <<>> THEN path ELSE Front(path)
               [] OTHER       -> Append(path, part)
           g == [path \in A |-> [part \in T |-> Step(path, part)]]
           Is(it) == it = [r \in SUBSET (1..len) |->
                             IF r = {} THEN <<>> ELSE Step(it[r \ {Max(r)}], s[Max(r)])]
           f == CHOOSE it : Is(it)
<1>1. len \in Nat /\ DOMAIN s = 1..len /\ s \in [1..len -> T]
  BY SeqFun
<1>2. Norm(s) = f[1..len]
  BY <1>1 DEF Norm, FoldLeft, MapThenFoldSet
<1>3. ASSUME NEW path \in A, NEW part \in T PROVE Step(path, part) \in A
  <2>1. path # <<>> => Front(path) \in A
    BY DEF Front
  <2>2. part \in Name => Append(path, part) \in A
    OBVIOUS
  <2>3. CASE part = "."
    BY <2>3
  <2>4. CASE part = ".."
    BY <2>1, <2>4
  <2>5. CASE part # "." /\ part # ".."
    <3>1. part \in Name /\ Step(path, part) = Append(path, part)
      BY <2>5
    <3> QED BY <2>2, <3>1
  <2> QED BY <2>3, <2>4, <2>5
<1>4. <<>> \in A
  OBVIOUS
<1> HIDE DEF A, Step, len, T
<1>5. g \in [A -> [T -> A]] /\ \A path \in A, part \in T : g[path][part] = Step(path, part)
  BY <1>3
<1> HIDE DEF g
<1> DEFINE it == FoldOf(len, <<>>, g, s)
<1>6. /\ it = [r \in SUBSET (1..len) |->
                 IF r = {} THEN <<>> ELSE g[it[r \ {Max(r)}]][s[Max(r)]]]
      /\ \A r \in SUBSET (1..len) : it[r] \in A
  BY <1>1, <1>4, <1>5, FoldExists
<1> HIDE DEF it
<1>7. \A r \in SUBSET (1..len) : r # {} =>
        g[it[r \ {Max(r)}]][s[Max(r)]] = Step(it[r \ {Max(r)}], s[Max(r)])
  BY <1>1, <1>5, <1>6, MaxIn
<1>8. Is(it)
  BY <1>6, <1>7
<1>9. Is(f)
  BY <1>8
<1>10. f[{}] \in A
  BY <1>4, <1>9
<1>11. ASSUME NEW r \in SUBSET (1..len), r # {}, f[r \ {Max(r)}] \in A PROVE f[r] \in A
  BY <1>1, <1>3, <1>9, <1>11, MaxIn
<1> HIDE DEF f
<1>12. \A r \in SUBSET (1..len) : f[r] \in A
  BY <1>1, <1>10, <1>11, FoldStays
<1> QED
  BY <1>1, <1>2, <1>12 DEF A

\* The environments in which the protected names say what they say in e.
Environment == [Variable -> Spelled]
Alike(e) == {d \in Environment : \A v \in Protected : d[v] = e[v]}

\* export leaves the protected names alone.
LEMMA ExportTyped ==
  ASSUME env \in Environment, NEW s \in Seq(Word), Export(s)
  PROVE  env' \in Alike(env)
<1> DEFINE len == Len(s)
           A == Alike(env)
           Step(e, w) == IF w \in DOMAIN Assigned /\ Assigned[w].name \notin Protected
                         THEN [e EXCEPT ![Assigned[w].name] = Assigned[w].value] ELSE e
           g == [e \in A |-> [w \in Word |-> Step(e, w)]]
           Is(it) == it = [r \in SUBSET (1..len) |->
                             IF r = {} THEN env ELSE Step(it[r \ {Max(r)}], s[Max(r)])]
           f == CHOOSE it : Is(it)
<1>1. len \in Nat /\ DOMAIN s = 1..len /\ s \in [1..len -> Word]
  BY SeqFun
<1>2. env' = f[1..len]
  BY <1>1 DEF Export, FoldLeft, MapThenFoldSet
<1>3. ASSUME NEW e \in A, NEW w \in Word PROVE Step(e, w) \in A
  <2>1. CASE w \in DOMAIN Assigned /\ Assigned[w].name \notin Protected
    <3>1. Assigned[w].value \in Spelled /\ Assigned[w].name \in Variable
      BY <2>1, ShellConstants DEF Variable
    <3>2. Step(e, w) = [e EXCEPT ![Assigned[w].name] = Assigned[w].value]
      BY <2>1
    <3>3. e \in Environment /\ \A v \in Protected : e[v] = env[v]
      BY DEF Alike
    <3> DEFINE a == Assigned[w].name
               d == [e EXCEPT ![a] = Assigned[w].value]
    <3>4. d \in Environment /\ \A v \in Protected : d[v] = e[v]
      <4> HIDE DEF A
      <4> QED BY <2>1, <3>1, <3>3 DEF Environment, Variable
    <3> HIDE DEF d
    <3>5. d \in A
      BY <3>3, <3>4 DEF Alike
    <3> QED BY <3>2, <3>5 DEF d
  <2>2. CASE ~(w \in DOMAIN Assigned /\ Assigned[w].name \notin Protected)
    BY <2>2
  <2> QED BY <2>1, <2>2
<1>4. env \in A
  BY DEF Alike
<1> HIDE DEF A, Step, len
<1>5. g \in [A -> [Word -> A]] /\ \A e \in A, w \in Word : g[e][w] = Step(e, w)
  BY <1>3
<1> HIDE DEF g
<1> DEFINE it == FoldOf(len, env, g, s)
<1>6. /\ it = [r \in SUBSET (1..len) |->
                 IF r = {} THEN env ELSE g[it[r \ {Max(r)}]][s[Max(r)]]]
      /\ \A r \in SUBSET (1..len) : it[r] \in A
  BY <1>1, <1>4, <1>5, FoldExists
<1> HIDE DEF it
<1>7. \A r \in SUBSET (1..len) : r # {} =>
        g[it[r \ {Max(r)}]][s[Max(r)]] = Step(it[r \ {Max(r)}], s[Max(r)])
  BY <1>1, <1>5, <1>6, MaxIn
<1>8. Is(it)
  BY <1>6, <1>7
<1>9. Is(f)
  BY <1>8
<1>10. f[{}] \in A
  BY <1>4, <1>9
<1>11. ASSUME NEW r \in SUBSET (1..len), r # {}, f[r \ {Max(r)}] \in A PROVE f[r] \in A
  BY <1>1, <1>3, <1>9, <1>11, MaxIn
<1> HIDE DEF f
<1>12. \A r \in SUBSET (1..len) : f[r] \in A
  BY <1>1, <1>10, <1>11, FoldStays
<1> QED
  BY <1>1, <1>2, <1>12 DEF A

\* What FlattenSeq has put together after each list.
FlatOf(s) ==
  CHOOSE it : it = [i \in 1..Len(s) |-> IF i = 1 THEN s[i] ELSE it[i - 1] \o s[i]]

LEMMA FlatSteps ==
  ASSUME NEW T, NEW s \in Seq(Seq(T)), s # <<>>
  PROVE  /\ Len(s) \in Nat /\ Len(s) >= 1 /\ FlattenSeq(s) = FlatOf(s)[Len(s)]
         /\ FlatOf(s)[1] = s[1]
         /\ \A i \in 1..Len(s) : i # 1 => FlatOf(s)[i] = FlatOf(s)[i - 1] \o s[i]
         /\ \A i \in 1..Len(s) : FlatOf(s)[i] \in Seq(T)
<1> DEFINE len == Len(s)
           A == Seq(T)
           Is(it) == it = [i \in 1..len |-> IF i = 1 THEN s[i] ELSE it[i - 1] \o s[i]]
           f == CHOOSE it : Is(it)
           g == [i \in 1..len |-> [a \in A |-> a \o s[i]]]
<1>1. len \in Nat /\ len >= 1 /\ \A i \in 1..len : s[i] \in A
  OBVIOUS
<1>2. FlattenSeq(s) = f[len] /\ f = FlatOf(s)
  BY <1>1 DEF FlattenSeq, FlatOf
<1>3. 1 \in 1..len /\ len \in 1..len /\ s[1] \in A
  BY <1>1
<1>4. \A i \in 1..len, a \in A : a \o s[i] \in A
  BY <1>1
<1> HIDE DEF A, len
<1>5. g \in [1..len -> [A -> A]] /\ \A i \in 1..len, a \in A : g[i][a] = a \o s[i]
  BY <1>4
<1> HIDE DEF g
<1> DEFINE it == StepsOf(1, len, s[1], g)
<1>6. /\ it = [i \in 1..len |-> IF i = 1 THEN s[1] ELSE g[i][it[i - 1]]]
      /\ \A i \in 1..len : it[i] \in A
  BY <1>1, <1>3, <1>5, StepsExist
<1> HIDE DEF it
<1>7. ASSUME NEW i \in 1..len, i # 1 PROVE g[i][it[i - 1]] = it[i - 1] \o s[i]
  <2>1. i - 1 \in 1..len
    BY <1>1, <1>7
  <2> QED BY <1>5, <1>6, <2>1
<1>8. Is(it)
  BY <1>6, <1>7, Zenon
<1>9. Is(f)
  BY <1>8, Zenon
<1> HIDE DEF f
<1>10. f[1] = s[1] /\ \A i \in 1..len : i # 1 => f[i] = f[i - 1] \o s[i]
  BY <1>3, <1>9
<1>11. 1 <= len => f[1] \in A
  BY <1>3, <1>10
<1>12. ASSUME NEW i \in 1..len, i # 1, f[i - 1] \in A PROVE f[i] \in A
  BY <1>4, <1>10, <1>12
<1>13. \A i \in 1..len : f[i] \in A
  BY <1>1, <1>11, <1>12, StepsStay
<1> QED
  BY <1>1, <1>2, <1>10, <1>13 DEF A, len

\* What is flattened is of the same items.
LEMMA FlatTyped ==
  ASSUME NEW T, NEW s \in Seq(Seq(T))
  PROVE  FlattenSeq(s) \in Seq(T)
<1>1. CASE s = <<>>
  BY <1>1 DEF FlattenSeq
<1>2. CASE s # <<>>
  <2>1. Len(s) \in 1..Len(s)
    BY <1>2, FlatSteps
  <2> QED BY <1>2, <2>1, FlatSteps
<1> QED
  BY <1>1, <1>2

\* The shortest path of a set of paths.
LEMMA ShortestOf ==
  ASSUME NEW S \in SUBSET Seq(Name), S # {}
  PROVE  Shortest(S) \in S /\ \A q \in S : Len(Shortest(S)) <= Len(q)
<1> DEFINE T == {Len(q) : q \in S}
<1>1. T \in SUBSET Nat /\ T # {}
  <2>1. PICK q \in S : TRUE
    OBVIOUS
  <2>2. Len(q) \in T
    OBVIOUS
  <2>3. \A p \in S : Len(p) \in Nat
    OBVIOUS
  <2> QED BY <2>2, <2>3
<1> HIDE DEF T
<1>2. PICK m \in T : \A j \in T : m <= j
  BY <1>1, Least
<1>3. PICK p \in S : m = Len(p)
  BY DEF T
<1>4. \A q \in S : Len(p) <= Len(q)
  BY <1>2, <1>3 DEF T
<1> QED
  BY <1>4 DEF Shortest

\* A list of a set: each element of it once.
Lists(q, S) ==
  /\ q \in Seq(S)
  /\ \A x \in S : \E i \in 1..Len(q) : q[i] = x
  /\ \A i, j \in 1..Len(q) : q[i] = q[j] => i = j

LEMMA ListsStep ==
  ASSUME NEW S, NEW x \in S, NEW q, Lists(q, S \ {x})
  PROVE  Lists(<<x>> \o q, S)
<1> DEFINE a == Len(q)
           v == <<x>> \o q
<1>1. q \in Seq(S) /\ <<x>> \in Seq(S) /\ Len(<<x>>) = 1 /\ <<x>>[1] = x
      /\ a \in Nat /\ \A i \in 1..a : q[i] \in S \ {x}
  <2>1. q \in Seq(S \ {x})
    BY DEF Lists
  <2>2. q \in Seq(S)
    BY <2>1, SeqMonotonic
  <2> QED BY <2>1, <2>2
<1>2. v \in Seq(S) /\ Len(v) = 1 + a
      /\ \A i \in 1..(1 + a) : v[i] = IF i <= 1 THEN x ELSE q[i - 1]
  <2>1. /\ v \in Seq(S) /\ Len(v) = Len(<<x>>) + Len(q)
        /\ \A i \in 1..(Len(<<x>>) + Len(q)) :
             v[i] = IF i <= Len(<<x>>) THEN <<x>>[i] ELSE q[i - Len(<<x>>)]
    BY <1>1, ConcatProperties
  <2>2. \A i \in 1..(1 + a) : i <= 1 => i = 1
    BY <1>1
  <2> HIDE DEF v
  <2> QED BY <1>1, <2>1, <2>2
<1> HIDE DEF a, v
<1>3. \A y \in S : \E i \in 1..Len(v) : v[i] = y
  <2> SUFFICES ASSUME NEW y \in S PROVE \E i \in 1..Len(v) : v[i] = y
    OBVIOUS
  <2>1. CASE y = x
    <3>1. 1 \in 1..(1 + a) /\ v[1] = y
      BY <1>1, <1>2, <2>1
    <3> QED BY <1>2, <3>1
  <2>2. CASE y # x
    <3>1. PICK i \in 1..a : q[i] = y
      BY <2>2 DEF Lists, a
    <3>2. i + 1 \in 1..(1 + a) /\ ~(i + 1 <= 1) /\ i + 1 - 1 = i
      BY <1>1
    <3> QED BY <1>2, <3>1, <3>2
  <2> QED BY <2>1, <2>2
<1>4. ASSUME NEW i \in 1..(1 + a), NEW j \in 1..(1 + a), v[i] = v[j] PROVE i = j
  <2>1. \A c \in 1..(1 + a) : c = 1 \/ (c - 1 \in 1..a /\ ~(c <= 1))
    BY <1>1
  <2>2. \A c \in 1..(1 + a) : c # 1 => c - 1 \in 1..a /\ v[c] = q[c - 1] /\ v[c] # x
    BY <1>1, <1>2, <2>1
  <2>3. 1 \in 1..(1 + a) => v[1] = x
    BY <1>2
  <2>4. i = 1 <=> j = 1
    BY <1>4, <2>2, <2>3
  <2>5. ASSUME i # 1, j # 1 PROVE i = j
    <3>1. q[i - 1] = q[j - 1] /\ i - 1 \in 1..a /\ j - 1 \in 1..a
      BY <1>4, <2>2, <2>5
    <3>2. i - 1 = j - 1
      BY <3>1 DEF Lists, a
    <3> QED BY <3>2
  <2> QED BY <2>4, <2>5
<1>5. \A i, j \in 1..Len(v) : v[i] = v[j] => i = j
  BY <1>2, <1>4
<1> QED
  BY <1>2, <1>3, <1>5 DEF Lists, v

LEMMA DownLists ==
  ASSUME NEW S \in SUBSET Seq(Name), IsFiniteSet(S)
  PROVE  Lists(Down(S), S)
<1> DEFINE A == Seq(S)
           Is(it) == it = [s \in SUBSET S |->
                             IF s = {} THEN <<>> ELSE <<Shortest(s)>> \o it[s \ {Shortest(s)}]]
           f == CHOOSE it : Is(it)
           g == [x \in S |-> [a \in A |-> <<x>> \o a]]
           c == [s \in SUBSET S |-> Shortest(s)]
<1>1. Down(S) = f[S]
  BY DEF Down, MapThenFoldSet
<1>2. \A s \in SUBSET S : c[s] = Shortest(s) /\ (s # {} => c[s] \in s)
  BY ShortestOf
<1>3. <<>> \in A /\ \A x \in S, a \in A : <<x>> \o a \in A
  OBVIOUS
<1> HIDE DEF A, c
<1>4. g \in [S -> [A -> A]] /\ \A x \in S, a \in A : g[x][a] = <<x>> \o a
  BY <1>3
<1> HIDE DEF g
<1> DEFINE it == SetFoldOf(S, <<>>, g, c)
<1>5. /\ it = [s \in SUBSET S |-> IF s = {} THEN <<>> ELSE g[c[s]][it[s \ {c[s]}]]]
      /\ \A s \in SUBSET S : it[s] \in A
  BY <1>2, <1>3, <1>4, SetFoldExists
<1> HIDE DEF it
<1>6. ASSUME NEW s \in SUBSET S, s # {}
      PROVE  g[c[s]][it[s \ {c[s]}]] = <<Shortest(s)>> \o it[s \ {Shortest(s)}]
  <2>1. c[s] \in S /\ c[s] = Shortest(s) /\ s \ {c[s]} \in SUBSET S
    BY <1>2, <1>6
  <2> QED BY <1>4, <1>5, <2>1, Zenon
<1>7. Is(it)
  BY <1>5, <1>6, Zenon
<1>8. Is(f)
  BY <1>7, Zenon
<1> HIDE DEF f
<1> DEFINE Truth == {b \in BOOLEAN : b}
           on == [s \in SUBSET S |-> Lists(f[s], s)]
<1>9. \A s \in SUBSET S : on[s] \in Truth <=> Lists(f[s], s)
  <2>1. \A s \in SUBSET S : Lists(f[s], s) \in BOOLEAN
    BY DEF Lists
  <2> QED BY <2>1, Zenon
<1> HIDE DEF Truth, on
<1>10. on[{}] \in Truth
  <2>1. f[{}] = <<>> /\ {} \in SUBSET S
    BY <1>8
  <2>2. <<>> \in Seq({}) /\ 1..Len(<<>>) = {}
    OBVIOUS
  <2>3. Lists(<<>>, {})
    BY <2>2 DEF Lists
  <2> QED BY <1>9, <2>1, <2>3
<1>11. ASSUME NEW s \in SUBSET S, s # {}, on[s \ {c[s]}] \in Truth PROVE on[s] \in Truth
  <2>1. c[s] \in s /\ s \ {c[s]} \in SUBSET S /\ f[s] = <<c[s]>> \o f[s \ {c[s]}]
    BY <1>2, <1>8, <1>11
  <2>2. Lists(f[s \ {c[s]}], s \ {c[s]})
    BY <1>9, <1>11, <2>1
  <2>3. Lists(<<c[s]>> \o f[s \ {c[s]}], s)
    BY <2>1, <2>2, ListsStep
  <2> QED BY <1>9, <2>1, <2>3
<1>12. \A s \in SUBSET S : on[s] \in Truth
  BY <1>2, <1>10, <1>11, SetFoldStays
<1> QED
  BY <1>1, <1>9, <1>12

\* Down puts a finite set of paths in a sequence, and Up the other way round.
LEMMA DownTyped ==
  ASSUME NEW S \in SUBSET Seq(Name), IsFiniteSet(S)
  PROVE  Down(S) \in Seq(S) /\ Up(S) \in Seq(S)
<1>1. Down(S) \in Seq(S)
  BY DownLists DEF Lists
<1>2. Up(S) \in Seq(S)
  BY <1>1 DEF Up, Reverse
<1> QED
  BY <1>1, <1>2

------------------------------------------------------------------------------
(* The tree *)

\* A tree: finite, of files and directories, and what an entry is in is a directory.
Sound(t) ==
  /\ IsFiniteSet(DOMAIN t) /\ DOMAIN t \subseteq Seq(Name) /\ t \in [DOMAIN t -> Node]
  /\ <<>> \in DOMAIN t /\ t[<<>>].kind = "dir"
  /\ \A p \in DOMAIN t : p # <<>> => Front(p) \in DOMAIN t /\ t[Front(p)].kind = "dir"

Deeds == {"mkdir", "wb", "ab", "write", "unlink", "rmdir", "stat", "check", "fail", "halt"}
Step == [do : Deeds, path : Seq(Name), data : Seq(Text), soft : BOOLEAN]

\* The front of a path is a shorter one, and it leads to the path.
LEMMA FrontOf ==
  ASSUME NEW p \in Seq(Name), p # <<>>
  PROVE  /\ Front(p) \in Seq(Name) /\ Len(Front(p)) = Len(p) - 1 /\ Front(p) # p
         /\ IsPrefix(Front(p), p)
<1>1. Len(p) \in Nat /\ Len(p) >= 1
  OBVIOUS
<1>2. Front(p) \in Seq(Name) /\ Len(Front(p)) = Len(p) - 1
  <2>1. \A i \in 1..(Len(p) - 1) : p[i] \in Name
    BY <1>1
  <2> DEFINE m == Len(p)
  <2>0. m \in Nat /\ m >= 1
    BY <1>1
  <2>2. 1 \in Int /\ m - 1 \in Int /\ (1 <= m - 1 \/ m - 1 = 0)
    <3> HIDE DEF m
    <3> QED BY <2>0
  <2>3. SubSeq(p, 1, Len(p) - 1) \in Seq(Name)
        /\ Len(SubSeq(p, 1, Len(p) - 1)) = IF 1 <= Len(p) - 1 THEN Len(p) - 1 - 1 + 1 ELSE 0
    BY <2>1, <2>2, SubSeqProperties
  <2> QED BY <1>1, <2>2, <2>3 DEF Front
<1>3. Front(p) # p
  BY <1>1, <1>2
<1>4. SubSeq(Front(p), 1, Len(Front(p))) = Front(p)
  BY <1>2, SubSeqFull
<1> QED
  BY <1>1, <1>2, <1>3, <1>4 DEF IsPrefix, Front

\* An entry in a directory is put there, or replaces a file.
LEMMA PutSound ==
  ASSUME Sound(tree), NEW p \in Seq(Name), p # <<>>, NEW node \in Node,
         Front(p) \in DOMAIN tree, tree[Front(p)].kind = "dir", ~IsDir(p)
  PROVE  Sound(Put(p, node))
<1> DEFINE t == Put(p, node)
<1>1. DOMAIN t = DOMAIN tree \cup {p} /\ \A q \in DOMAIN t : t[q] = IF q = p THEN node ELSE tree[q]
  BY DEF Put
<1>2. t = [q \in DOMAIN t |-> t[q]]
  BY DEF Put
<1> HIDE DEF t
<1>3. IsFiniteSet(DOMAIN t) /\ DOMAIN t \subseteq Seq(Name)
  BY <1>1, FS_AddElement DEF Sound
<1>4. t \in [DOMAIN t -> Node]
  BY <1>1, <1>2 DEF Sound
<1>5. <<>> \in DOMAIN t /\ t[<<>>].kind = "dir"
  BY <1>1 DEF Sound
<1>6. ASSUME NEW q \in DOMAIN t, q # <<>> PROVE Front(q) \in DOMAIN t /\ t[Front(q)].kind = "dir"
  <2>1. q \in Seq(Name) /\ Front(q) # q
    BY <1>3, <1>6, FrontOf
  <2>2. Front(q) \in DOMAIN tree /\ tree[Front(q)].kind = "dir"
    BY <1>1, <1>6 DEF Sound
  <2>3. Front(q) # p
    BY <2>2 DEF IsDir, Exists
  <2> QED BY <1>1, <2>2, <2>3
<1> QED
  BY <1>3, <1>4, <1>5, <1>6 DEF Sound, t

\* An entry that nothing is in is taken away.
LEMMA WithoutSound ==
  ASSUME Sound(tree), NEW p \in DOMAIN tree, p # <<>>,
         \A q \in DOMAIN tree : q # <<>> => Front(q) # p
  PROVE  Sound(Without(p))
<1> DEFINE t == Without(p)
<1>1. DOMAIN t = DOMAIN tree \ {p} /\ \A q \in DOMAIN t : t[q] = tree[q]
  BY DEF Without
<1>2. t = [q \in DOMAIN t |-> t[q]]
  BY DEF Without
<1> HIDE DEF t
<1>3. IsFiniteSet(DOMAIN t) /\ DOMAIN t \subseteq Seq(Name)
  BY <1>1, FS_RemoveElement DEF Sound
<1>4. t \in [DOMAIN t -> Node]
  BY <1>1, <1>2 DEF Sound
<1>5. <<>> \in DOMAIN t /\ t[<<>>].kind = "dir"
  BY <1>1 DEF Sound
<1>6. \A q \in DOMAIN t : q # <<>> => Front(q) \in DOMAIN t /\ t[Front(q)].kind = "dir"
  BY <1>1 DEF Sound
<1> QED
  BY <1>3, <1>4, <1>5, <1>6 DEF Sound, t

\* Files and directories are nodes.
LEMMA NodesTyped ==
  /\ Dir \in Node /\ \A d \in Seq(Text) : File(d) \in Node
  /\ Dir.kind = "dir" /\ \A d : File(d).kind = "file" /\ File(d).data = d
  BY DEF Dir, File, Node

\* What a file holds is text.
LEMMA DataTyped ==
  ASSUME NEW t, Sound(t), NEW p \in DOMAIN t
  PROVE  t[p].data \in Seq(Text) /\ t[p].kind \in {"dir", "file"} /\ p \in Seq(Name)
  BY DEF Sound, Node

\* A system call that can be done leaves a tree.
LEMMA EffectSound ==
  ASSUME Sound(tree), NEW s \in Step, Fits(s)
  PROVE  Sound(Effect(s))
<1>1. s.do \in Deeds /\ s.path \in Seq(Name) /\ s.data \in Seq(Text)
  BY DEF Step
<1>2. CASE s.do = "mkdir" \/ s.do = "wb" \/ (s.do = "ab" /\ ~Exists(s.path))
  <2>1. s.path # <<>> /\ IsDir(Front(s.path)) /\ ~IsDir(s.path)
    BY <1>2 DEF Fits, HasParent, IsDir, Exists
  <2>2. Front(s.path) \in DOMAIN tree /\ tree[Front(s.path)].kind = "dir"
    BY <2>1 DEF IsDir, Exists
  <2>3. Effect(s) = Put(s.path, Dir) \/ Effect(s) = Put(s.path, File(<<>>))
    BY <1>2 DEF Effect
  <2>4. Dir \in Node /\ File(<<>>) \in Node
    <3>1. <<>> \in Seq(Text)
      OBVIOUS
    <3> QED BY <3>1, NodesTyped
  <2> QED BY <1>1, <2>1, <2>2, <2>3, <2>4, PutSound
<1>3. CASE s.do = "write"
  <2>1. s.path \in DOMAIN tree /\ tree[s.path].kind = "file"
    BY <1>3 DEF Fits, IsFile, Exists
  <2>2. s.path # <<>> /\ Front(s.path) \in DOMAIN tree /\ tree[Front(s.path)].kind = "dir"
    BY <2>1 DEF Sound
  <2>3. ~IsDir(s.path)
    BY <2>1 DEF IsDir
  <2>4. File(tree[s.path].data \o s.data) \in Node
    <3>1. tree[s.path].data \in Seq(Text)
      BY <2>1, DataTyped
    <3>2. tree[s.path].data \o s.data \in Seq(Text)
      BY <1>1, <3>1
    <3> QED BY <3>2, NodesTyped
  <2>5. Effect(s) = Put(s.path, File(tree[s.path].data \o s.data))
    BY <1>3 DEF Effect
  <2> QED BY <1>1, <2>2, <2>3, <2>4, <2>5, PutSound
<1>4. CASE s.do = "unlink" \/ s.do = "rmdir"
  <2>1. Effect(s) = Without(s.path) /\ s.path \in DOMAIN tree /\ s.path # <<>>
    BY <1>4 DEF Effect, Fits, IsFile, IsDir, Exists, Sound
  <2>2. ASSUME NEW q \in DOMAIN tree, q # <<>>, Front(q) = s.path PROVE FALSE
    <3>1. tree[s.path].kind = "dir"
      BY <2>2 DEF Sound
    <3>2. s.do = "rmdir"
      BY <1>4, <3>1 DEF Fits, IsFile
    <3>3. Beneath(s.path) = {}
      BY <3>2 DEF Fits
    <3>4. q \in Seq(Name)
      BY DEF Sound
    <3>5. q # s.path /\ IsPrefix(s.path, q)
      BY <2>2, <3>4, FrontOf
    <3> QED BY <3>3, <3>5 DEF Beneath
  <2> QED BY <2>1, <2>2, WithoutSound
<1>5. CASE s.do \in {"stat", "check", "fail", "halt"} \/ (s.do = "ab" /\ Exists(s.path))
  <2>1. Effect(s) = tree
    BY <1>5 DEF Effect
  <2> QED BY <2>1
<1> QED
  BY <1>1, <1>2, <1>3, <1>4, <1>5 DEF Deeds

------------------------------------------------------------------------------
(* The calls of a handler *)

LEMMA DoTyped ==
  ASSUME NEW d \in Deeds, NEW p \in Seq(Name)
  PROVE  /\ Do(d, p) \in Step
         /\ \A t \in Seq(Text) : [Do(d, p) EXCEPT !.data = t] \in Step
<1>1. Do(d, p) = [do |-> d, path |-> p, data |-> <<>>, soft |-> FALSE]
  BY DEF Do
<1>2. <<>> \in Seq(Text)
  OBVIOUS
<1>3. Do(d, p) \in Step
  BY <1>1, <1>2 DEF Step
<1>4. ASSUME NEW t \in Seq(Text) PROVE [Do(d, p) EXCEPT !.data = t] \in Step
  <2> DEFINE r == Do(d, p)
  <2>1. r \in Step
    BY <1>3
  <2> HIDE DEF r
  <2>2. [r EXCEPT !.data = t] \in Step
    BY <2>1 DEF Step
  <2> QED BY <2>2 DEF r
<1> QED
  BY <1>3, <1>4

LEMMA WithinTyped ==
  ASSUME NEW p \in Seq(Name), NEW dst \in Seq(Name)
  PROVE  Within(p, dst) \in Seq(Name)
<1>1. p # <<>> => p[Len(p)] \in Name
  OBVIOUS
<1> QED
  BY <1>1 DEF Within

\* A path at another place.
LEMMA AfterTyped ==
  ASSUME NEW p \in Seq(Name), NEW q \in Seq(Name), NEW base \in Seq(Name)
  PROVE  After(p, q, base) \in Seq(Name)
<1>1. Len(p) \in Nat /\ Len(q) \in Nat
  OBVIOUS
<1>2. \A i \in (Len(p) + 1)..Len(q) : q[i] \in Name
  BY <1>1
<1>3. SubSeq(q, Len(p) + 1, Len(q)) \in Seq(Name)
  BY <1>1, <1>2, SubSeqProperties
<1> QED
  BY <1>3 DEF After

LEMMA Copy2Typed ==
  ASSUME Sound(tree), NEW p \in Seq(Name), NEW dst \in Seq(Name)
  PROVE  Copy2(p, dst) \in Seq(Step)
<1> DEFINE to == Within(p, dst)
<1>1. to \in Seq(Name)
  BY WithinTyped
<1>2. Do("fail", p) \in Step /\ Do("wb", to) \in Step /\ Do("stat", to) \in Step
  BY <1>1, DoTyped DEF Deeds
<1>3. IsFile(p) => [Do("write", to) EXCEPT !.data = tree[p].data] \in Step
  BY <1>1, DoTyped, DataTyped DEF Deeds, IsFile, Exists
<1> HIDE DEF to
<1> QED
  BY <1>2, <1>3 DEF Copy2, to

\* The paths a sequence of paths is of, as calls.
LEMMA EachTyped ==
  ASSUME NEW s, NEW m \in Nat, DOMAIN s = 1..m, \A i \in 1..m : s[i] \in Step,
         s = [i \in DOMAIN s |-> s[i]]
  PROVE  s \in Seq(Step)
<1>1. s \in [1..m -> Step]
  OBVIOUS
<1> QED
  BY <1>1

\* The directories that have to be made before a copy are finitely many.
LEMMA MissingFinite ==
  ASSUME NEW dst \in Seq(Name)
  PROVE  LET M == {q \in {SubSeq(dst, 1, i) : i \in 1..(Len(dst) - 1)} : ~Exists(q)}
         IN  IsFiniteSet(M) /\ M \in SUBSET Seq(Name)
<1> DEFINE D == 1..(Len(dst) - 1)
           I == {SubSeq(dst, 1, i) : i \in D}
           f == [i \in D |-> SubSeq(dst, 1, i)]
           M == {q \in I : ~Exists(q)}
<1>1. Len(dst) \in Nat
  OBVIOUS
<1>2. IsFiniteSet(D)
  BY <1>1, FS_Interval
<1>3. f \in Surjection(D, I)
  BY DEF Surjection
<1>4. IsFiniteSet(I)
  <2> HIDE DEF f, D, I
  <2> QED BY <1>2, <1>3, FS_Surjection
<1>5. \A i \in D : SubSeq(dst, 1, i) \in Seq(Name)
  BY <1>1
<1>6. I \in SUBSET Seq(Name)
  BY <1>5
<1>7. M \in SUBSET I
  OBVIOUS
<1> HIDE DEF I, D
<1>8. IsFiniteSet(M) /\ M \in SUBSET Seq(Name)
  BY <1>4, <1>6, <1>7, FS_Subset
<1> QED
  BY <1>8 DEF I, D

\* What is beneath a path, in a sequence.
LEMMA BeneathTyped ==
  ASSUME Sound(tree), NEW p \in Seq(Name)
  PROVE  /\ Down(Beneath(p)) \in Seq(Seq(Name))
         /\ Up(Beneath(p) \cup {p}) \in Seq(Seq(Name))
<1>1. Beneath(p) \in SUBSET (DOMAIN tree)
  BY DEF Beneath
<1>2. IsFiniteSet(Beneath(p)) /\ Beneath(p) \in SUBSET Seq(Name)
  BY <1>1, FS_Subset DEF Sound
<1>3. IsFiniteSet(Beneath(p) \cup {p}) /\ Beneath(p) \cup {p} \in SUBSET Seq(Name)
  BY <1>2, FS_AddElement
<1>4. Down(Beneath(p)) \in Seq(Beneath(p)) /\ Up(Beneath(p) \cup {p}) \in Seq(Beneath(p) \cup {p})
  BY <1>2, <1>3, DownTyped
<1> QED
  BY <1>2, <1>3, <1>4, SeqMonotonic

\* Calls made soft.
LEMMA SoftTyped ==
  ASSUME NEW s \in Seq(Step)
  PROVE  Soft(s) \in Seq(Step)
<1>1. Len(s) \in Nat /\ DOMAIN s = 1..Len(s) /\ \A i \in 1..Len(s) : s[i] \in Step
  OBVIOUS
<1>2. \A r \in Step : [r EXCEPT !.soft = TRUE] \in Step
  BY DEF Step
<1>3. Soft(s) = [i \in 1..Len(s) |-> [s[i] EXCEPT !.soft = TRUE]]
  BY <1>1 DEF Soft
<1>4. Soft(s) \in [1..Len(s) -> Step]
  BY <1>1, <1>2, <1>3
<1> QED
  BY <1>1, <1>4

LEMMA CopyTreeTyped ==
  ASSUME Sound(tree), NEW p \in Seq(Name), NEW dst \in Seq(Name)
  PROVE  CopyTree(p, dst) \in Seq(Step)
<1> DEFINE Missing == {q \in {SubSeq(dst, 1, i) : i \in 1..(Len(dst) - 1)} : ~Exists(q)}
           One(q) == IF IsDir(q) THEN <<Do("mkdir", After(p, q, dst))>>
                     ELSE Copy2(q, After(p, q, dst))
           dirs == Down(Missing) \o <<dst>>
           entries == Down(Beneath(p))
           first == [i \in DOMAIN dirs |-> Do("mkdir", dirs[i])]
           each == [i \in DOMAIN entries |-> One(entries[i])]
           last1 == <<Do("check", dst)>>
<1>1. dirs \in Seq(Seq(Name))
  <2>1. IsFiniteSet(Missing) /\ Missing \in SUBSET Seq(Name)
    BY MissingFinite
  <2>2. Down(Missing) \in Seq(Missing)
    BY <2>1, DownTyped
  <2>3. Down(Missing) \in Seq(Seq(Name))
    BY <2>1, <2>2, SeqMonotonic
  <2> HIDE DEF Missing
  <2> QED BY <2>3
<1>2. entries \in Seq(Seq(Name))
  BY BeneathTyped
<1>3. \A q \in Seq(Name) : One(q) \in Seq(Step)
  <2>1. ASSUME NEW q \in Seq(Name) PROVE One(q) \in Seq(Step)
    <3>1. After(p, q, dst) \in Seq(Name)
      BY AfterTyped
    <3>2. Copy2(q, After(p, q, dst)) \in Seq(Step)
      BY <3>1, Copy2Typed
    <3>3. Do("mkdir", After(p, q, dst)) \in Step
      BY <3>1, DoTyped DEF Deeds
    <3> QED BY <3>2, <3>3
  <2> QED BY <2>1
<1>4. last1 \in Seq(Step)
  <2>1. Do("check", dst) \in Step
    BY DoTyped DEF Deeds
  <2> QED BY <2>1
<1>5. CopyTree(p, dst) = first \o Soft(FlattenSeq(each)) \o last1
  BY DEF CopyTree
<1> HIDE DEF dirs, entries, One, last1
<1>6. first \in Seq(Step)
  <2>1. Len(dirs) \in Nat /\ DOMAIN dirs = 1..Len(dirs) /\ \A i \in 1..Len(dirs) : dirs[i] \in Seq(Name)
    BY <1>1
  <2>2. \A i \in 1..Len(dirs) : Do("mkdir", dirs[i]) \in Step
    BY <2>1, DoTyped DEF Deeds
  <2>3. first \in [1..Len(dirs) -> Step]
    BY <2>1, <2>2
  <2> HIDE DEF first
  <2> QED BY ONLY <2>1, <2>3, ListOf
<1>7. each \in Seq(Seq(Step))
  <2>1. Len(entries) \in Nat /\ DOMAIN entries = 1..Len(entries)
        /\ \A i \in 1..Len(entries) : entries[i] \in Seq(Name)
    BY <1>2
  <2>2. each \in [1..Len(entries) -> Seq(Step)]
    BY <1>3, <2>1
  <2> HIDE DEF each
  <2> QED BY ONLY <2>1, <2>2, ListOf
<1> HIDE DEF first, each
<1>8. Soft(FlattenSeq(each)) \in Seq(Step)
  BY <1>7, FlatTyped, SoftTyped
<1> QED
  BY <1>4, <1>5, <1>6, <1>8

LEMMA RmTreeTyped ==
  ASSUME Sound(tree), NEW p \in Seq(Name)
  PROVE  RmTree(p) \in Seq(Step)
<1> DEFINE all == Up(Beneath(p) \cup {p})
           each == [i \in DOMAIN all |-> Do(IF IsDir(all[i]) THEN "rmdir" ELSE "unlink", all[i])]
<1>1. all \in Seq(Seq(Name)) /\ RmTree(p) = each
  BY BeneathTyped DEF RmTree
<1> HIDE DEF all
<1>2. Len(all) \in Nat /\ DOMAIN all = 1..Len(all) /\ \A i \in 1..Len(all) : all[i] \in Seq(Name)
  BY <1>1
<1>3. \A i \in 1..Len(all) : Do(IF IsDir(all[i]) THEN "rmdir" ELSE "unlink", all[i]) \in Step
  BY <1>2, DoTyped DEF Deeds
<1>4. each \in [1..Len(all) -> Step]
  BY <1>2, <1>3
<1> HIDE DEF each
<1>5. each \in Seq(Step)
  BY ONLY <1>2, <1>4, ListOf
<1> QED
  BY <1>1, <1>5

\* The calls of a handler are calls on paths.
LEMMA CallsTyped ==
  ASSUME Sound(tree), NEW verb \in Writers, NEW p \in Seq(Name), NEW dst \in Seq(Name),
         NEW recursive \in BOOLEAN
  PROVE  Calls(verb, p, dst, recursive) \in Seq(Step)
<1>1. \A d \in Deeds : Do(d, p) \in Step
  BY DoTyped
<1>2. \A d \in Deeds : <<Do(d, p)>> \in Seq(Step)
  BY <1>1
<1>3. <<Do("ab", p), Do("stat", p)>> \in Seq(Step)
  BY <1>1 DEF Deeds
<1>4. RmTree(p) \in Seq(Step)
  BY RmTreeTyped
<1>5. \A to \in Seq(Name) : CopyTree(p, to) \in Seq(Step) /\ Copy2(p, to) \in Seq(Step)
  BY CopyTreeTyped, Copy2Typed
<1>6. RemoveCall(p, recursive) \in Seq(Step)
  BY <1>2, <1>4 DEF RemoveCall, Deeds
<1>7. CopyCall(p, dst, recursive) \in Seq(Step)
  BY <1>2, <1>5 DEF CopyCall, Deeds
<1>8. MoveCall(p, dst) \in Seq(Step)
  <2>1. Within(p, dst) \in Seq(Name)
    BY WithinTyped
  <2>2. \A to \in Seq(Name) : Moved(p, to) \in Seq(Step)
    BY <1>2, <1>4, <1>5 DEF Moved, Deeds
  <2> QED BY <1>2, <2>1, <2>2 DEF MoveCall, Deeds
<1>9. <<Do("mkdir", p)>> \in Seq(Step) /\ <<Do("rmdir", p)>> \in Seq(Step)
  BY <1>2 DEF Deeds
<1>10. verb \in {"touch", "mkdir", "rm", "rmdir", "cp", "mv"}
  BY DEF Writers, Movers
<1> DEFINE R == Seq(Step)
<1> HIDE DEF R
<1>11. /\ verb = "touch" => Calls(verb, p, dst, recursive) \in R
       /\ verb = "mkdir" => Calls(verb, p, dst, recursive) \in R
       /\ verb = "rmdir" => Calls(verb, p, dst, recursive) \in R
  BY <1>3, <1>9 DEF Calls, R
<1>12. /\ verb = "rm" => Calls(verb, p, dst, recursive) \in R
       /\ verb = "cp" => Calls(verb, p, dst, recursive) \in R
       /\ verb = "mv" => Calls(verb, p, dst, recursive) \in R
  BY <1>6, <1>7, <1>8 DEF Calls, R
<1>13. Calls(verb, p, dst, recursive) \in R
  BY <1>10, <1>11, <1>12
<1> QED
  BY <1>13 DEF R

------------------------------------------------------------------------------
(* The shell's own state, and what its commands say *)

ShellTyped == env \in Environment /\ cwd \in Seq(Name) /\ env["PWD"] = Abs(cwd)

\* A path of a tree is one that a word can spell.
LEMMA AbsTyped ==
  ASSUME NEW p \in Seq(Name)
  PROVE  Abs(p) \in Spelled /\ Abs(p).parts = p /\ Abs(p).abs = TRUE
<1>1. p \in Seq(Name \cup {".", ".."})
  BY SeqMonotonic
<1> QED
  BY <1>1 DEF Abs, Spelled

LEMMA EmptyTyped == Empty \in Spelled
  BY DEF Empty, Spelled

\* Every protected name is a variable.
LEMMA PwdIsVariable ==
  "PWD" \in Variable /\ "OLDPWD" \in Variable /\ "HOME" \in Variable /\ Protected \subseteq Variable
  BY DEF Variable, Protected

\* A word spells a path, and it resolves to one.
LEMMA ResolveTyped ==
  ASSUME ShellTyped, NEW w \in Word
  PROVE  Expand(w) \in Spelled /\ Resolve(w) \in Seq(Name)
<1>1. Expand(w) \in Spelled
  <2>1. CASE w \in DOMAIN Referred
    <3>1. Referred[w] \in Variable
      BY <2>1 DEF Variable
    <3> QED BY <2>1, <3>1 DEF Expand, ShellTyped, Environment
  <2>2. CASE w \notin DOMAIN Referred
    BY <2>2, ShellConstants DEF Expand
  <2> QED BY <2>1, <2>2
<1> DEFINE s == Expand(w)
<1>2. s.parts \in Seq(Name \cup {".", ".."})
  BY <1>1 DEF Spelled
<1>3. cwd \in Seq(Name \cup {".", ".."})
  BY SeqMonotonic DEF ShellTyped
<1>4. cwd \o s.parts \in Seq(Name \cup {".", ".."})
  BY <1>2, <1>3
<1> HIDE DEF s
<1>5. (IF s.abs THEN s.parts ELSE cwd \o s.parts) \in Seq(Name \cup {".", ".."})
  BY <1>2, <1>4
<1> QED
  BY <1>1, <1>5, NormTyped DEF Resolve, s

\* What a command may print.
Short == {t \in Seq(Text) : Len(t) <= MaxIO}

LEMMA ShortOnes == <<>> \in Short /\ <<"listing">> \in Short
<1>1. "listing" \in Text /\ MaxIO \in Nat \ {0}
  BY ShellConstants
<1>2. <<"listing">> \in Seq(Text) /\ Len(<<"listing">>) = 1 /\ <<>> \in Seq(Text) /\ Len(<<>>) = 0
  BY <1>1
<1> QED
  BY <1>1, <1>2 DEF Short

LEMMA AnswerOf ==
  ASSUME NEW c, NEW out
  PROVE  Answer(c, out).out = out
  BY DEF Answer

\* A text over the limit is not printed.
LEMMA LimitedTyped ==
  ASSUME NEW c, NEW out \in Seq(Text)
  PROVE  Limited(Answer(c, out)).out \in Short
<1>1. Answer(c, out).out = out /\ Answer(1, <<>>).out = <<>>
  BY AnswerOf
<1>2. CASE Len(out) > MaxIO
  BY <1>1, <1>2, ShortOnes DEF Limited
<1>3. CASE ~(Len(out) > MaxIO)
  <2>1. Len(out) \in Nat /\ MaxIO \in Nat
    BY ShellConstants
  <2>2. out \in Short
    BY <1>3, <2>1 DEF Short
  <2>3. Limited(Answer(c, out)).out = out
    BY <1>1, <1>3 DEF Limited
  <2> QED BY <2>2, <2>3
<1> QED
  BY <1>2, <1>3

\* What a file contributes is text.
LEMMA ContributesText ==
  ASSUME Sound(tree), NEW w, NEW bad
  PROVE  Data(w, bad) \in Seq(Text)
<1>1. IsFile(Resolve(w)) => tree[Resolve(w)].data \in Seq(Text)
  BY DataTyped DEF IsFile, Exists
<1>2. <<>> \in Seq(Text)
  OBVIOUS
<1> QED
  BY <1>1, <1>2 DEF Data

LEMMA AllText ==
  ASSUME NEW files \in Seq(Word), NEW f, \A i \in DOMAIN files : f[i] \in Seq(Text),
         f = [i \in DOMAIN files |-> f[i]]
  PROVE  FlattenSeq(f) \in Seq(Text)
<1>1. Len(files) \in Nat /\ DOMAIN files = 1..Len(files)
  OBVIOUS
<1>2. f \in [1..Len(files) -> Seq(Text)]
  BY <1>1
<1>3. f \in Seq(Seq(Text))
  BY <1>1, <1>2
<1> QED
  BY <1>3, FlatTyped

\* The first or the last lines of a text.
LEMMA SliceTyped ==
  ASSUME NEW text \in Seq(Text), NEW count \in Nat, NEW end \in BOOLEAN
  PROVE  Slice(text, count, end) \in Seq(Text) /\ Len(Slice(text, count, end)) <= Len(text)
<1> DEFINE m == Len(text)
           from == IF m > count THEN m - count + 1 ELSE 1
           to == IF m > count THEN count ELSE m
<1>1. m \in Nat /\ \A i \in 1..m : text[i] \in Text
  OBVIOUS
<1>2. Slice(text, count, end) = IF end THEN SubSeq(text, from, m) ELSE SubSeq(text, 1, to)
  BY DEF Slice
<1> HIDE DEF m
<1>3. from \in 1..(m + 1) /\ to \in 0..m /\ from \in Int /\ to \in Int
  BY <1>1
<1> HIDE DEF from, to
<1>4. /\ \A i \in from..m : text[i] \in Text
      /\ \A i \in 1..to : text[i] \in Text
  BY <1>1, <1>3
<1>5. /\ SubSeq(text, from, m) \in Seq(Text)
      /\ Len(SubSeq(text, from, m)) = IF from <= m THEN m - from + 1 ELSE 0
  BY <1>1, <1>3, <1>4, SubSeqProperties
<1>6. /\ SubSeq(text, 1, to) \in Seq(Text)
      /\ Len(SubSeq(text, 1, to)) = IF 1 <= to THEN to - 1 + 1 ELSE 0
  BY <1>1, <1>3, <1>4, SubSeqProperties
<1>7. Len(SubSeq(text, from, m)) <= m /\ Len(SubSeq(text, 1, to)) <= m
  <2>1. (IF from <= m THEN m - from + 1 ELSE 0) <= m /\ (IF 1 <= to THEN to - 1 + 1 ELSE 0) <= m
    BY <1>1, <1>3
  <2> QED BY <1>5, <1>6, <2>1
<1> QED
  BY <1>2, <1>5, <1>6, <1>7 DEF m

\* What head and tail print.
LEMMA LinesTyped ==
  ASSUME Sound(tree), stdin \in Short, NEW args \in Seq(Word), NEW bad, NEW end \in BOOLEAN
  PROVE  Lines(args, bad, end).out \in Short
<1> DEFINE counted == args # <<>> /\ args[1] = "-n"
           files == IF counted THEN SubSeq(args, 3, Len(args)) ELSE args
           count == IF counted THEN Number[args[2]] ELSE 10
           Cut(text) == Slice(text, count, end)
           f == [i \in DOMAIN files |-> Cut(Data(files[i], bad))]
           wrong == counted /\ (Len(args) < 2 \/ args[2] \notin DOMAIN Number)
           option == \E i \in DOMAIN files : Option(files[i])
           a == Answer(Bit(Unread(files, bad)), FlattenSeq(f))
<1>1. Lines(args, bad, end) = IF wrong THEN Answer(1, <<>>)
                              ELSE IF option THEN Answer(1, <<>>)
                              ELSE IF files = <<>> THEN Answer(0, Cut(stdin))
                              ELSE Limited(a)
  BY DEF Lines
<1>2. files \in Seq(Word)
  <2>1. Len(args) \in Nat /\ \A i \in 3..Len(args) : args[i] \in Word
    OBVIOUS
  <2>2. SubSeq(args, 3, Len(args)) \in Seq(Word)
    BY <2>1, SubSeqProperties
  <2> QED BY <2>2
<1>3. ~wrong => count \in Nat
  BY ShellConstants
<1> HIDE DEF wrong, option, count, files
<1>4. ASSUME ~wrong PROVE Cut(stdin) \in Short /\ Limited(a).out \in Short
  <2>1. count \in Nat
    BY <1>3, <1>4
  <2>2. \A t \in Seq(Text) : Cut(t) \in Seq(Text) /\ Len(Cut(t)) <= Len(t)
    BY <2>1, SliceTyped
  <2>3. Cut(stdin) \in Short
    <3>1. stdin \in Seq(Text) /\ Len(stdin) <= MaxIO /\ MaxIO \in Nat
      BY ShellConstants DEF Short
    <3>2. Cut(stdin) \in Seq(Text) /\ Len(Cut(stdin)) <= Len(stdin)
      BY <2>2, <3>1
    <3>3. Len(Cut(stdin)) \in Nat /\ Len(stdin) \in Nat
      BY <3>1, <3>2
    <3> HIDE DEF Cut
    <3> QED BY <3>1, <3>2, <3>3 DEF Short
  <2>4. \A i \in DOMAIN files : f[i] \in Seq(Text)
    BY <2>2, ContributesText
  <2>5. FlattenSeq(f) \in Seq(Text)
    <3>1. f = [i \in DOMAIN files |-> f[i]]
      OBVIOUS
    <3> HIDE DEF f
    <3> QED BY <1>2, <2>4, <3>1, AllText
  <2> HIDE DEF f
  <2> QED BY <2>3, <2>5, LimitedTyped
<1>5. Answer(1, <<>>).out \in Short /\ (~wrong => Answer(0, Cut(stdin)).out \in Short)
  BY <1>4, AnswerOf, ShortOnes
<1> HIDE DEF a, Cut
<1> QED
  BY <1>1, <1>4, <1>5

\* What a reader prints.
LEMMA ReadTyped ==
  ASSUME Sound(tree), stdin \in Short, NEW args \in Seq(Word), NEW bad, NEW verb \in Readers
  PROVE  Read(verb, args, bad).out \in Short
<1>1. Cat(args, bad).out \in Short
  <2> DEFINE f == [i \in DOMAIN args |-> Data(args[i], bad)]
  <2>1. FlattenSeq(f) \in Seq(Text)
    <3>1. \A i \in DOMAIN args : f[i] \in Seq(Text)
      BY ContributesText
    <3>2. f = [i \in DOMAIN args |-> f[i]]
      OBVIOUS
    <3> HIDE DEF f
    <3> QED BY <3>1, <3>2, AllText
  <2>2. Cat(args, bad) = IF args = <<>> THEN Answer(0, stdin)
                         ELSE Limited(Answer(Bit(Unread(args, bad)), FlattenSeq(f)))
    BY DEF Cat
  <2> HIDE DEF f
  <2>3. Answer(0, stdin).out \in Short /\ Limited(Answer(Bit(Unread(args, bad)), FlattenSeq(f))).out \in Short
    BY <2>1, AnswerOf, LimitedTyped
  <2> QED BY <2>2, <2>3
<1>2. Grep(args, bad).out \in Short
  <2>1. CASE args = <<>> \/ Option(args[1])
    <3>1. Grep(args, bad) = Answer(2, <<>>)
      BY <2>1 DEF Grep
    <3> QED BY <3>1, AnswerOf, ShortOnes
  <2>2. CASE ~(args = <<>> \/ Option(args[1]))
    <3> DEFINE files == Tail(args)
               f == [i \in DOMAIN files |-> Data(files[i], bad)]
               text == IF files = <<>> THEN stdin ELSE FlattenSeq(f)
               found == Kept(text, {args[1]})
               c == CASE Unread(files, bad) -> 2 [] found # <<>> -> 0 [] OTHER -> 1
    <3>1. Grep(args, bad) = IF Len(found) > MaxIO THEN Answer(2, <<>>) ELSE Answer(c, found)
      BY <2>2 DEF Grep
    <3>2. files \in Seq(Word)
      BY <2>2
    <3>3. FlattenSeq(f) \in Seq(Text)
      <4>1. \A i \in DOMAIN files : f[i] \in Seq(Text)
        BY ContributesText
      <4>2. f = [i \in DOMAIN files |-> f[i]]
        OBVIOUS
      <4> HIDE DEF f, files
      <4> QED BY <3>2, <4>1, <4>2, AllText
    <3> HIDE DEF f, files, c
    <3>4. text \in Seq(Text)
      BY <3>3 DEF Short
    <3> HIDE DEF text
    <3>5. found \in Seq(Text)
      BY <3>4, KeptTyped
    <3> HIDE DEF found
    <3>6. CASE Len(found) > MaxIO
      BY <3>1, <3>6, AnswerOf, ShortOnes
    <3>7. CASE ~(Len(found) > MaxIO)
      <4>1. Len(found) \in Nat /\ MaxIO \in Nat
        BY <3>5, ShellConstants
      <4>2. found \in Short
        BY <3>5, <3>7, <4>1 DEF Short
      <4> QED BY <3>1, <3>7, <4>2, AnswerOf
    <3> QED BY <3>6, <3>7
  <2> QED BY <2>1, <2>2
<1>3. Lines(args, bad, FALSE).out \in Short /\ Lines(args, bad, TRUE).out \in Short
  BY LinesTyped
<1>4. Ls(args).out \in Short /\ Find(args).out \in Short /\ Stat(args).out \in Short
  <2>1. Answer(1, <<>>).out \in Short /\ Answer(0, <<>>).out \in Short /\ Answer(0, <<"listing">>).out \in Short
    BY AnswerOf, ShortOnes
  <2>2. Ls(args) \in {Answer(1, <<>>), Answer(0, <<>>), Answer(0, <<"listing">>)}
    BY DEF Ls
  <2>3. Find(args) \in {Answer(1, <<>>), Answer(0, <<"listing">>)}
    BY DEF Find
  <2>4. Stat(args) \in {Answer(1, <<>>), Answer(0, <<"listing">>)}
    BY DEF Stat
  <2> QED BY <2>1, <2>2, <2>3, <2>4
<1>5. verb \in {"cat", "grep", "head", "tail", "ls", "find", "stat"}
  BY DEF Readers
<1>6. /\ verb = "cat" => Read(verb, args, bad).out \in Short
      /\ verb = "grep" => Read(verb, args, bad).out \in Short
  BY <1>1, <1>2 DEF Read
<1>7. /\ verb = "head" => Read(verb, args, bad).out \in Short
      /\ verb = "tail" => Read(verb, args, bad).out \in Short
  BY <1>3 DEF Read
<1>8. /\ verb = "ls" => Read(verb, args, bad).out \in Short
      /\ verb = "find" => Read(verb, args, bad).out \in Short
      /\ verb = "stat" => Read(verb, args, bad).out \in Short
  BY <1>4 DEF Read
<1> QED
  BY <1>5, <1>6, <1>7, <1>8

------------------------------------------------------------------------------
(* The state between two steps *)

Holding == UNION {[S -> Seq(Text)] : S \in SUBSET Seq(Name)}
Move == [from : Seq(Name), to : Seq(Name), held : Holding]
Job == [verb : Writers \cup {"none"}, args : Seq(Word), force : BOOLEAN, recursive : BOOLEAN,
        todo : Seq(Step), bad : BOOLEAN, move : Move]
JobTyped ==
  /\ job \in Job
  /\ job.args # <<>> => job.verb \in Writers /\ (job.verb \in Movers => Len(job.args) >= 2)

Busy == {"open", "run", "work", "write"}
PlaceTyped ==
  /\ at \in {"prompt", "line", "dead"} \cup Busy
  /\ line \in Seq(Pipeline) /\ k \in 0..(Len(line) + 1)
  /\ at = "line" => k >= 1
  /\ at \in Busy => k \in 1..Len(line) /\ n \in 1..Len(line[k].commands)
  /\ DOMAIN ran \subseteq {i \in 1..Len(line) : i < k}
  /\ printed \in Nat /\ (at \notin {"prompt", "dead"} => printed <= MaxIO)
IoTyped == stdin \in Short /\ stdout \in Short
CountTyped == faults \in 0..MaxFaults /\ entered \in 0..MaxEntered

Typed == Sound(tree) /\ ShellTyped /\ JobTyped /\ PlaceTyped /\ IoTyped /\ CountTyped

\* Nothing is held before anything is moved.
LEMMA NoJobTyped == NoJob \in Job /\ NoJob.args = <<>> /\ NoMove \in Move
<1>1. <<>> \in Holding
  <2>1. <<>> \in [{} -> Seq(Text)] /\ {} \in SUBSET Seq(Name)
    OBVIOUS
  <2> HIDE DEF Holding
  <2> QED BY <2>1 DEF Holding
<1>2. <<>> \in Seq(Name) /\ <<>> \in Seq(Word) /\ <<>> \in Seq(Step)
  OBVIOUS
<1>3. NoMove \in Move
  BY <1>1, <1>2 DEF NoMove, Move
<1> QED
  BY <1>2, <1>3 DEF NoJob, Job

LEMMA InitTyped == Init => Typed
<1> SUFFICES ASSUME Init PROVE Typed
  OBVIOUS
<1>1. Sound(tree)
  BY TreeConstants DEF Init, Sound
<1>2. ShellTyped
  <2>1. Home \in Seq(Name) /\ Abs(Home) \in Spelled /\ Empty \in Spelled
    BY ShellConstants, AbsTyped, EmptyTyped
  <2>2. env = [v \in Variable |-> IF v \in {"PWD", "OLDPWD", "HOME"} THEN Abs(Home) ELSE Empty]
        /\ cwd = Home
    BY DEF Init
  <2>3. env \in Environment
    BY <2>1, <2>2 DEF Environment
  <2> QED BY <2>1, <2>2, <2>3, PwdIsVariable DEF ShellTyped
<1>3. JobTyped
  BY NoJobTyped DEF Init, JobTyped
<1>4. PlaceTyped
  <2>1. line = <<>> /\ at = "prompt" /\ k = 0 /\ ran = <<>> /\ printed = 0
    BY DEF Init
  <2>2. line \in Seq(Pipeline) /\ Len(line) = 0 /\ DOMAIN ran = {}
    BY <2>1
  <2> QED BY <2>1, <2>2 DEF PlaceTyped, Busy
<1>5. IoTyped
  BY ShortOnes DEF Init, IoTyped
<1>6. CountTyped
  BY ShellConstants DEF Init, CountTyped
<1> QED
  BY <1>1, <1>2, <1>3, <1>4, <1>5, <1>6 DEF Typed

\* The command in hand.
LEMMA CommandInHand ==
  ASSUME PlaceTyped, at \in Busy
  PROVE  /\ Cmd \in Command /\ Args \in Seq(Word)
         /\ HasOut => Cmd.out[1] \in Word /\ Cmd.out[2] \in BOOLEAN
         /\ HasIn => Cmd.in[1] \in Word
         /\ Verb # "none" => Cmd.args # <<>> /\ Verb = Cmd.args[1]
<1>1. k \in 1..Len(line) /\ n \in 1..Len(line[k].commands) /\ line \in Seq(Pipeline)
  BY DEF PlaceTyped
<1>2. line[k] \in Pipeline
  BY <1>1
<1>3. line[k].commands \in Seq(Command)
  BY <1>2 DEF Pipeline
<1>4. Cmd \in Command
  BY <1>1, <1>3 DEF Cmd, Pipe
<1>5. Cmd.args \in Seq(Word) /\ Cmd.out \in {<<>>} \cup (Word \X BOOLEAN)
      /\ Cmd.in \in {<<>>} \cup {<<w>> : w \in Word}
  BY <1>4 DEF Command
<1>6. Args \in Seq(Word)
  <2>1. Len(Cmd.args) \in Nat /\ \A i \in 2..Len(Cmd.args) : Cmd.args[i] \in Word
    BY <1>5
  <2>2. SubSeq(Cmd.args, 2, Len(Cmd.args)) \in Seq(Word)
    BY <2>1, SubSeqProperties
  <2> QED BY <2>2 DEF Args
<1>7. HasOut => Cmd.out[1] \in Word /\ Cmd.out[2] \in BOOLEAN
  BY <1>5 DEF HasOut
<1>8. HasIn => Cmd.in[1] \in Word
  BY <1>5 DEF HasIn
<1>9. Verb # "none" => Cmd.args # <<>> /\ Verb = Cmd.args[1]
  BY DEF Verb
<1> QED
  BY <1>4, <1>6, <1>7, <1>8, <1>9

\* The redirection of the output is a system call, and leaves a tree.
LEMMA OpenedSound ==
  ASSUME Typed, at \in Busy, OutOpens
  PROVE  Sound(Opened)
<1>1. CASE HasOut
  <2>1. Cmd.out[1] \in Word
    BY <1>1, CommandInHand DEF Typed
  <2>2. Resolve(Cmd.out[1]) \in Seq(Name)
    BY <2>1, ResolveTyped DEF Typed
  <2>3. OutStep \in Step
    BY <2>2, DoTyped DEF OutStep, Deeds
  <2>4. Fits(OutStep) /\ Opened = Effect(OutStep)
    BY <1>1 DEF OutOpens, Opened
  <2> QED BY <2>3, <2>4, EffectSound DEF Typed
<1>2. CASE ~HasOut
  BY <1>2 DEF Opened, Typed
<1> QED
  BY <1>1, <1>2

\* When a pipeline is over.
LEMMA OverTyped ==
  ASSUME Typed, at \in Busy, NEW c, NEW out \in Seq(Text), Over(c, out)
  PROVE  PlaceTyped' /\ entered' = entered
<1>1. k \in 1..Len(line) /\ line \in Seq(Pipeline) /\ Len(line) \in Nat
      /\ DOMAIN ran \subseteq {i \in 1..Len(line) : i < k} /\ printed \in Nat
  BY DEF Typed, PlaceTyped
<1>2. line' = line /\ k' = k + 1 /\ n' = n /\ entered' = entered /\ printed' = printed + Len(out)
      /\ DOMAIN ran' = DOMAIN ran \cup {k}
      /\ IF printed + Len(out) > MaxIO THEN at' = "prompt" /\ last' = 1 ELSE at' = "line" /\ last' = c
  BY DEF Over
<1>3. Len(out) \in Nat /\ MaxIO \in Nat
  BY ShellConstants
<1>4. k' \in 0..(Len(line) + 1) /\ k' >= 1
  BY <1>1, <1>2
<1>5. DOMAIN ran' \subseteq {i \in 1..Len(line) : i < k'}
  <2>1. ASSUME NEW i \in DOMAIN ran' PROVE i \in 1..Len(line) /\ i < k'
    <3>1. CASE i = k
      BY <1>1, <1>2, <3>1
    <3>2. CASE i # k
      <4>1. i \in DOMAIN ran
        BY <1>2, <2>1, <3>2
      <4>2. i \in 1..Len(line) /\ i < k
        BY <1>1, <4>1
      <4> QED BY <1>1, <1>2, <4>2
    <3> QED BY <3>1, <3>2
  <2> QED BY <2>1
<1>6. printed' \in Nat /\ (at' \notin {"prompt", "dead"} => printed' <= MaxIO)
  BY <1>1, <1>2, <1>3
<1>7. at' \in {"prompt", "line"}
  BY <1>2
<1> QED
  BY <1>1, <1>2, <1>4, <1>5, <1>6, <1>7 DEF PlaceTyped, Busy

\* Going on within the same pipeline, or not moving at all.
LEMMA StayTyped ==
  ASSUME Typed, UNCHANGED place, at' \in {at, "dead"} \/ (at \in Busy /\ at' \in Busy)
  PROVE  PlaceTyped' /\ entered' = entered
  BY DEF Typed, PlaceTyped, place, Busy


\* What is beneath a path is found there again from its place.
LEMMA PlaceBeneath ==
  ASSUME NEW p \in Seq(Name), NEW q \in Seq(Name), p = q \/ IsPrefix(p, q)
  PROVE  After(p, q, <<>>) \in Seq(Name) /\ p \o After(p, q, <<>>) = q
<1> DEFINE i == Len(p)
           m == Len(q)
<1>1. i \in Nat /\ m \in Nat /\ \A j \in 1..m : q[j] \in Name
  OBVIOUS
<1>2. SubSeq(p, 1, i) = p /\ SubSeq(q, 1, m) = q
  BY SubSeqFull
<1>3. i <= m /\ p = SubSeq(q, 1, i)
  BY <1>1, <1>2 DEF IsPrefix
<1>4. After(p, q, <<>>) = <<>> \o SubSeq(q, i + 1, m)
  BY DEF After
<1> HIDE DEF i, m
<1>5. \A j \in (i + 1)..m : q[j] \in Name
  BY <1>1
<1>6. SubSeq(q, i + 1, m) \in Seq(Name)
  BY <1>1, <1>5, SubSeqProperties
<1>7. After(p, q, <<>>) = SubSeq(q, i + 1, m)
  BY <1>4, <1>6, ConcatEmptySeq
<1>8. SubSeq(q, 1, i) \o SubSeq(q, i + 1, m) = SubSeq(q, 1, m)
  <2>1. 1 \in 1..(m + 1) /\ i \in (1 - 1)..m /\ m \in i..m
    BY <1>1, <1>3
  <2> QED BY <2>1, ConcatAdjacentSubSeq DEF m
<1> QED
  BY <1>2, <1>3, <1>6, <1>7, <1>8

\* What is held of the files that are to be moved is text, by their place.
LEMMA HeldTyped ==
  ASSUME Sound(tree), NEW p \in Seq(Name)
  PROVE  Held(p) \in Holding
<1> DEFINE F == {f \in Beneath(p) \cup {p} : IsFile(f)}
           R == {After(p, q, <<>>) : q \in F}
           h == [r \in R |-> tree[p \o r].data]
<1>1. ASSUME NEW q \in F
      PROVE  /\ After(p, q, <<>>) \in Seq(Name) /\ p \o After(p, q, <<>>) = q
             /\ tree[q].data \in Seq(Text)
  <2>1. q \in DOMAIN tree /\ (p = q \/ IsPrefix(p, q))
    BY DEF Beneath, IsFile, Exists
  <2>2. q \in Seq(Name) /\ tree[q].data \in Seq(Text)
    BY <2>1, DataTyped
  <2> QED BY <2>1, <2>2, PlaceBeneath
<1>2. R \in SUBSET Seq(Name) /\ \A r \in R : tree[p \o r].data \in Seq(Text)
  BY <1>1
<1>3. Held(p) = h
  BY DEF Held
<1> HIDE DEF R
<1>4. h \in [R -> Seq(Text)]
  BY <1>2
<1> QED
  BY <1>2, <1>3, <1>4 DEF Holding

------------------------------------------------------------------------------
(* Every action keeps the types *)

LEMMA EnterTyped ==
  ASSUME Typed, NEW tokens \in Line, Enter(tokens)
  PROVE  Typed'
<1>1. tree' = tree /\ env' = env /\ cwd' = cwd /\ faults' = faults
  BY DEF Enter, shell
<1>2. Sound(tree') /\ ShellTyped'
  BY <1>1 DEF Typed, ShellTyped
<1>3. JobTyped'
  BY NoJobTyped DEF Enter, JobTyped
<1>4. IoTyped'
  BY ShortOnes DEF Enter, IoTyped
<1>5. CountTyped'
  <2>1. entered \in 0..MaxEntered /\ faults \in 0..MaxFaults /\ MaxEntered \in Nat
    BY ShellConstants DEF Typed, CountTyped
  <2>2. entered < MaxEntered /\ entered' = entered + 1
    BY DEF Enter
  <2> QED BY <1>1, <2>1, <2>2 DEF CountTyped
<1>6. PlaceTyped'
  <2>1. k' = 1 /\ n' = 1 /\ ran' = <<>> /\ printed' = 0 /\ MaxIO \in Nat /\ DOMAIN <<>> = {}
    BY ShellConstants DEF Enter
  <2>2. line' \in Seq(Pipeline) /\ Len(line') \in Nat /\ at' \in {"prompt", "line"}
    <3>1. ParsedSequence(tokens) \in Seq(Pipeline)
      BY LineTyped
    <3>2. line' = <<>> \/ line' = ParsedSequence(tokens)
      BY DEF Enter
    <3>0. <<>> \in Seq(Pipeline)
      OBVIOUS
    <3>3. line' \in Seq(Pipeline)
      BY <3>0, <3>1, <3>2
    <3>4. at' \in {"prompt", "line"}
      BY DEF Enter
    <3> QED BY <3>3, <3>4
  <2>3. DOMAIN ran' = {}
    BY <2>1
  <2> QED BY <2>1, <2>2, <2>3 DEF PlaceTyped, Busy
<1> QED
  BY <1>2, <1>3, <1>4, <1>5, <1>6 DEF Typed

\* Steps that only choose what to execute next, or end the worker.
LEMMA ControlTyped ==
  ASSUME Typed, Skip \/ Begin \/ Prompt \/ Killed
  PROVE  Typed'
<1>1. /\ tree' = tree /\ env' = env /\ cwd' = cwd /\ faults' = faults /\ entered' = entered
      /\ job' = job /\ stdout' = stdout /\ line' = line /\ ran' = ran /\ printed' = printed
      /\ stdin' \in {stdin, <<>>}
  BY DEF Skip, Begin, Prompt, Killed, shell, place
<1>2. Sound(tree') /\ ShellTyped' /\ JobTyped' /\ CountTyped'
  BY <1>1 DEF Typed, ShellTyped, JobTyped, CountTyped
<1>3. IoTyped'
  BY <1>1, ShortOnes DEF Typed, IoTyped
<1>4. PlaceTyped'
  <2>0. line \in Seq(Pipeline) /\ Len(line) \in Nat /\ k \in 0..(Len(line) + 1) /\ PlaceTyped
    BY DEF Typed, PlaceTyped
  <2>1. CASE Skip
    <3>1. at = "line" /\ at' = "line" /\ k' = k + 1 /\ k <= Len(line)
      BY <2>1 DEF Skip
    <3>2. k' \in 0..(Len(line) + 1) /\ k' >= 1 /\ \A i \in 1..Len(line) : i < k => i < k'
      BY <2>0, <3>1
    <3> QED BY <1>1, <2>0, <3>1, <3>2 DEF PlaceTyped, Busy
  <2>2. CASE Begin
    <3>1. at = "line" /\ at' = "open" /\ k' = k /\ n' = 1 /\ k <= Len(line)
      BY <2>2 DEF Begin
    <3>2. k \in 1..Len(line)
      BY <2>0, <3>1 DEF PlaceTyped
    <3>3. line[k] \in Pipeline
      BY <2>0, <3>2
    <3>4. n' \in 1..Len(line[k].commands)
      <4>1. line[k].commands \in Seq(Command) /\ Len(line[k].commands) >= 1
        BY <3>3 DEF Pipeline
      <4> QED BY <3>1, <4>1
    <3> QED BY <1>1, <2>0, <3>1, <3>2, <3>4 DEF PlaceTyped, Busy
  <2>3. CASE Prompt
    BY <2>0, <2>3 DEF Prompt, PlaceTyped, Busy, place
  <2>4. CASE Killed
    <3>1. UNCHANGED place /\ at' = "dead"
      BY <2>4 DEF Killed
    <3> QED BY <3>1, StayTyped
  <2> QED BY <2>1, <2>2, <2>3, <2>4
<1> QED
  BY <1>2, <1>3, <1>4 DEF Typed

\* Redirections are opened.
LEMMA RedirectTyped ==
  ASSUME Typed, Redirect
  PROVE  Typed'
<1>0. at = "open" /\ at \in Busy /\ OutOpens
  BY DEF Redirect, Busy
<1>1. /\ tree' = Opened /\ env' = env /\ cwd' = cwd /\ faults' = faults
      /\ job' = job /\ stdout' = stdout
  BY DEF Redirect, shell
<1>2. Sound(tree')
  BY <1>0, <1>1, OpenedSound
<1>3. ShellTyped' /\ JobTyped'
  BY <1>1 DEF Typed, ShellTyped, JobTyped
<1>4. IoTyped'
  <2>1. stdin' = stdin \/ (InOpens /\ HasIn /\ stdin' = Opened[Given].data)
    BY DEF Redirect
  <2>2. ASSUME InOpens, HasIn PROVE Opened[Given].data \in Short
    <3>1. Given \in DOMAIN Opened /\ Len(Opened[Given].data) <= MaxIO
      BY <2>2 DEF InOpens
    <3>2. Opened[Given].data \in Seq(Text)
      BY <1>1, <1>2, <3>1, DataTyped
    <3> QED BY <3>1, <3>2 DEF Short
  <2> QED BY <1>1, <2>1, <2>2 DEF Typed, IoTyped
<1>5. PlaceTyped' /\ entered' = entered
  <2>1. CASE InOpens
    <3>1. UNCHANGED place /\ at' = "run"
      BY <2>1 DEF Redirect
    <3> QED BY <1>0, <3>1, StayTyped DEF Busy
  <2>2. CASE ~InOpens
    <3>1. Over(1, <<>>) /\ <<>> \in Seq(Text)
      BY <2>2 DEF Redirect
    <3> QED BY <1>0, <3>1, OverTyped
  <2> QED BY <2>1, <2>2
<1>6. CountTyped'
  BY <1>1, <1>5 DEF Typed, CountTyped
<1> QED
  BY <1>2, <1>3, <1>4, <1>5, <1>6 DEF Typed

\* A fault is counted.
LEMMA FaultTyped ==
  ASSUME CountTyped, Fault \/ faults' = faults, entered' = entered
  PROVE  CountTyped'
<1>1. faults \in 0..MaxFaults /\ MaxFaults \in Nat
  BY ShellConstants DEF CountTyped
<1>2. faults' \in 0..MaxFaults
  BY <1>1 DEF Fault
<1> QED
  BY <1>2 DEF CountTyped

LEMMA RedirectFailsTyped ==
  ASSUME Typed, RedirectFails
  PROVE  Typed'
<1>1. /\ at \in Busy /\ env' = env /\ cwd' = cwd /\ job' = job /\ stdout' = stdout /\ stdin' = stdin
      /\ Over(1, <<>>) /\ (Fault \/ faults' = faults)
      /\ tree' = tree \/ (OutOpens /\ tree' = Opened)
  BY DEF RedirectFails, Busy, shell
<1>2. Sound(tree')
  BY <1>1, OpenedSound DEF Typed
<1>3. ShellTyped' /\ JobTyped' /\ IoTyped'
  BY <1>1 DEF Typed, ShellTyped, JobTyped, IoTyped
<1>4. PlaceTyped' /\ entered' = entered
  <2>1. <<>> \in Seq(Text)
    OBVIOUS
  <2> QED BY <1>1, <2>1, OverTyped
<1>5. CountTyped'
  BY <1>1, <1>4, FaultTyped DEF Typed
<1> QED
  BY <1>2, <1>3, <1>4, <1>5 DEF Typed

\* Commands that print.
LEMMA RunTyped ==
  ASSUME Typed, RunPlain \/ RunReader
  PROVE  Typed'
<1>1. /\ at = "run" /\ at' = "write" /\ tree' = tree /\ env' = env /\ cwd' = cwd /\ job' = job
      /\ stdin' = stdin /\ UNCHANGED place /\ (Fault \/ faults' = faults)
  BY DEF RunPlain, RunReader, Returns, shell
<1>2. Sound(tree') /\ ShellTyped' /\ JobTyped'
  BY <1>1 DEF Typed, ShellTyped, JobTyped
<1>3. PlaceTyped' /\ entered' = entered
  BY <1>1, StayTyped DEF Busy
<1>4. CountTyped'
  BY <1>1, <1>3, FaultTyped DEF Typed
<1>5. stdout' \in Short
  <2>1. CASE RunPlain
    <3>1. stdout' = <<>> \/ stdout' = <<"listing">>
      BY <2>1 DEF RunPlain, Returns
    <3> QED BY <3>1, ShortOnes
  <2>2. CASE RunReader
    <3>1. Verb \in Readers
      BY <2>2 DEF RunReader
    <3>2. Args \in Seq(Word)
      BY <1>1, CommandInHand DEF Typed, Busy
    <3>3. \A bad : Read(Verb, Args, bad).out \in Short
      BY <3>1, <3>2, ReadTyped DEF Typed, IoTyped
    <3>4. stdout' = <<>> \/ \E bad : stdout' = Read(Verb, Args, bad).out
      BY <2>2 DEF RunReader, Returns
    <3> QED BY <3>3, <3>4, ShortOnes
  <2> QED BY <2>1, <2>2
<1>6. IoTyped'
  BY <1>1, <1>5 DEF Typed, IoTyped
<1> QED
  BY <1>2, <1>3, <1>4, <1>6 DEF Typed

\* Where cd goes is where it looked, since PWD names the directory it is in.
LEMMA CdRight ==
  ASSUME ShellTyped, NEW args \in Seq(Word), Cd(args)
  PROVE  /\ env' \in Environment /\ cwd' \in Seq(Name) /\ env'["PWD"] = Abs(cwd')
         /\ cwd' # cwd => IsDir(cwd')
<1> DEFINE s == IF args = <<>> THEN env["HOME"] ELSE Expand(args[1])
           q == Norm(IF s.abs THEN s.parts ELSE cwd \o s.parts)
           w == Pwd(s)
<1>1. s \in Spelled
  <2>1. args # <<>> => args[1] \in Word
    OBVIOUS
  <2>2. env["HOME"] \in Spelled
    BY PwdIsVariable DEF ShellTyped, Environment
  <2> QED BY <2>1, <2>2, ResolveTyped
<1>2. IF IsDir(q) THEN /\ env' = [env EXCEPT !["OLDPWD"] = env["PWD"], !["PWD"] = Abs(w)]
                       /\ cwd' = w
      ELSE env' = env /\ cwd' = cwd
  BY DEF Cd
<1> HIDE DEF s
<1>3. env["PWD"].parts = cwd /\ env["PWD"] \in Spelled /\ cwd \in Seq(Name)
  BY AbsTyped DEF ShellTyped
<1>4. w = q
  BY <1>3 DEF Pwd
<1>5. q \in Seq(Name)
  <2>1. s.parts \in Seq(Name \cup {".", ".."}) /\ cwd \in Seq(Name \cup {".", ".."})
    BY <1>1, <1>3, SeqMonotonic DEF Spelled
  <2>2. (IF s.abs THEN s.parts ELSE cwd \o s.parts) \in Seq(Name \cup {".", ".."})
    BY <2>1
  <2> QED BY <2>2, NormTyped
<1> HIDE DEF q, w
<1>6. CASE IsDir(q)
  <2>1. env' = [env EXCEPT !["OLDPWD"] = env["PWD"], !["PWD"] = Abs(w)] /\ cwd' = w
    BY <1>2, <1>6
  <2>2. Abs(w) \in Spelled
    BY <1>4, <1>5, AbsTyped
  <2>3. env' \in Environment /\ env'["PWD"] = Abs(w)
    BY <1>3, <2>1, <2>2, PwdIsVariable DEF ShellTyped, Environment
  <2> QED BY <1>4, <1>5, <1>6, <2>1, <2>3
<1>7. CASE ~IsDir(q)
  BY <1>2, <1>7 DEF ShellTyped
<1> QED
  BY <1>6, <1>7

\* unset leaves the protected names alone.
LEMMA UnsetTyped ==
  ASSUME env \in Environment, NEW args, Unset(args)
  PROVE  env' \in Alike(env)
<1>1. \A v \in Variable : env'[v] \in Spelled
  BY EmptyTyped DEF Unset, Environment
<1>2. env' = [v \in Variable |-> env'[v]]
  BY DEF Unset
<1>3. env' \in Environment
  BY <1>1, <1>2 DEF Environment
<1>4. \A v \in Protected : env'[v] = env[v]
  BY PwdIsVariable DEF Unset
<1> QED
  BY <1>3, <1>4 DEF Alike

LEMMA BuiltinTyped ==
  ASSUME Typed, RunBuiltin
  PROVE  Typed' /\ (cwd' # cwd => IsDir(cwd'))
<1>1. /\ at = "run" /\ at' = "write" /\ tree' = tree /\ job' = job
      /\ stdin' = stdin /\ UNCHANGED place /\ faults' = faults
      /\ stdout' \in {<<>>, <<"listing">>}
  BY DEF RunBuiltin
<1>2. Args \in Seq(Word)
  BY <1>1, CommandInHand DEF Typed, Busy
<1>3. ShellTyped' /\ (cwd' # cwd => IsDir(cwd'))
  <2>0. ShellTyped
    BY DEF Typed
  <2>1. CASE Cd(Args)
    <3>1. /\ env' \in Environment /\ cwd' \in Seq(Name) /\ env'["PWD"] = Abs(cwd')
          /\ cwd' # cwd => IsDir(cwd')
      BY <1>2, <2>0, <2>1, CdRight
    <3> QED BY <3>1 DEF ShellTyped
  <2>2. CASE Export(Args) /\ cwd' = cwd
    <3>1. env' \in Alike(env)
      BY <1>2, <2>0, <2>2, ExportTyped DEF ShellTyped
    <3>2. env' \in Environment /\ env'["PWD"] = env["PWD"]
      BY <3>1 DEF Alike, Protected
    <3> QED BY <2>0, <2>2, <3>2 DEF ShellTyped
  <2>3. CASE Unset(Args) /\ cwd' = cwd
    <3>1. env' \in Alike(env)
      BY <2>0, <2>3, UnsetTyped DEF ShellTyped
    <3>2. env' \in Environment /\ env'["PWD"] = env["PWD"]
      BY <3>1 DEF Alike, Protected
    <3> QED BY <2>0, <2>3, <3>2 DEF ShellTyped
  <2>4. CASE UNCHANGED shell
    BY <2>0, <2>4 DEF ShellTyped, shell
  <2> QED BY <2>1, <2>2, <2>3, <2>4 DEF RunBuiltin
<1>4. PlaceTyped' /\ entered' = entered
  BY <1>1, StayTyped DEF Busy
<1>5. IoTyped'
  BY <1>1, ShortOnes DEF Typed, IoTyped
<1>6. JobTyped' /\ CountTyped' /\ Sound(tree')
  BY <1>1, <1>4 DEF Typed, JobTyped, CountTyped
<1> QED
  BY <1>3, <1>4, <1>5, <1>6 DEF Typed

\* Calls that change the tree are begun.
LEMMA WriterTyped ==
  ASSUME Typed, RunWriter
  PROVE  Typed'
<1>1. /\ at = "run" /\ at' \in {"write", "work"} /\ tree' = tree /\ env' = env /\ cwd' = cwd
      /\ stdin' = stdin /\ UNCHANGED place /\ faults' = faults /\ stdout' \in {stdout, <<>>}
      /\ Verb \in Writers
  BY DEF RunWriter, Returns, shell
<1>2. Args \in Seq(Word)
  BY <1>1, CommandInHand DEF Typed, Busy
<1>3. PlaceTyped' /\ entered' = entered
  BY <1>1, StayTyped DEF Busy
<1>4. IoTyped'
  BY <1>1, ShortOnes DEF Typed, IoTyped
<1>5. JobTyped'
  <2>1. CASE Usage
    BY <2>1 DEF RunWriter, Typed, JobTyped
  <2>2. CASE ~Usage
    <3> DEFINE force == \E i \in DOMAIN Args : Args[i] \in {"-f", "-rf"}
               recursive == \E i \in DOMAIN Args :
                              Args[i] = "-r" \/ (Verb = "rm" /\ Args[i] = "-rf")
    <3>1. job' = [NoJob EXCEPT !.verb = Verb, !.args = Operands, !.force = force,
                                !.recursive = recursive]
      BY <2>2 DEF RunWriter
    <3>2. force \in BOOLEAN /\ recursive \in BOOLEAN
      OBVIOUS
    <3> HIDE DEF force, recursive
    <3>3. Operands \in Seq(Word) /\ (Verb \in Movers => Operands = Args)
      <4>1. Paths(Args) \in Seq(Word)
        BY <1>2, KeptTyped DEF Paths
      <4> QED BY <1>2, <4>1 DEF Operands
    <3>4. Verb \in Movers => Len(Operands) >= 2
      <4>1. Len(Args) \in Nat
        BY <1>2
      <4> QED BY <2>2, <3>3, <4>1 DEF Usage
    <3> DEFINE j == [NoJob EXCEPT !.verb = Verb, !.args = Operands, !.force = force,
                                  !.recursive = recursive]
    <3>5. j \in Job /\ j.verb = Verb /\ j.args = Operands
      <4>1. NoJob \in Job
        BY NoJobTyped
      <4> QED BY <1>1, <3>2, <3>3, <4>1 DEF Job
    <3> HIDE DEF j
    <3> QED BY <1>1, <3>1, <3>4, <3>5 DEF JobTyped, j
  <2> QED BY <2>1, <2>2
<1>6. Sound(tree') /\ ShellTyped' /\ CountTyped'
  BY <1>1, <1>3 DEF Typed, ShellTyped, CountTyped
<1> QED
  BY <1>3, <1>4, <1>5, <1>6 DEF Typed

\* The calls of the next argument.
LEMMA NextArgTyped ==
  ASSUME Typed, NextArg
  PROVE  Typed'
<1>1. /\ at = "work" /\ at' = at /\ tree' = tree /\ env' = env /\ cwd' = cwd
      /\ stdin' = stdin /\ UNCHANGED place /\ faults' = faults /\ stdout' = stdout
      /\ job.args # <<>>
  BY DEF NextArg, shell
<1>2. /\ job \in Job /\ job.verb \in Writers /\ job.args \in Seq(Word) /\ job.recursive \in BOOLEAN
      /\ job.verb \in Movers => Len(job.args) >= 2
      /\ job.move \in Move
  BY <1>1 DEF Typed, JobTyped, Job
<1> DEFINE p == Resolve(job.args[1])
           dst == IF job.verb \in Movers THEN Resolve(job.args[2]) ELSE p
           args == IF job.verb \in Movers THEN <<>> ELSE Tail(job.args)
           todo == Calls(job.verb, p, dst, job.recursive)
           move == IF job.verb = "mv" THEN [from |-> p, to |-> Within(p, dst), held |-> Held(p)]
                   ELSE job.move
<1>3. job' = [job EXCEPT !.args = args, !.todo = todo, !.move = move]
  BY DEF NextArg
<1>4. p \in Seq(Name) /\ dst \in Seq(Name)
  <2>1. job.args[1] \in Word
    BY <1>1, <1>2
  <2>2. job.verb \in Movers => job.args[2] \in Word
    <3>1. Len(job.args) \in Nat /\ \A i \in 1..Len(job.args) : job.args[i] \in Word
      BY <1>2
    <3> QED BY <1>2, <3>1
  <2> QED BY <2>1, <2>2, ResolveTyped DEF Typed
<1> HIDE DEF p, dst
<1>5. args \in Seq(Word) /\ (job.verb \in Movers => args = <<>>)
  BY <1>1, <1>2
<1>6. todo \in Seq(Step)
  BY <1>2, <1>4, CallsTyped DEF Typed
<1>7. move \in Move
  <2>1. Within(p, dst) \in Seq(Name) /\ Held(p) \in Holding
    BY <1>4, WithinTyped, HeldTyped DEF Typed
  <2> QED BY <1>2, <1>4, <2>1 DEF Move
<1> HIDE DEF args, todo, move
<1> DEFINE j == [job EXCEPT !.args = args, !.todo = todo, !.move = move]
<1>8. j \in Job /\ j.args = args /\ j.verb = job.verb
  BY <1>2, <1>5, <1>6, <1>7 DEF Job
<1> HIDE DEF j
<1>9. JobTyped'
  BY <1>2, <1>3, <1>5, <1>8 DEF JobTyped, j
<1>10. PlaceTyped' /\ entered' = entered
  BY <1>1, StayTyped
<1>11. Sound(tree') /\ ShellTyped' /\ CountTyped' /\ IoTyped'
  BY <1>1, <1>10 DEF Typed, ShellTyped, CountTyped, IoTyped
<1> QED
  BY <1>9, <1>10, <1>11 DEF Typed

\* A handler is done, does a call, or cannot.
LEMMA WorkTyped ==
  ASSUME Typed, Worked \/ Call \/ CallFails
  PROVE  Typed'
<1>1. /\ at = "work" /\ at' \in {"work", "write"} /\ env' = env /\ cwd' = cwd
      /\ stdin' = stdin /\ UNCHANGED place /\ stdout' \in {stdout, <<>>}
      /\ Fault \/ faults' = faults
  BY DEF Worked, Call, CallFails, Returns, shell
<1>2. job \in Job /\ job.todo \in Seq(Step)
  BY DEF Typed, JobTyped, Job
<1>3. Sound(tree')
  <2>1. CASE Call
    <3>1. job.todo # <<>> /\ Fits(Head(job.todo)) /\ tree' = Effect(Head(job.todo))
      BY <2>1 DEF Call
    <3>2. Head(job.todo) \in Step
      BY <1>2, <3>1
    <3> QED BY <3>1, <3>2, EffectSound DEF Typed
  <2>2. CASE Worked \/ CallFails
    BY <2>2 DEF Typed, Worked, CallFails
  <2> QED BY <2>1, <2>2
<1>4. JobTyped'
  <2>1. CASE job' = NoJob
    BY <2>1, NoJobTyped DEF JobTyped
  <2>2. CASE job.todo # <<>> /\ \/ job' = [job EXCEPT !.todo = Tail(@)]
                                \/ job' = [job EXCEPT !.todo = Tail(@), !.bad = TRUE]
                                \/ job' = [job EXCEPT !.todo = <<>>]
    <3>1. Tail(job.todo) \in Seq(Step) /\ <<>> \in Seq(Step)
      BY <1>2, <2>2
    <3>2. job' \in Job /\ job'.args = job.args /\ job'.verb = job.verb
      BY <1>2, <2>2, <3>1 DEF Job
    <3> QED BY <3>2 DEF Typed, JobTyped
  <2> QED BY <2>1, <2>2 DEF Worked, Call, CallFails
<1>5. PlaceTyped' /\ entered' = entered
  BY <1>1, StayTyped DEF Busy
<1>6. CountTyped'
  BY <1>1, <1>5, FaultTyped DEF Typed
<1>7. ShellTyped' /\ IoTyped'
  BY <1>1, ShortOnes DEF Typed, ShellTyped, IoTyped
<1> QED
  BY <1>3, <1>4, <1>5, <1>6, <1>7 DEF Typed

\* What was printed goes onward.
LEMMA WriteTyped ==
  ASSUME Typed, Write
  PROVE  Typed'
<1>1. at = "write" /\ at \in Busy /\ env' = env /\ cwd' = cwd /\ stdout' = stdout /\ job' = job
      /\ faults' = faults
  BY DEF Write, Busy, shell
<1>2. stdout \in Short /\ stdout \in Seq(Text)
  BY DEF Typed, IoTyped, Short
<1>3. Sound(tree')
  <2>1. CASE HasOut /\ IsFile(Resolve(Cmd.out[1]))
    <3> DEFINE s == [Do("write", Resolve(Cmd.out[1])) EXCEPT !.data = stdout]
    <3>1. tree' = Effect(s)
      BY <2>1 DEF Write
    <3>2. Resolve(Cmd.out[1]) \in Seq(Name)
      BY <1>1, <2>1, CommandInHand, ResolveTyped DEF Typed
    <3>3. s \in Step
      BY <1>2, <3>2, DoTyped DEF Deeds
    <3>4. s.do = "write" /\ s.path = Resolve(Cmd.out[1])
      BY DEF Do
    <3> HIDE DEF s
    <3>5. Fits(s)
      BY <2>1, <3>4 DEF Fits
    <3> QED BY <3>1, <3>3, <3>5, EffectSound DEF Typed
  <2>2. CASE ~(HasOut /\ IsFile(Resolve(Cmd.out[1])))
    BY <2>2 DEF Write, Typed
  <2> QED BY <2>1, <2>2
<1>4. IoTyped'
  BY <1>1, <1>2, ShortOnes DEF Write, IoTyped
<1>5. PlaceTyped' /\ entered' = entered
  <2>1. Onward(<<>>) \/ Onward(stdout)
    BY DEF Write
  <2>2. PICK out \in Seq(Text) : Onward(out)
    <3>1. <<>> \in Seq(Text)
      OBVIOUS
    <3> QED BY <1>2, <2>1, <3>1
  <2>3. CASE n < Len(Pipe)
    <3>1. /\ at' = "open" /\ n' = n + 1 /\ line' = line /\ k' = k /\ ran' = ran
          /\ printed' = printed /\ entered' = entered
      BY <2>2, <2>3 DEF Onward
    <3>2. k \in 1..Len(line) /\ n \in 1..Len(line[k].commands) /\ Pipe = line[k].commands
      BY <1>1 DEF Typed, PlaceTyped, Pipe
    <3>3. n' \in 1..Len(line[k].commands)
      <4>1. Len(Pipe) \in Int
        <5>1. line[k] \in Pipeline
          BY <3>2 DEF Typed, PlaceTyped
        <5>2. line[k].commands \in Seq(Command)
          BY <5>1 DEF Pipeline
        <5> QED BY <3>2, <5>2
      <4> QED BY <2>3, <3>1, <3>2, <4>1
    <3>4. printed <= MaxIO
      BY <1>1 DEF Typed, PlaceTyped, Busy
    <3> QED BY <3>1, <3>2, <3>3, <3>4 DEF Typed, PlaceTyped, Busy
  <2>4. CASE ~(n < Len(Pipe))
    <3>1. Over(code, out)
      BY <2>2, <2>4 DEF Onward
    <3> QED BY <1>1, <3>1, OverTyped
  <2> QED BY <2>3, <2>4
<1>6. ShellTyped' /\ JobTyped' /\ CountTyped'
  BY <1>1, <1>5 DEF Typed, ShellTyped, JobTyped, CountTyped
<1> QED
  BY <1>3, <1>4, <1>5, <1>6 DEF Typed

LEMMA WriteFailsTyped ==
  ASSUME Typed, WriteFails
  PROVE  Typed'
<1>1. /\ at \in Busy /\ tree' = tree /\ env' = env /\ cwd' = cwd /\ job' = job /\ stdout' = stdout
      /\ stdin' = stdin /\ Over(1, <<>>) /\ Fault
  BY DEF WriteFails, Busy, shell
<1>2. Sound(tree') /\ ShellTyped' /\ JobTyped' /\ IoTyped'
  BY <1>1 DEF Typed, ShellTyped, JobTyped, IoTyped
<1>3. PlaceTyped' /\ entered' = entered
  <2>1. <<>> \in Seq(Text)
    OBVIOUS
  <2> QED BY <1>1, <2>1, OverTyped
<1>4. CountTyped'
  BY <1>1, <1>3, FaultTyped DEF Typed
<1> QED
  BY <1>2, <1>3, <1>4 DEF Typed

LEMMA NextTyped == Typed /\ [Next]_vars => Typed'
<1> SUFFICES ASSUME Typed, [Next]_vars PROVE Typed'
  OBVIOUS
<1>1. CASE UNCHANGED vars
  BY <1>1 DEF Typed, ShellTyped, JobTyped, PlaceTyped, IoTyped, CountTyped, vars, shell, place
<1>2. CASE Next
  BY <1>2, EnterTyped, ControlTyped, RedirectTyped, RedirectFailsTyped, RunTyped, BuiltinTyped,
     WriterTyped, NextArgTyped, WorkTyped, WriteTyped, WriteFailsTyped DEF Next
<1> QED
  BY <1>1, <1>2

THEOREM SpecTyped == Spec => []Typed
  BY InitTyped, NextTyped, PTL DEF Spec

------------------------------------------------------------------------------
(* And-or lists *)

Joins == {"&&", "||"}
\* Where the list around pipeline i starts, whether a pipeline succeeded, and what
\* the list from lo is worth at each of its pipelines.
Starts(l, i, j) == (l[j].op \notin Joins \/ j = 1) /\ \A m \in (j + 1)..i : l[m].op \in Joins
StartOf(l, i) == CHOOSE j \in 1..i : Starts(l, i, j)
Ok(r, i) == i \in DOMAIN r /\ r[i] = 0
Worth(l, r, lo, hi) ==
  CHOOSE value : value = [j \in lo..hi |->
    IF j = lo THEN Ok(r, j)
    ELSE IF l[j].op = "&&" THEN value[j - 1] /\ Ok(r, j) ELSE value[j - 1] \/ Ok(r, j)]
HoldsOf(l, r, i) == Worth(l, r, StartOf(l, i), i)[i]

LEMMA HoldsIs ==
  ASSUME NEW i
  PROVE  ListStart(i) = StartOf(line, i) /\ Holds(i) = HoldsOf(line, ran, i)
<1>1. ListStart(i) = StartOf(line, i)
  BY DEF ListStart, StartOf, Starts, Joins
<1>2. \A j : Succeeds(j) = Ok(ran, j)
  BY DEF Succeeds, Ok
<1> QED
  BY <1>1, <1>2 DEF Holds, HoldsOf, Worth, Succeeds, Ok

\* A list starts in one place.
LEMMA StartIs ==
  ASSUME NEW l, NEW i \in Nat \ {0}
  PROVE  /\ StartOf(l, i) \in 1..i /\ Starts(l, i, StartOf(l, i))
         /\ \A j \in 1..i : Starts(l, i, j) => j = StartOf(l, i)
<1> DEFINE T == {m \in Nat : \E j \in 1..i : m = i - j /\ (l[j].op \notin Joins \/ j = 1)}
<1>1. i - 1 \in T
  OBVIOUS
<1>2. PICK m \in T : \A o \in T : m <= o
  <2>1. T \in SUBSET Nat
    OBVIOUS
  <2> HIDE DEF T
  <2> QED BY <1>1, <2>1, Least
<1>3. PICK j \in 1..i : m = i - j /\ (l[j].op \notin Joins \/ j = 1)
  BY <1>2
<1>4. ASSUME NEW o \in (j + 1)..i PROVE l[o].op \in Joins
  <2>1. o \in 1..i /\ i - o \in Nat /\ ~(m <= i - o)
    BY <1>3
  <2>2. i - o \notin T
    <3> HIDE DEF T
    <3> QED BY <1>2, <2>1
  <2> QED BY <2>1, <2>2
<1>5. Starts(l, i, j)
  BY <1>3, <1>4 DEF Starts
<1>6. StartOf(l, i) \in 1..i /\ Starts(l, i, StartOf(l, i))
  BY <1>5 DEF StartOf
<1>7. ASSUME NEW a \in 1..i, NEW b \in 1..i, Starts(l, i, a), Starts(l, i, b), a < b PROVE FALSE
  <2>1. b \in (a + 1)..i /\ b # 1
    BY <1>7
  <2> QED BY <1>7, <2>1 DEF Starts
<1> QED
  BY <1>6, <1>7

\* A list that goes on starts where it started.
LEMMA StartNext ==
  ASSUME NEW l, NEW i \in Nat \ {0}
  PROVE  /\ StartOf(l, i) = i <=> (l[i].op \notin Joins \/ i = 1)
         /\ StartOf(l, i) # i => i - 1 \in Nat \ {0} /\ StartOf(l, i) = StartOf(l, i - 1)
<1>1. StartOf(l, i) \in 1..i /\ Starts(l, i, StartOf(l, i))
  BY StartIs
<1>2. ASSUME l[i].op \notin Joins \/ i = 1 PROVE StartOf(l, i) = i
  <2>1. i \in 1..i /\ (i + 1)..i = {}
    OBVIOUS
  <2>2. Starts(l, i, i)
    BY <1>2, <2>1 DEF Starts
  <2> QED BY <2>1, <2>2, StartIs
<1>3. ASSUME StartOf(l, i) = i PROVE l[i].op \notin Joins \/ i = 1
  BY <1>1, <1>3 DEF Starts
<1>4. ASSUME StartOf(l, i) # i PROVE i - 1 \in Nat \ {0} /\ StartOf(l, i) = StartOf(l, i - 1)
  <2> DEFINE j == StartOf(l, i)
  <2>1. j \in 1..i /\ j # i /\ Starts(l, i, j)
    BY <1>1, <1>4
  <2> HIDE DEF j
  <2>2. i - 1 \in Nat \ {0} /\ j \in 1..(i - 1) /\ \A m \in (j + 1)..(i - 1) : m \in (j + 1)..i
    BY <2>1
  <2>3. Starts(l, i - 1, j)
    BY <2>1, <2>2 DEF Starts
  <2>4. j = StartOf(l, i - 1)
    BY <2>2, <2>3, StartIs
  <2> QED BY <2>2, <2>4 DEF j
<1> QED
  BY <1>2, <1>3, <1>4

\* What a list is worth, from one pipeline to the next.
LEMMA WorthIs ==
  ASSUME NEW l, NEW r, NEW lo \in Nat, NEW hi \in Nat
  PROVE  \A j \in lo..hi :
           /\ Worth(l, r, lo, hi)[j] \in BOOLEAN
           /\ Worth(l, r, lo, hi)[j] =
                IF j = lo THEN Ok(r, j)
                ELSE IF l[j].op = "&&" THEN Worth(l, r, lo, hi)[j - 1] /\ Ok(r, j)
                     ELSE Worth(l, r, lo, hi)[j - 1] \/ Ok(r, j)
<1> DEFINE On(j, v) == IF l[j].op = "&&" THEN v /\ Ok(r, j) ELSE v \/ Ok(r, j)
           Is(value) == value = [j \in lo..hi |->
             IF j = lo THEN Ok(r, j)
             ELSE IF l[j].op = "&&" THEN value[j - 1] /\ Ok(r, j) ELSE value[j - 1] \/ Ok(r, j)]
           Is2(value) == value = [j \in lo..hi |-> IF j = lo THEN Ok(r, lo) ELSE On(j, value[j - 1])]
           g == [j \in lo..hi |-> [v \in BOOLEAN |-> On(j, v)]]
           w == Worth(l, r, lo, hi)
<1>1. \A j, v : On(j, v) \in BOOLEAN /\ Ok(r, j) \in BOOLEAN
  BY DEF Ok
<1> DEFINE b == Ok(r, lo)
<1>2. b \in BOOLEAN
  BY <1>1
<1>3. \A value : Is(value) <=> Is2(value)
  <2>1. ASSUME NEW value
        PROVE  \A j \in lo..hi :
                 (IF j = lo THEN Ok(r, j)
                  ELSE IF l[j].op = "&&" THEN value[j - 1] /\ Ok(r, j) ELSE value[j - 1] \/ Ok(r, j))
                 = (IF j = lo THEN Ok(r, lo) ELSE On(j, value[j - 1]))
    OBVIOUS
  <2> QED BY <2>1
<1> HIDE DEF On, b
<1>4. g \in [lo..hi -> [BOOLEAN -> BOOLEAN]] /\ \A j \in lo..hi, v \in BOOLEAN : g[j][v] = On(j, v)
  BY <1>1
<1> HIDE DEF g
<1> DEFINE it == StepsOf(lo, hi, b, g)
<1>5. /\ it = [j \in lo..hi |-> IF j = lo THEN b ELSE g[j][it[j - 1]]]
      /\ \A j \in lo..hi : it[j] \in BOOLEAN
  BY <1>2, <1>4, StepsExist
<1> HIDE DEF it
<1>6. ASSUME NEW j \in lo..hi, j # lo PROVE g[j][it[j - 1]] = On(j, it[j - 1])
  <2>1. j - 1 \in lo..hi
    BY <1>6
  <2> QED BY <1>4, <1>5, <2>1
<1>7. Is2(it)
  BY <1>5, <1>6 DEF b
<1>8. Is(w)
  <2>1. \E value : Is(value)
    BY <1>3, <1>7
  <2> QED BY <2>1 DEF Worth
<1>9. Is2(w)
  BY <1>3, <1>8
<1> HIDE DEF w
<1>10. \A j \in lo..hi : w[j] = IF j = lo THEN Ok(r, lo) ELSE On(j, w[j - 1])
  BY <1>9
<1>11. \A j \in lo..hi : w[j] \in BOOLEAN
  BY <1>1, <1>10
<1> QED
  BY <1>10, <1>11 DEF On, w

\* It depends on how the pipelines up to there ended, not on how far one looks.
Agree(r, s, lo, m) == \A j \in lo..m : Ok(r, j) <=> Ok(s, j)
LEMMA WorthSame ==
  ASSUME NEW l, NEW r, NEW s, NEW lo \in Nat, NEW hi \in Nat, NEW up \in Nat, NEW m \in Nat,
         m <= hi, m <= up, Agree(r, s, lo, m)
  PROVE  \A j \in lo..m : Worth(l, r, lo, hi)[j] = Worth(l, s, lo, up)[j]
<1> DEFINE v == Worth(l, r, lo, hi)
           w == Worth(l, s, lo, up)
           T == {j \in lo..m : v[j] # w[j]}
<1>1. ASSUME NEW j \in lo..m
      PROVE  /\ v[j] = IF j = lo THEN Ok(r, j)
                       ELSE IF l[j].op = "&&" THEN v[j - 1] /\ Ok(r, j) ELSE v[j - 1] \/ Ok(r, j)
             /\ w[j] = IF j = lo THEN Ok(s, j)
                       ELSE IF l[j].op = "&&" THEN w[j - 1] /\ Ok(s, j) ELSE w[j - 1] \/ Ok(s, j)
  <2>1. j \in lo..hi /\ j \in lo..up
    OBVIOUS
  <2> QED BY <2>1, WorthIs
<1>2. \A j : Ok(r, j) \in BOOLEAN /\ Ok(s, j) \in BOOLEAN
  BY DEF Ok
<1> HIDE DEF v, w
<1>3. ASSUME T # {} PROVE FALSE
  <2>1. PICK j \in T : \A o \in T : j <= o
    <3>1. T \in SUBSET Nat
      OBVIOUS
    <3> HIDE DEF T
    <3> QED BY <1>3, <3>1, Least
  <2>2. j \in lo..m /\ v[j] # w[j]
    OBVIOUS
  <2>3. Ok(r, j) = Ok(s, j)
    BY <1>2, <2>2 DEF Agree
  <2>4. j # lo
    BY <1>1, <2>2, <2>3
  <2>5. j - 1 \in lo..m /\ ~(j <= j - 1)
    BY <2>2, <2>4
  <2>6. j - 1 \notin T
    <3> HIDE DEF T
    <3> QED BY <2>1, <2>5
  <2>7. v[j - 1] = w[j - 1]
    BY <2>5, <2>6
  <2> HIDE DEF T
  <2> QED BY <1>1, <2>2, <2>3, <2>4, <2>7
<1>4. \A j \in lo..m : v[j] = w[j]
  BY <1>3
<1> QED
  BY <1>4 DEF v, w

\* What the list up to a pipeline is worth, from the list before it.
LEMMA HoldsStep ==
  ASSUME NEW l, NEW r, NEW i \in Nat \ {0}
  PROVE  /\ HoldsOf(l, r, i) \in BOOLEAN
         /\ StartOf(l, i) = i => (HoldsOf(l, r, i) <=> Ok(r, i))
         /\ StartOf(l, i) # i /\ l[i].op = "&&" =>
              (HoldsOf(l, r, i) <=> (HoldsOf(l, r, i - 1) /\ Ok(r, i)))
         /\ StartOf(l, i) # i /\ l[i].op # "&&" =>
              (HoldsOf(l, r, i) <=> (HoldsOf(l, r, i - 1) \/ Ok(r, i)))
<1> DEFINE lo == StartOf(l, i)
           v == Worth(l, r, lo, i)
<1>1. lo \in 1..i /\ lo \in Nat /\ i \in lo..i
  BY StartIs
<1>2. HoldsOf(l, r, i) = v[i]
  BY DEF HoldsOf
<1>3. /\ v[i] \in BOOLEAN
      /\ v[i] = IF i = lo THEN Ok(r, i)
                ELSE IF l[i].op = "&&" THEN v[i - 1] /\ Ok(r, i) ELSE v[i - 1] \/ Ok(r, i)
  BY <1>1, WorthIs
<1>4. ASSUME lo # i PROVE v[i - 1] = HoldsOf(l, r, i - 1)
  <2>1. i - 1 \in Nat \ {0} /\ lo = StartOf(l, i - 1)
    BY <1>4, StartNext
  <2>2. i - 1 \in lo..(i - 1) /\ i - 1 <= i /\ i - 1 <= i - 1
    BY <1>1, <1>4, <2>1
  <2>3. Worth(l, r, lo, i)[i - 1] = Worth(l, r, lo, i - 1)[i - 1]
    <3>1. i \in Nat /\ i - 1 \in Nat /\ lo \in Nat
      BY <1>1, <2>1
    <3>2. Agree(r, r, lo, i - 1)
      BY DEF Agree
    <3> HIDE DEF lo
    <3>3. \A j \in lo..(i - 1) : Worth(l, r, lo, i)[j] = Worth(l, r, lo, i - 1)[j]
      BY <2>2, <3>1, <3>2, WorthSame
    <3> QED BY <2>2, <3>3
  <2> QED BY <2>1, <2>3 DEF HoldsOf
<1> HIDE DEF v, lo
<1>5. lo = i => (HoldsOf(l, r, i) <=> Ok(r, i))
  BY <1>2, <1>3
<1>6. lo # i => /\ l[i].op = "&&" => (HoldsOf(l, r, i) <=> (HoldsOf(l, r, i - 1) /\ Ok(r, i)))
                /\ l[i].op # "&&" => (HoldsOf(l, r, i) <=> (HoldsOf(l, r, i - 1) \/ Ok(r, i)))
  BY <1>2, <1>3, <1>4
<1> QED
  BY <1>2, <1>3, <1>5, <1>6 DEF lo

LEMMA HoldsSame ==
  ASSUME NEW l, NEW r, NEW s, NEW i \in Nat \ {0}, \A j \in 1..i : Ok(r, j) <=> Ok(s, j)
  PROVE  HoldsOf(l, r, i) = HoldsOf(l, s, i)
<1> DEFINE lo == StartOf(l, i)
<1>1. lo \in 1..i /\ lo \in Nat /\ i \in lo..i /\ \A j \in lo..i : j \in 1..i
  BY StartIs
<1>2. Worth(l, r, lo, i)[i] = Worth(l, s, lo, i)[i]
  <2> HIDE DEF lo
  <2>1. Agree(r, s, lo, i)
    BY <1>1 DEF Agree
  <2>2. i \in Nat /\ i <= i
    OBVIOUS
  <2>3. \A j \in lo..i : Worth(l, r, lo, i)[j] = Worth(l, s, lo, i)[j]
    BY <1>1, <2>1, <2>2, WorthSame
  <2> QED BY <1>1, <2>3
<1> QED
  BY <1>2 DEF HoldsOf

\* Whether a pipeline of line l is to be executed, by what was executed before it.
Due(l, r, i) == \/ i = StartOf(l, i)
                \/ l[i].op = "&&" /\ HoldsOf(l, r, i - 1)
                \/ l[i].op = "||" /\ ~HoldsOf(l, r, i - 1)
\* The code of the last pipeline is that of the list so far.
LastRight(l, r, i, code0) ==
  IF i = 1 THEN code0 = 0 ELSE (code0 = 0 <=> HoldsOf(l, r, i - 1))
\* What is true of a line from its start to its end.
ListsSound ==
  line # <<>> /\ line[1].op \notin Joins =>
  /\ k >= 1
  /\ \A i \in 1..Len(line) : i < k => (i \in DOMAIN ran <=> Due(line, ran, i))
  /\ at \in {"line"} \cup Busy => LastRight(line, ran, k, last)
  /\ at \in Busy => Wanted(line[k].op)
  /\ at = "prompt" /\ printed <= MaxIO => k = Len(line) + 1 /\ LastRight(line, ran, k, last)

\* A pipeline is due when it is wanted.
LEMMA WantedIsDue ==
  ASSUME PlaceTyped, line[1].op \notin Joins, k \in 1..Len(line), LastRight(line, ran, k, last)
  PROVE  Wanted(line[k].op) <=> Due(line, ran, k)
<1>1. k \in Nat \ {0}
  BY DEF PlaceTyped
<1>2. StartOf(line, k) = k <=> (line[k].op \notin Joins \/ k = 1)
  BY <1>1, StartNext
<1>3. CASE line[k].op \notin Joins
  BY <1>2, <1>3 DEF Wanted, Due, Joins
<1>4. CASE line[k].op \in Joins
  <2>1. k # 1 /\ StartOf(line, k) # k
    BY <1>2, <1>4
  <2>2. last = 0 <=> HoldsOf(line, ran, k - 1)
    BY <2>1 DEF LastRight
  <2> QED BY <1>4, <2>1, <2>2 DEF Wanted, Due, Joins
<1> QED
  BY <1>3, <1>4

LEMMA InitLists == Init => ListsSound
  BY DEF Init, ListsSound

LEMMA EnterLists ==
  ASSUME NEW tokens \in Line, Enter(tokens)
  PROVE  ListsSound'
<1>1. /\ k' = 1 /\ ran' = <<>> /\ printed' = 0
      /\ (at' = "prompt" /\ line' = <<>>) \/ (at' = "line" /\ last' = 0)
  BY DEF Enter
<1>2. \A i \in 1..Len(line') : ~(i < 1)
  OBVIOUS
<1>3. LastRight(line', ran', 1, 0)
  BY DEF LastRight
<1> QED
  BY <1>1, <1>2, <1>3 DEF ListsSound, Busy

\* A pipeline that is not wanted is passed over.
LEMMA SkipLists ==
  ASSUME Typed, ListsSound, Skip
  PROVE  ListsSound'
<1> SUFFICES ASSUME line # <<>>, line[1].op \notin Joins PROVE ListsSound'
  BY DEF ListsSound, Skip
<1>1. /\ at = "line" /\ at' = at /\ k <= Len(line) /\ k' = k + 1 /\ line' = line /\ ran' = ran
      /\ last' = last /\ printed' = printed /\ ~Wanted(line[k].op)
  BY DEF Skip
<1>2. k \in 1..Len(line) /\ PlaceTyped /\ Len(line) \in Nat
  BY <1>1 DEF Typed, PlaceTyped
<1>3. LastRight(line, ran, k, last)
  BY <1>1 DEF ListsSound
<1>4. ~Due(line, ran, k)
  BY <1>1, <1>2, <1>3, WantedIsDue
<1>5. k \notin DOMAIN ran
  BY <1>2 DEF PlaceTyped
<1>6. ASSUME NEW i \in 1..Len(line), i < k + 1 PROVE i \in DOMAIN ran <=> Due(line, ran, i)
  <2>1. i = k \/ i < k
    BY <1>2, <1>6
  <2> QED BY <1>4, <1>5, <2>1 DEF ListsSound
<1>7. k + 1 >= 1 /\ k + 1 # 1 /\ k + 1 - 1 = k /\ k \in Nat \ {0}
  BY <1>2
<1>8. last = 0 <=> HoldsOf(line, ran, k)
  <2>1. line[k].op \in Joins /\ StartOf(line, k) # k /\ k # 1
    BY <1>1, <1>7, <1>4 DEF Due, Wanted, Joins
  <2>2. last = 0 <=> HoldsOf(line, ran, k - 1)
    BY <1>3, <2>1 DEF LastRight
  <2>3. ~Ok(ran, k)
    BY <1>5 DEF Ok
  <2>4. CASE line[k].op = "&&"
    <3>1. last # 0
      BY <1>1, <2>4 DEF Wanted
    <3> QED BY <1>7, <2>1, <2>2, <2>3, <2>4, <3>1, HoldsStep
  <2>5. CASE line[k].op = "||"
    <3>1. last = 0
      BY <1>1, <2>5 DEF Wanted
    <3> QED BY <1>7, <2>1, <2>2, <2>3, <2>5, <3>1, HoldsStep
  <2> QED BY <2>1, <2>4, <2>5 DEF Joins
<1>9. LastRight(line, ran, k + 1, last)
  BY <1>7, <1>8 DEF LastRight
<1> QED
  BY <1>1, <1>6, <1>7, <1>9 DEF ListsSound, Busy

\* A pipeline that was wanted is over.
LEMMA OverLists ==
  ASSUME Typed, ListsSound, at \in Busy, NEW c, NEW out \in Seq(Text), Over(c, out)
  PROVE  ListsSound'
<1> SUFFICES ASSUME line # <<>>, line[1].op \notin Joins PROVE ListsSound'
  BY DEF ListsSound, Over
<1>1. /\ line' = line /\ k' = k + 1 /\ printed' = printed + Len(out)
      /\ ran' = [i \in DOMAIN ran \cup {k} |-> IF i = k THEN c ELSE ran[i]]
      /\ IF printed + Len(out) > MaxIO THEN at' = "prompt" /\ last' = 1 ELSE at' = "line" /\ last' = c
  BY DEF Over
<1>2. k \in 1..Len(line) /\ PlaceTyped /\ Len(line) \in Nat /\ k \in Nat \ {0} /\ k - 1 \in Nat
  BY DEF Typed, PlaceTyped
<1>3. LastRight(line, ran, k, last) /\ Wanted(line[k].op)
  BY DEF ListsSound
<1>4. Due(line, ran, k)
  BY <1>2, <1>3, WantedIsDue
<1>5. /\ \A i : i # k => (Ok(ran', i) <=> Ok(ran, i)) /\ (i \in DOMAIN ran' <=> i \in DOMAIN ran)
      /\ Ok(ran', k) <=> c = 0
      /\ k \in DOMAIN ran'
  BY <1>1 DEF Ok
<1>6. ASSUME NEW i \in Nat, i < k PROVE i # 0 => HoldsOf(line, ran', i) = HoldsOf(line, ran, i)
  <2>1. ASSUME i # 0 PROVE HoldsOf(line, ran', i) = HoldsOf(line, ran, i)
    <3>1. i \in Nat \ {0} /\ \A j \in 1..i : j # k
      BY <1>2, <1>6, <2>1
    <3> QED BY <1>5, <3>1, HoldsSame
  <2> QED BY <2>1
<1>7. ASSUME NEW i \in 1..Len(line), i < k + 1 PROVE Due(line, ran', i) <=> Due(line, ran, i)
  <2>1. i \in Nat \ {0} /\ i - 1 \in Nat /\ i - 1 < k
    BY <1>2, <1>7
  <2>2. CASE i = 1
    <3>1. i = StartOf(line, i)
      BY <2>1, <2>2, StartNext
    <3> QED BY <3>1 DEF Due
  <2>3. CASE i # 1
    <3>1. i - 1 # 0
      BY <2>1, <2>3
    <3>2. HoldsOf(line, ran', i - 1) = HoldsOf(line, ran, i - 1)
      BY <1>6, <2>1, <3>1
    <3> QED BY <3>2 DEF Due
  <2> QED BY <2>2, <2>3
<1>8. ASSUME NEW i \in 1..Len(line), i < k + 1 PROVE i \in DOMAIN ran' <=> Due(line, ran', i)
  <2>1. i = k \/ (i < k /\ i # k)
    BY <1>2, <1>8
  <2> QED BY <1>4, <1>5, <1>7, <1>8, <2>1 DEF ListsSound
<1>9. c = 0 <=> HoldsOf(line, ran', k)
  <2>1. CASE StartOf(line, k) = k
    BY <1>2, <1>5, <2>1, HoldsStep
  <2>2. CASE StartOf(line, k) # k
    <3>1. line[k].op \in Joins /\ k # 1 /\ k - 1 # 0 /\ k - 1 < k
      BY <1>2, <2>2, StartNext
    <3>2. last = 0 <=> HoldsOf(line, ran', k - 1)
      <4>1. last = 0 <=> HoldsOf(line, ran, k - 1)
        BY <1>3, <3>1 DEF LastRight
      <4>2. HoldsOf(line, ran', k - 1) = HoldsOf(line, ran, k - 1)
        BY <1>2, <1>6, <3>1
      <4> QED BY <4>1, <4>2
    <3>3. CASE line[k].op = "&&"
      <4>1. HoldsOf(line, ran', k - 1)
        BY <1>3, <3>2, <3>3 DEF Wanted
      <4> QED BY <1>2, <1>5, <2>2, <3>3, <4>1, HoldsStep
    <3>4. CASE line[k].op = "||"
      <4>1. ~HoldsOf(line, ran', k - 1)
        BY <1>3, <3>2, <3>4 DEF Wanted
      <4> QED BY <1>2, <1>5, <2>2, <3>4, <4>1, HoldsStep
    <3> QED BY <3>1, <3>3, <3>4 DEF Joins
  <2> QED BY <2>1, <2>2
<1>10. k + 1 >= 1 /\ k + 1 # 1 /\ k + 1 - 1 = k
  BY <1>2
<1>11. at' = "line" => LastRight(line, ran', k + 1, last')
  BY <1>1, <1>9, <1>10 DEF LastRight
<1>12. at' = "prompt" => ~(printed' <= MaxIO)
  <2>1. printed \in Nat /\ Len(out) \in Nat /\ MaxIO \in Nat
    BY <1>2, ShellConstants DEF PlaceTyped
  <2> QED BY <1>1, <2>1
<1>13. at' \in {"line", "prompt"}
  BY <1>1
<1> QED
  BY <1>1, <1>8, <1>10, <1>11, <1>12, <1>13 DEF ListsSound, Busy

\* Within a pipeline, and when the worker is killed, nothing of this changes.
LEMMA StayLists ==
  ASSUME ListsSound, line' = line, k' = k, last' = last, ran' = ran, printed' = printed,
         (at \in Busy /\ at' \in Busy) \/ at' = "dead" \/ at' = at
  PROVE  ListsSound'
  BY DEF ListsSound, Busy, Wanted

LEMMA LineLists ==
  ASSUME Typed, ListsSound, Begin \/ Prompt
  PROVE  ListsSound'
<1>1. /\ at = "line" /\ line' = line /\ k' = k /\ last' = last /\ ran' = ran /\ printed' = printed
  BY DEF Begin, Prompt, place
<1>2. CASE Begin
  <2>1. at' = "open" /\ Wanted(line[k].op)
    BY <1>2 DEF Begin
  <2> QED BY <1>1, <2>1 DEF ListsSound, Busy, Wanted
<1>3. CASE Prompt
  <2>1. at' = "prompt" /\ k > Len(line)
    BY <1>3 DEF Prompt
  <2>2. k = Len(line) + 1
    BY <2>1 DEF Typed, PlaceTyped
  <2> QED BY <1>1, <2>1, <2>2 DEF ListsSound, Busy
<1> QED
  BY <1>2, <1>3

LEMMA NextLists == Typed /\ ListsSound /\ [Next]_vars => ListsSound'
<1> SUFFICES ASSUME Typed, ListsSound, [Next]_vars PROVE ListsSound'
  OBVIOUS
<1>0. <<>> \in Seq(Text) /\ (at = "write" => stdout \in Seq(Text))
  BY DEF Typed, IoTyped, Short
<1>1. CASE UNCHANGED vars
  BY <1>1, StayLists DEF vars, place
<1>2. ASSUME NEW tokens \in Line, Enter(tokens) PROVE ListsSound'
  BY <1>2, EnterLists
<1>3. CASE Skip \/ Begin \/ Prompt
  BY <1>3, SkipLists, LineLists
<1>4. CASE Redirect
  <2>1. at \in Busy /\ (Over(1, <<>>) \/ (at' = "run" /\ UNCHANGED place))
    BY <1>4 DEF Redirect, Busy
  <2> QED BY <1>0, <2>1, OverLists, StayLists DEF place, Busy
<1>5. CASE RedirectFails \/ WriteFails
  <2>1. at \in Busy /\ Over(1, <<>>)
    BY <1>5 DEF RedirectFails, WriteFails, Busy
  <2> QED BY <1>0, <2>1, OverLists
<1>6. CASE RunPlain \/ RunBuiltin \/ RunReader \/ RunWriter \/ NextArg \/ Worked \/ Call \/ CallFails
  <2>1. UNCHANGED place /\ at \in Busy /\ at' \in Busy
    BY <1>6 DEF RunPlain, RunBuiltin, RunReader, RunWriter, NextArg, Worked, Call, CallFails, Returns, Busy
  <2> QED BY <2>1, StayLists DEF place
<1>7. CASE Write
  <2>1. at = "write" /\ at \in Busy /\ (Onward(<<>>) \/ Onward(stdout))
    BY <1>7 DEF Write, Busy
  <2>2. PICK out \in Seq(Text) : Onward(out)
    BY <1>0, <2>1
  <2>3. CASE n < Len(Pipe)
    <3>1. at' \in Busy /\ UNCHANGED <<line, k, last, ran, printed>>
      BY <2>2, <2>3 DEF Onward, Busy
    <3> QED BY <2>1, <3>1, StayLists
  <2>4. CASE ~(n < Len(Pipe))
    <3>1. Over(code, out)
      BY <2>2, <2>4 DEF Onward
    <3> QED BY <2>1, <3>1, OverLists
  <2> QED BY <2>3, <2>4
<1>8. CASE Killed
  BY <1>8, StayLists DEF Killed, place
<1> QED
  BY <1>1, <1>2, <1>3, <1>4, <1>5, <1>6, <1>7, <1>8 DEF Next

THEOREM SpecLists == Spec => [](Typed /\ ListsSound)
  BY InitTyped, NextTyped, InitLists, NextLists, PTL DEF Spec

------------------------------------------------------------------------------
(* A move: what it has done and what it has left to do *)

Removal(s) == s.do \in {"unlink", "rmdir"}
Writing(s) == s.do \in {"wb", "write"}
Whole(t, p, d) == p \in DOMAIN t /\ t[p].kind = "file" /\ t[p].data = d
AtSource(t, m) == \A r \in DOMAIN m.held : Whole(t, m.from \o r, m.held[r])

\* What holds of the calls of a move and of every end of them: removals come last and
\* spare the target, what is written is not the source, and a copytree that noted a
\* failure is going to raise.
RemovedLast(T) == \A i, j \in 1..Len(T) : i < j /\ Removal(T[i]) => Removal(T[j])
SparesSource(T, m) ==
  \A i \in 1..Len(T), r \in DOMAIN m.held : Writing(T[i]) => T[i].path # m.from \o r
SparesTarget(T, m) ==
  \A i \in 1..Len(T), r \in DOMAIN m.held : Removal(T[i]) => T[i].path # m.to \o r
Checked(T) == \A i \in 1..Len(T) : T[i].soft => \E j \in 1..Len(T) : i < j /\ T[j].do = "check"
Plan(T, m) == RemovedLast(T) /\ SparesSource(T, m) /\ SparesTarget(T, m) /\ Checked(T)

\* A file is at the target, or it is about to be written: onto an empty file.
Touches(s, p) == Writing(s) /\ s.path = p
Done(t, T, p, d) == Whole(t, p, d) /\ \A i \in 1..Len(T) : ~Touches(T[i], p)
PendingAt(t, T, p, d, i) ==
  /\ T[i].do = "write" /\ T[i].path = p /\ T[i].data = d
  /\ i = 1 => Whole(t, p, <<>>)
  /\ i # 1 => T[i - 1].do = "wb" /\ T[i - 1].path = p
  /\ \A j \in 1..Len(T) : j # i /\ j # i - 1 => ~Touches(T[j], p)
Pending(t, T, p, d) == \E i \in 1..Len(T) : PendingAt(t, T, p, d, i)
Copied(t, T, p, d) == Done(t, T, p, d) \/ Pending(t, T, p, d)

Moving(t, T, m, bad) ==
  /\ Plan(T, m)
  /\ bad => \E i \in 1..Len(T) : T[i].do = "check"
  /\ (\E i \in 1..Len(T) : ~Removal(T[i])) => AtSource(t, m)
  /\ ~bad => \A r \in DOMAIN m.held : Copied(t, T, m.to \o r, m.held[r])
\* Nothing is moved when source and target are one, or shutil refuses.
Refused(t, T, m) == AtSource(t, m) /\ \A i \in 1..Len(T) : T[i].do = "fail"
MoveSound ==
  /\ job.verb = "mv" /\ job.args # <<>> => job.todo = <<>> /\ ~job.bad
  /\ DOMAIN job.move.held # {} =>
       /\ at \in {"work", "dead"} /\ job.verb = "mv" /\ job.args = <<>>
       /\ \/ Refused(tree, job.todo, job.move)
          \/ Moving(tree, job.todo, job.move, job.bad)

\* The calls that are left.
LEMMA TailOf ==
  ASSUME NEW T \in Seq(Step), T # <<>>
  PROVE  /\ Tail(T) \in Seq(Step) /\ Len(T) \in Nat /\ Len(Tail(T)) = Len(T) - 1
         /\ 1 \in 1..Len(T) /\ T[1] \in Step /\ T[1] = Head(T)
         /\ \A i \in 1..Len(Tail(T)) : Tail(T)[i] = T[i + 1] /\ i + 1 \in 1..Len(T)
         /\ \A i \in 1..Len(T) : i # 1 => i - 1 \in 1..Len(Tail(T)) /\ Tail(T)[i - 1] = T[i]
<1>1. Tail(T) \in Seq(Step) /\ Len(T) \in Nat /\ Len(T) >= 1 /\ Len(Tail(T)) = Len(T) - 1
  OBVIOUS
<1>2. T[1] \in Step /\ T[1] = Head(T)
  BY <1>1
<1>3. \A i \in 1..Len(Tail(T)) : Tail(T)[i] = T[i + 1]
  BY <1>1
<1> DEFINE U == Tail(T)
           a == Len(T)
           b == Len(U)
<1>4. a \in Nat /\ a >= 1 /\ b = a - 1 /\ \A i \in 1..b : U[i] = T[i + 1]
  BY <1>1, <1>3
<1> HIDE DEF U, a, b
<1>5. 1 \in 1..a /\ (\A i \in 1..b : i + 1 \in 1..a)
      /\ \A i \in 1..a : i # 1 => i - 1 \in 1..b /\ i - 1 + 1 = i
  BY <1>4
<1>6. \A i \in 1..a : i # 1 => U[i - 1] = T[i]
  BY <1>4, <1>5
<1> QED
  BY <1>1, <1>2, <1>4, <1>5, <1>6 DEF U, a, b

\* A plan stays one.
LEMMA PlanTail ==
  ASSUME NEW T \in Seq(Step), T # <<>>, NEW m, Plan(T, m)
  PROVE  Plan(Tail(T), m)
<1> DEFINE U == Tail(T)
           a == Len(T)
           b == Len(U)
<1>1. /\ a \in Nat /\ b = a - 1 /\ \A i \in 1..b : U[i] = T[i + 1] /\ i + 1 \in 1..a
      /\ \A i \in 1..a : i # 1 => i - 1 \in 1..b /\ U[i - 1] = T[i]
  BY TailOf
<1> HIDE DEF U, a, b
<1>2. RemovedLast(U)
  <2> SUFFICES ASSUME NEW i \in 1..b, NEW j \in 1..b, i < j, Removal(U[i]) PROVE Removal(U[j])
    BY DEF RemovedLast, b
  <2>1. i + 1 \in 1..a /\ j + 1 \in 1..a /\ i + 1 < j + 1 /\ Removal(T[i + 1])
    BY <1>1
  <2>2. Removal(T[j + 1])
    BY <2>1 DEF Plan, RemovedLast, a
  <2> QED BY <1>1, <2>2
<1>3. SparesSource(U, m) /\ SparesTarget(U, m)
  <2>1. \A i \in 1..b, r \in DOMAIN m.held :
          (Writing(U[i]) => U[i].path # m.from \o r) /\ (Removal(U[i]) => U[i].path # m.to \o r)
    <3>1. \A i \in 1..a, r \in DOMAIN m.held :
            (Writing(T[i]) => T[i].path # m.from \o r) /\ (Removal(T[i]) => T[i].path # m.to \o r)
      BY DEF Plan, SparesSource, SparesTarget, a
    <3>2. ASSUME NEW i \in 1..b, NEW r \in DOMAIN m.held
          PROVE  (Writing(U[i]) => U[i].path # m.from \o r) /\ (Removal(U[i]) => U[i].path # m.to \o r)
      <4>1. i + 1 \in 1..a /\ U[i] = T[i + 1]
        BY <1>1
      <4> QED BY <3>1, <4>1
    <3> QED BY <3>2
  <2> QED BY <2>1 DEF SparesSource, SparesTarget, b
<1>4. Checked(U)
  <2> SUFFICES ASSUME NEW i \in 1..b, U[i].soft PROVE \E j \in 1..b : i < j /\ U[j].do = "check"
    BY DEF Checked, b
  <2>1. i + 1 \in 1..a /\ T[i + 1].soft
    BY <1>1
  <2>2. PICK j \in 1..a : i + 1 < j /\ T[j].do = "check"
    BY <2>1 DEF Plan, Checked, a
  <2>3. j # 1 /\ i < j - 1
    BY <1>1, <2>2
  <2> QED BY <1>1, <2>2, <2>3
<1> QED
  BY <1>2, <1>3, <1>4 DEF Plan, U

\* A call leaves a file alone that it neither writes nor removes.
LEMMA LeavesAlone ==
  ASSUME Sound(tree), NEW s \in Step, Fits(s), NEW p, NEW d, Whole(tree, p, d),
         ~Touches(s, p), Removal(s) => s.path # p
  PROVE  Whole(Effect(s), p, d)
<1>1. p \in DOMAIN tree /\ tree[p].kind = "file" /\ tree[p].data = d
  BY DEF Whole
<1>2. CASE Removal(s)
  <2>1. Effect(s) = Without(s.path) /\ s.path # p
    BY <1>2 DEF Effect, Removal
  <2> QED BY <1>1, <2>1 DEF Whole, Without
<1>3. ASSUME NEW node, Effect(s) = Put(s.path, node), s.path # p PROVE Whole(Effect(s), p, d)
  BY <1>1, <1>3 DEF Whole, Put
<1>4. CASE s.do = "mkdir"
  <2>1. ~Exists(s.path) /\ Effect(s) = Put(s.path, Dir)
    BY <1>4 DEF Effect, Fits
  <2> QED BY <1>1, <1>3, <2>1 DEF Exists
<1>5. CASE s.do = "ab" /\ ~Exists(s.path)
  <2>1. Effect(s) = Put(s.path, File(<<>>))
    BY <1>5 DEF Effect
  <2> QED BY <1>1, <1>3, <1>5, <2>1 DEF Exists
<1>6. CASE Writing(s)
  <2>1. s.path # p
    BY <1>6 DEF Touches
  <2>2. Effect(s) = Put(s.path, File(<<>>)) \/ Effect(s) = Put(s.path, File(tree[s.path].data \o s.data))
    BY <1>6 DEF Effect, Writing
  <2> QED BY <1>3, <2>1, <2>2
<1>7. CASE s.do \in {"stat", "check", "fail", "halt"} \/ (s.do = "ab" /\ Exists(s.path))
  <2>1. Effect(s) = tree
    BY <1>7 DEF Effect
  <2> QED BY <2>1
<1>8. s.do \in Deeds
  BY DEF Step
<1> QED
  BY <1>2, <1>4, <1>5, <1>6, <1>7, <1>8 DEF Deeds, Removal, Writing

\* Opening a file for a copy empties it, and writing fills it.
LEMMA Fills ==
  ASSUME NEW s \in Step, NEW p, s.path = p
  PROVE  /\ s.do = "wb" => Whole(Effect(s), p, <<>>)
         /\ s.do = "write" /\ Whole(tree, p, <<>>) => Whole(Effect(s), p, s.data)
<1>1. s.data \in Seq(Text)
  BY DEF Step
<1>2. \A node : Put(p, node)[p] = node /\ p \in DOMAIN Put(p, node)
  BY DEF Put
<1>3. \A c : File(c).kind = "file" /\ File(c).data = c
  BY DEF File
<1>4. s.do = "wb" => Effect(s) = Put(p, File(<<>>))
  BY DEF Effect
<1>5. s.do = "write" => Effect(s) = Put(p, File(tree[p].data \o s.data))
  BY DEF Effect
<1>6. <<>> \o s.data = s.data
  BY <1>1, ConcatEmptySeq
<1>7. \A c : Whole(Put(p, File(c)), p, c)
  BY <1>2, <1>3 DEF Whole
<1>8. s.do = "write" /\ Whole(tree, p, <<>>) => Effect(s) = Put(p, File(s.data))
  BY <1>5, <1>6 DEF Whole
<1> QED
  BY <1>4, <1>7, <1>8

\* A call of a move brings each file of it nearer to its target.
LEMMA CopiedNext ==
  ASSUME Sound(tree), NEW T \in Seq(Step), T # <<>>, Fits(T[1]), NEW p, NEW d,
         Removal(T[1]) => T[1].path # p, Copied(tree, T, p, d)
  PROVE  Copied(Effect(T[1]), Tail(T), p, d)
<1> DEFINE U == Tail(T)
           a == Len(T)
           b == Len(U)
           e == Effect(T[1])
<1>1. /\ a \in Nat /\ b = a - 1 /\ \A i \in 1..b : U[i] = T[i + 1] /\ i + 1 \in 1..a
      /\ \A i \in 1..a : i # 1 => i - 1 \in 1..b /\ U[i - 1] = T[i]
      /\ 1 \in 1..a /\ T[1] \in Step
  BY TailOf
<1> HIDE DEF U, a, b, e
<1>2. CASE Done(tree, T, p, d)
  <2>1. Whole(tree, p, d) /\ \A i \in 1..a : ~Touches(T[i], p)
    BY <1>2 DEF Done, a
  <2>2. Whole(e, p, d)
    BY <1>1, <2>1, LeavesAlone DEF e
  <2>3. \A i \in 1..b : ~Touches(U[i], p)
    BY <1>1, <2>1
  <2> QED BY <2>2, <2>3 DEF Copied, Done, U, b, e
<1>3. ASSUME NEW i \in 1..a, PendingAt(tree, T, p, d, i) PROVE Copied(e, U, p, d)
  <2>1. /\ T[i].do = "write" /\ T[i].path = p /\ T[i].data = d
        /\ i = 1 => Whole(tree, p, <<>>)
        /\ i # 1 => T[i - 1].do = "wb" /\ T[i - 1].path = p
        /\ \A j \in 1..a : j # i /\ j # i - 1 => ~Touches(T[j], p)
    BY <1>3 DEF PendingAt, a
  <2>2. CASE i = 1
    <3>1. Whole(e, p, d)
      BY <1>1, <2>1, <2>2, Fills DEF e
    <3>2. ASSUME NEW j \in 1..b PROVE ~Touches(U[j], p)
      <4>1. j + 1 \in 1..a /\ j + 1 # i /\ j + 1 # i - 1
        BY <1>1, <2>2
      <4> QED BY <1>1, <2>1, <4>1
    <3> QED BY <3>1, <3>2 DEF Copied, Done, b
  <2>3. CASE i # 1
    <3>1. i - 1 \in 1..b /\ U[i - 1] = T[i]
      BY <1>1, <2>3
    <3>2. i - 1 = 1 => Whole(e, p, <<>>)
      <4>1. i - 1 = 1 => T[1].do = "wb" /\ T[1].path = p
        BY <2>1, <2>3
      <4> QED BY <1>1, <4>1, Fills DEF e
    <3>3. i - 1 # 1 => U[i - 1 - 1].do = "wb" /\ U[i - 1 - 1].path = p
      <4>1. i - 1 # 1 => i - 1 \in 1..a /\ U[i - 1 - 1] = T[i - 1]
        BY <1>1, <3>1
      <4> QED BY <2>1, <2>3, <4>1
    <3>4. ASSUME NEW j \in 1..b, j # i - 1, j # i - 1 - 1 PROVE ~Touches(U[j], p)
      <4>1. j + 1 \in 1..a /\ j + 1 # i /\ j + 1 # i - 1
        BY <1>1, <3>4
      <4> QED BY <1>1, <2>1, <4>1
    <3>5. PendingAt(e, U, p, d, i - 1)
      BY <2>1, <3>1, <3>2, <3>3, <3>4 DEF PendingAt, b
    <3> QED BY <3>1, <3>5 DEF Copied, Pending, b
  <2> QED BY <2>2, <2>3
<1> QED
  BY <1>2, <1>3 DEF Copied, Pending, U, a, e

\* A move goes on, whatever its next call is, ...
LEMMA MovingCall ==
  ASSUME Sound(tree), NEW T \in Seq(Step), T # <<>>, Fits(T[1]), NEW m, Moving(tree, T, m, job.bad)
  PROVE  Moving(Effect(T[1]), Tail(T), m, job.bad)
<1> DEFINE U == Tail(T)
           a == Len(T)
           b == Len(U)
           e == Effect(T[1])
<1>1. /\ a \in Nat /\ b = a - 1 /\ \A i \in 1..b : U[i] = T[i + 1] /\ i + 1 \in 1..a
      /\ \A i \in 1..a : i # 1 => i - 1 \in 1..b /\ U[i - 1] = T[i]
      /\ 1 \in 1..a /\ T[1] \in Step
  BY TailOf
<1>2. Plan(U, m)
  BY PlanTail DEF Moving
<1> HIDE DEF U, a, b, e
<1>3. job.bad => \E i \in 1..b : U[i].do = "check"
  <2> SUFFICES ASSUME job.bad PROVE \E i \in 1..b : U[i].do = "check"
    OBVIOUS
  <2>1. PICK i \in 1..a : T[i].do = "check"
    BY DEF Moving, a
  <2>2. i # 1
    BY <2>1 DEF Fits
  <2> QED BY <1>1, <2>1, <2>2
<1>4. (\E i \in 1..b : ~Removal(U[i])) => AtSource(e, m)
  <2> SUFFICES ASSUME NEW i \in 1..b, ~Removal(U[i]) PROVE AtSource(e, m)
    OBVIOUS
  <2>1. i + 1 \in 1..a /\ ~Removal(T[i + 1]) /\ 1 < i + 1
    BY <1>1
  <2>2. AtSource(tree, m) /\ ~Removal(T[1])
    BY <1>1, <2>1 DEF Moving, Plan, RemovedLast, a
  <2>3. ASSUME NEW r \in DOMAIN m.held PROVE Whole(e, m.from \o r, m.held[r])
    <3>1. Whole(tree, m.from \o r, m.held[r]) /\ ~Touches(T[1], m.from \o r)
      BY <1>1, <2>2 DEF AtSource, Moving, Plan, SparesSource, Touches, a
    <3> QED BY <1>1, <2>2, <3>1, LeavesAlone DEF e
  <2> QED BY <2>3 DEF AtSource
<1>5. ~job.bad => \A r \in DOMAIN m.held : Copied(e, U, m.to \o r, m.held[r])
  <2> SUFFICES ASSUME ~job.bad, NEW r \in DOMAIN m.held PROVE Copied(e, U, m.to \o r, m.held[r])
    OBVIOUS
  <2>1. Copied(tree, T, m.to \o r, m.held[r])
    BY DEF Moving
  <2>2. Removal(T[1]) => T[1].path # m.to \o r
    BY <1>1 DEF Moving, Plan, SparesTarget, a
  <2> QED BY <2>1, <2>2, CopiedNext DEF U, e
<1> QED
  BY <1>2, <1>3, <1>4, <1>5 DEF Moving, U, b, e

\* ... and when a call of its copytree fails.
LEMMA MovingFails ==
  ASSUME NEW T \in Seq(Step), T # <<>>, T[1].soft, NEW m, NEW bad, Moving(tree, T, m, bad)
  PROVE  Moving(tree, Tail(T), m, TRUE)
<1> DEFINE U == Tail(T)
           a == Len(T)
           b == Len(U)
<1>1. /\ \A i \in 1..b : U[i] = T[i + 1] /\ i + 1 \in 1..a
      /\ \A i \in 1..a : i # 1 => i - 1 \in 1..b /\ U[i - 1] = T[i]
      /\ 1 \in 1..a
  BY TailOf
<1>2. Plan(U, m)
  BY PlanTail DEF Moving
<1> HIDE DEF U, a, b
<1>3. PICK i \in 1..a : 1 < i /\ T[i].do = "check"
  BY <1>1 DEF Moving, Plan, Checked, a
<1>4. i # 1
  BY <1>3
<1>5. \E j \in 1..b : U[j].do = "check"
  BY <1>1, <1>3, <1>4
<1>6. ~Removal(T[i])
  BY <1>3 DEF Removal
<1>7. AtSource(tree, m)
  BY <1>6 DEF Moving, a
<1> QED
  BY <1>2, <1>5, <1>7 DEF Moving, U, b

\* At any moment of a move each file is at its source or its target.
LEMMA MovingKeeps ==
  ASSUME NEW T \in Seq(Step), NEW m, NEW bad, Moving(tree, T, m, bad), NEW r \in DOMAIN m.held
  PROVE  Whole(tree, m.from \o r, m.held[r]) \/ Whole(tree, m.to \o r, m.held[r])
<1>1. CASE \E i \in 1..Len(T) : ~Removal(T[i])
  BY <1>1 DEF Moving, AtSource
<1>2. CASE \A i \in 1..Len(T) : Removal(T[i])
  <2>1. ~bad
    BY <1>2 DEF Moving, Removal
  <2>2. Copied(tree, T, m.to \o r, m.held[r])
    BY <2>1 DEF Moving
  <2>3. ~Pending(tree, T, m.to \o r, m.held[r])
    BY <1>2 DEF Pending, PendingAt, Removal
  <2> QED BY <2>2, <2>3 DEF Copied, Done
<1> QED
  BY <1>1, <1>2

------------------------------------------------------------------------------
(* Paths above and beneath *)

LEMMA PrefixIs ==
  ASSUME NEW p \in Seq(Name), NEW q \in Seq(Name)
  PROVE  IsPrefix(p, q) <=> Len(p) <= Len(q) /\ \A i \in 1..Len(p) : p[i] = q[i]
<1> DEFINE a == Len(p)
           b == Len(q)
           f == SubSeq(q, 1, a)
<1>1. a \in Nat /\ b \in Nat /\ SubSeq(p, 1, a) = p /\ \A i \in 1..b : q[i] \in Name
  BY SubSeqFull
<1>2. IsPrefix(p, q) <=> a <= b /\ p = f
  BY <1>1 DEF IsPrefix
<1> HIDE DEF a, b, f
<1>3. ASSUME a <= b PROVE f \in Seq(Name) /\ Len(f) = a /\ \A i \in 1..a : f[i] = q[i]
  <2>1. \A i \in 1..a : q[i] \in Name
    BY <1>1, <1>3
  <2>2. 1 \in Int /\ a \in Int /\ (1 <= a \/ a = 0)
    BY <1>1
  <2>3. /\ SubSeq(q, 1, a) \in Seq(Name)
        /\ Len(SubSeq(q, 1, a)) = IF 1 <= a THEN a - 1 + 1 ELSE 0
        /\ \A i \in 1..(a - 1 + 1) : SubSeq(q, 1, a)[i] = q[1 + i - 1]
    BY <2>1, <2>2, SubSeqProperties
  <2>4. a - 1 + 1 = a /\ \A i \in 1..a : 1 + i - 1 = i
    BY <1>1
  <2> QED BY <2>2, <2>3, <2>4 DEF f
<1>4. ASSUME a <= b, \A i \in 1..a : p[i] = q[i] PROVE p = f
  <2>1. Len(p) = Len(f) /\ f \in Seq(Name) /\ \A i \in 1..Len(p) : p[i] = f[i]
    BY <1>3, <1>4 DEF a
  <2> QED BY <2>1, SeqEqual
<1> QED
  BY <1>2, <1>3, <1>4 DEF a, b

\* What something is beneath of is a directory.
LEMMA AboveIsDir ==
  ASSUME Sound(tree), NEW p \in Seq(Name), NEW q \in DOMAIN tree, IsPrefix(p, q), p # q
  PROVE  IsDir(p)
<1> DEFINE Bad(x) == x \in DOMAIN tree /\ IsPrefix(p, x) /\ p # x
           T == {Len(x) : x \in {y \in DOMAIN tree : Bad(y)}}
<1>1. \A x \in DOMAIN tree : x \in Seq(Name) /\ Len(x) \in Nat
  BY DEF Sound
<1>2. SUFFICES ASSUME ~IsDir(p) PROVE FALSE
  OBVIOUS
<1>3. T \in SUBSET Nat /\ T # {}
  BY <1>1
<1>4. PICK c \in T : \A j \in T : c <= j
  <2> HIDE DEF T
  <2> QED BY <1>3, Least
<1>5. PICK x \in DOMAIN tree : Bad(x) /\ c = Len(x)
  BY <1>4
<1> DEFINE a == Len(p)
           b == Len(x)
           y == Front(x)
<1>6. a \in Nat /\ b \in Nat /\ a <= b /\ \A i \in 1..a : p[i] = x[i]
  BY <1>1, <1>5, PrefixIs
<1>7. a # b
  BY <1>1, <1>5, <1>6, SeqEqual
<1>8. x # <<>>
  BY <1>1, <1>6, <1>7
<1>9. y \in DOMAIN tree /\ tree[y].kind = "dir" /\ y \in Seq(Name) /\ Len(y) = b - 1
  BY <1>1, <1>8, FrontOf DEF Sound
<1>10. IsPrefix(y, x)
  BY <1>1, <1>8, FrontOf
<1>11. \A i \in 1..Len(y) : y[i] = x[i]
  BY <1>1, <1>9, <1>10, PrefixIs
<1>12. IsPrefix(p, y)
  <2>1. a <= Len(y) /\ \A i \in 1..a : i \in 1..Len(y)
    <3> HIDE DEF T, a, b, y
    <3> QED BY <1>6, <1>7, <1>9
  <2>2. \A i \in 1..a : p[i] = y[i]
    BY <1>6, <1>11, <2>1
  <2> QED BY <1>9, <2>1, <2>2, PrefixIs
<1>13. p # y
  BY <1>2, <1>9 DEF IsDir, Exists
<1>14. Len(y) \in T
  BY <1>9, <1>12, <1>13
<1>15. b <= b - 1
  BY <1>4, <1>5, <1>9, <1>14
<1> QED
  <2> HIDE DEF T, b
  <2> QED BY <1>6, <1>15

\* A place beneath a path.
LEMMA PlaceUnder ==
  ASSUME NEW p \in Seq(Name), NEW r \in Seq(Name)
  PROVE  p \o r \in Seq(Name) /\ IsPrefix(p, p \o r) /\ (p \o r = p => r = <<>>)
<1>1. /\ p \o r \in Seq(Name) /\ Len(p \o r) = Len(p) + Len(r)
      /\ \A i \in 1..(Len(p) + Len(r)) : (p \o r)[i] = IF i <= Len(p) THEN p[i] ELSE r[i - Len(p)]
  BY ConcatProperties
<1> DEFINE a == Len(p)
           b == Len(r)
           s == p \o r
<1>2. a \in Nat /\ b \in Nat
  OBVIOUS
<1>3. s \in Seq(Name) /\ Len(s) = a + b
      /\ \A i \in 1..(a + b) : s[i] = IF i <= a THEN p[i] ELSE r[i - a]
  BY <1>1
<1> HIDE DEF a, b, s
<1>4. a <= Len(s) /\ \A i \in 1..a : s[i] = p[i]
  BY <1>2, <1>3
<1>5. IsPrefix(p, s)
  BY <1>3, <1>4, PrefixIs DEF a
<1>6. p \o r = p => r = <<>>
  BY ConcatEqualIffEmpty
<1> QED
  BY <1>3, <1>5, <1>6 DEF s

\* Where neither is in the other, nothing is in both.
LEMMA Apart ==
  ASSUME Sound(tree), NEW p \in Seq(Name), NEW to \in Seq(Name), ~IsPrefix(p, to), ~IsDir(to),
         NEW x \in DOMAIN tree, IsPrefix(p, x), NEW r \in Seq(Name)
  PROVE  x # to \o r
<1> SUFFICES ASSUME x = to \o r PROVE FALSE
  OBVIOUS
<1>1. x \in Seq(Name) /\ IsPrefix(to, x)
  BY PlaceUnder DEF Sound
<1> DEFINE a == Len(p)
           b == Len(to)
<1>2. a \in Nat /\ b \in Nat
  OBVIOUS
<1>3. (\A i \in 1..a : p[i] = x[i]) /\ (\A i \in 1..b : to[i] = x[i])
      /\ a <= Len(x) /\ b <= Len(x)
  BY <1>1, PrefixIs
<1>4. CASE a <= b
  <2>1. \A i \in 1..a : i \in 1..b
    <3> HIDE DEF a, b
    <3> QED BY <1>2, <1>4
  <2>2. \A i \in 1..a : p[i] = to[i]
    BY <1>3, <2>1
  <2> QED BY <1>4, <2>2, PrefixIs
<1>5. CASE ~(a <= b)
  <2>1. to # x
    <3> HIDE DEF a
    <3> QED BY <1>2, <1>3, <1>5
  <2> QED BY <1>1, <2>1, AboveIsDir
<1> QED
  BY <1>4, <1>5

------------------------------------------------------------------------------
(* Where the items of a list of lists are *)

\* The items of the lists s[1], ..., s[m] are those of t, from where off says on.
Begins(s, i) == IF i = 1 THEN 0 ELSE Len(FlatOf(s)[i - 1])
Spread(s, m, t) ==
  /\ \A i \in 1..m, j \in Nat \ {0} : j <= Len(s[i]) =>
       Begins(s, i) + j \in 1..Len(t) /\ t[Begins(s, i) + j] = s[i][j]
  /\ \A x \in 1..Len(t) : \E i \in 1..m, j \in Nat \ {0} :
       j <= Len(s[i]) /\ x = Begins(s, i) + j

LEMMA SpreadStep ==
  ASSUME NEW T, NEW s, NEW m \in Nat, NEW t \in Seq(T), s[m + 1] \in Seq(T), m + 1 # 1,
         t = FlatOf(s)[m], Spread(s, m, t)
  PROVE  Spread(s, m + 1, t \o s[m + 1])
<1> DEFINE a == Len(t)
           u == s[m + 1]
           c == Len(u)
           v == t \o u
<1>1. /\ v \in Seq(T) /\ Len(v) = a + c /\ a \in Nat /\ c \in Nat
      /\ \A x \in 1..(a + c) : v[x] = IF x <= a THEN t[x] ELSE u[x - a]
  <2>1. a \in Nat /\ c \in Nat
    OBVIOUS
  <2>2. /\ t \o s[m + 1] \in Seq(T) /\ Len(t \o s[m + 1]) = Len(t) + Len(s[m + 1])
        /\ \A x \in 1..(Len(t) + Len(s[m + 1])) :
             (t \o s[m + 1])[x] = IF x <= Len(t) THEN t[x] ELSE s[m + 1][x - Len(t)]
    BY ConcatProperties
  <2> QED BY <2>1, <2>2
<1>2. Begins(s, m + 1) = a
  BY DEF Begins
<1> HIDE DEF a, u, c, v
<1>3. \A i \in 1..(m + 1) : i \in 1..m \/ i = m + 1
  OBVIOUS
<1>4. ASSUME NEW i \in 1..(m + 1), NEW j \in Nat \ {0}, j <= Len(s[i])
      PROVE  Begins(s, i) + j \in 1..(a + c) /\ v[Begins(s, i) + j] = s[i][j]
  <2>1. CASE i \in 1..m
    <3>1. Begins(s, i) + j \in 1..a /\ t[Begins(s, i) + j] = s[i][j]
      BY <1>4, <2>1 DEF Spread, a
    <3>2. Begins(s, i) + j \in 1..(a + c) /\ Begins(s, i) + j <= a
      BY <1>1, <3>1
    <3> QED BY <1>1, <3>1, <3>2
  <2>2. CASE i = m + 1
    <3>1. s[i] = u /\ Begins(s, i) = a /\ j <= c
      BY <1>2, <1>4, <2>2 DEF u, c
    <3>2. a + j \in 1..(a + c) /\ ~(a + j <= a) /\ a + j - a = j
      BY <1>1, <3>1
    <3> QED BY <1>1, <3>1, <3>2
  <2> QED BY <1>3, <2>1, <2>2
<1>5. ASSUME NEW x \in 1..(a + c)
      PROVE  \E i \in 1..(m + 1), j \in Nat \ {0} : j <= Len(s[i]) /\ x = Begins(s, i) + j
  <2>1. CASE x <= a
    <3>1. x \in 1..a
      BY <1>1, <2>1
    <3>2. PICK i \in 1..m, j \in Nat \ {0} : j <= Len(s[i]) /\ x = Begins(s, i) + j
      BY <3>1 DEF Spread, a
    <3>3. i \in 1..(m + 1)
      OBVIOUS
    <3> QED BY <3>2, <3>3
  <2>2. CASE ~(x <= a)
    <3>1. x - a \in Nat \ {0} /\ x - a <= c /\ x = a + (x - a)
      BY <1>1, <2>2
    <3>2. m + 1 \in 1..(m + 1) /\ c = Len(s[m + 1])
      BY DEF c, u
    <3> QED BY <1>2, <3>1, <3>2
  <2> QED BY <2>1, <2>2
<1>6. \A i \in 1..(m + 1), j \in Nat \ {0} : j <= Len(s[i]) =>
        Begins(s, i) + j \in 1..Len(v) /\ v[Begins(s, i) + j] = s[i][j]
  BY <1>1, <1>4
<1>7. \A x \in 1..Len(v) : \E i \in 1..(m + 1), j \in Nat \ {0} :
        j <= Len(s[i]) /\ x = Begins(s, i) + j
  BY <1>1, <1>5
<1> QED
  BY <1>6, <1>7 DEF Spread, v, u

LEMMA FlatSpread ==
  ASSUME NEW T, NEW s \in Seq(Seq(T))
  PROVE  Spread(s, Len(s), FlattenSeq(s))
<1>1. CASE s = <<>>
  <2>1. FlattenSeq(s) = <<>> /\ Len(s) = 0
    BY <1>1 DEF FlattenSeq
  <2>2. 1..0 = {} /\ Len(<<>>) = 0
    OBVIOUS
  <2> QED BY <2>1, <2>2 DEF Spread
<1>2. CASE s # <<>>
  <2> DEFINE len == Len(s)
             f == FlatOf(s)
             it == [i \in 1..len |-> Spread(s, i, f[i])]
  <2>1. /\ len \in Nat /\ len >= 1 /\ FlattenSeq(s) = f[len] /\ f[1] = s[1]
        /\ \A i \in 1..len : i # 1 => f[i] = f[i - 1] \o s[i]
        /\ \A i \in 1..len : f[i] \in Seq(T)
    BY <1>2, FlatSteps
  <2>2. \A i \in 1..len : s[i] \in Seq(T)
    OBVIOUS
  <2> HIDE DEF len
  <2>3. Spread(s, 1, f[1])
    <3>1. Begins(s, 1) = 0 /\ \A j \in Nat : 0 + j = j
      BY DEF Begins
    <3>2. 1 \in 1..len
      BY <2>1
    <3>3. Len(s[1]) \in Nat
      BY <2>2, <3>2
    <3>4. \A i \in 1..1 : i = 1
      OBVIOUS
    <3> HIDE DEF f
    <3>5. \A j \in Nat \ {0} : j <= Len(s[1]) => j \in 1..Len(s[1])
      BY <3>3
    <3>6. \A j \in 1..Len(s[1]) : j \in Nat \ {0} /\ j <= Len(s[1])
      BY <3>3
    <3> QED BY <2>1, <3>1, <3>4, <3>5, <3>6 DEF Spread
  <2>4. ASSUME NEW i \in 1..len, i # 1, Spread(s, i - 1, f[i - 1]) PROVE Spread(s, i, f[i])
    <3>1. i - 1 \in 1..len /\ i - 1 \in Nat /\ i - 1 + 1 = i
      BY <2>1, <2>4
    <3>2. f[i - 1] \in Seq(T) /\ s[i - 1 + 1] \in Seq(T) /\ f[i] = f[i - 1] \o s[i - 1 + 1]
      BY <2>1, <2>2, <2>4, <3>1
    <3>3. Spread(s, i - 1 + 1, f[i - 1] \o s[i - 1 + 1])
      BY <2>4, <3>1, <3>2, SpreadStep
    <3> QED BY <3>1, <3>2, <3>3
  <2>5. \A i \in 1..len : it[i] = Spread(s, i, f[i])
    OBVIOUS
  <2> HIDE DEF f, it
  <2>6. 1 \in 1..len /\ len \in 1..len
    BY <2>1
  <2> DEFINE Truth == {b \in BOOLEAN : b}
  <2>7. \A i \in 1..len : it[i] \in Truth <=> Spread(s, i, f[i])
    <3>1. \A i \in 1..len : Spread(s, i, f[i]) \in BOOLEAN
      BY DEF Spread
    <3> QED BY <2>5, <3>1, Zenon
  <2> HIDE DEF Truth
  <2>8. \A i \in 1..len : i # 1 /\ it[i - 1] \in Truth => it[i] \in Truth
    <3>1. \A i \in 1..len : i # 1 => i - 1 \in 1..len
      BY <2>1
    <3> QED BY <2>4, <2>7, <3>1
  <2>9. \A i \in 1..len : it[i] \in Truth
    BY <2>1, <2>3, <2>6, <2>7, <2>8, StepsStay
  <2> QED BY <2>1, <2>6, <2>7, <2>9 DEF len
<1> QED
  BY <1>1, <1>2

------------------------------------------------------------------------------
(* The calls of a move *)

\* What is held are the files beneath the source.
LEMMA HeldIs ==
  ASSUME Sound(tree), NEW p \in Seq(Name), NEW r \in DOMAIN Held(p)
  PROVE  /\ r \in Seq(Name) /\ p \o r \in DOMAIN tree /\ tree[p \o r].kind = "file"
         /\ Held(p)[r] = tree[p \o r].data /\ IsPrefix(p, p \o r)
         /\ p \o r = p \/ p \o r \in Beneath(p)
<1>1. PICK q \in Beneath(p) \cup {p} : IsFile(q) /\ r = After(p, q, <<>>)
  BY DEF Held
<1>2. q \in DOMAIN tree /\ tree[q].kind = "file" /\ q \in Seq(Name) /\ (p = q \/ IsPrefix(p, q))
  BY <1>1, DataTyped DEF Beneath, IsFile, Exists
<1>3. r \in Seq(Name) /\ p \o r = q
  BY <1>1, <1>2, PlaceBeneath
<1>4. IsPrefix(p, p \o r)
  BY <1>3, PlaceUnder
<1>5. Held(p)[r] = tree[p \o r].data
  BY DEF Held
<1> QED
  BY <1>1, <1>2, <1>3, <1>4, <1>5

LEMMA HeldAtSource ==
  ASSUME Sound(tree), NEW m \in Move, m.held = Held(m.from)
  PROVE  AtSource(tree, m)
<1>1. m.from \in Seq(Name)
  BY DEF Move
<1> QED
  BY <1>1, HeldIs DEF AtSource, Whole

\* The calls of copy2.
LEMMA Copy2Is ==
  ASSUME Sound(tree), NEW q \in DOMAIN tree, ~IsDir(q), NEW x \in Seq(Name), ~IsDir(x), x # q
  PROVE  /\ Len(Copy2(q, x)) = 3 /\ Copy2(q, x) \in Seq(Step)
         /\ Copy2(q, x)[1] = Do("wb", x) /\ Copy2(q, x)[3] = Do("stat", x)
         /\ Copy2(q, x)[2].do = "write" /\ Copy2(q, x)[2].path = x
         /\ Copy2(q, x)[2].data = tree[q].data /\ ~Copy2(q, x)[2].soft
<1>1. q \in Seq(Name) /\ IsFile(q)
  BY DataTyped DEF IsFile, IsDir, Exists
<1>2. Within(q, x) = x
  BY DEF Within
<1> DEFINE w == [Do("write", x) EXCEPT !.data = tree[q].data]
           f == Do("wb", x)
           g == Do("stat", x)
<1>3. Copy2(q, x) = <<f, w, g>>
  BY <1>1, <1>2 DEF Copy2
<1>4. Copy2(q, x) \in Seq(Step)
  BY <1>1, Copy2Typed
<1>5. w.do = "write" /\ w.path = x /\ w.data = tree[q].data /\ w.soft = FALSE
  BY DEF Do
<1> HIDE DEF w, f, g
<1>6. Len(Copy2(q, x)) = 3 /\ Copy2(q, x)[1] = f /\ Copy2(q, x)[2] = w /\ Copy2(q, x)[3] = g
  BY <1>3
<1>7. ~w.soft
  BY <1>5
<1> QED
  BY <1>4, <1>5, <1>6, <1>7 DEF f, g

\* An entry of a tree is copied to its place beneath the target, which is free.
EntryCalls(p, q, dst) ==
  IF IsDir(q) THEN <<Do("mkdir", After(p, q, dst))>> ELSE Copy2(q, After(p, q, dst))

LEMMA EntryPlace ==
  ASSUME Sound(tree), NEW p \in Seq(Name), NEW to \in Seq(Name), ~IsPrefix(p, to), ~IsDir(to),
         NEW q \in Beneath(p)
  PROVE  LET r == After(p, q, <<>>) IN
         /\ q \in DOMAIN tree /\ q \in Seq(Name) /\ IsPrefix(p, q) /\ r \in Seq(Name)
         /\ q = p \o r /\ After(p, q, to) = to \o r /\ to \o r \in Seq(Name)
         /\ ~IsDir(to \o r) /\ to \o r # q
<1> DEFINE r == After(p, q, <<>>)
<1>1. q \in DOMAIN tree /\ q \in Seq(Name) /\ IsPrefix(p, q)
  BY DEF Beneath, Sound
<1>2. r \in Seq(Name) /\ p \o r = q
  BY <1>1, PlaceBeneath
<1>3. After(p, q, to) = to \o r
  <2> DEFINE u == SubSeq(q, Len(p) + 1, Len(q))
  <2>1. Len(p) \in Nat /\ Len(q) \in Nat
    BY <1>1
  <2>2. \A i \in (Len(p) + 1)..Len(q) : q[i] \in Name
    BY <1>1, <2>1
  <2>3. u \in Seq(Name)
    BY <2>1, <2>2, SubSeqProperties
  <2>4. r = u
    BY <2>3, ConcatEmptySeq DEF After
  <2> QED BY <2>4 DEF After
<1> HIDE DEF r
<1>4. to \o r \in Seq(Name) /\ IsPrefix(to, to \o r)
  BY <1>2, PlaceUnder
<1>5. ~IsDir(to \o r)
  <2>1. IsDir(to \o r) => to \o r \in DOMAIN tree /\ to # to \o r
    BY DEF IsDir, Exists
  <2> QED BY <1>4, <2>1, AboveIsDir
<1>6. to \o r # q
  BY <1>1, <1>2, Apart
<1> QED
  BY <1>1, <1>2, <1>3, <1>4, <1>5, <1>6 DEF r

LEMMA EntryIs ==
  ASSUME Sound(tree), NEW p \in Seq(Name), NEW to \in Seq(Name), ~IsPrefix(p, to), ~IsDir(to),
         NEW q \in Beneath(p)
  PROVE  LET s == EntryCalls(p, q, to)
             x == After(p, q, to)
         IN
         /\ s \in Seq(Step)
         /\ \A i \in 1..Len(s) : s[i].do \in {"mkdir", "wb", "write", "stat"} /\ s[i].path = x
         /\ IsDir(q) => \A i \in 1..Len(s) : ~Writing(s[i])
         /\ ~IsDir(q) => /\ Len(s) = 3 /\ s[1].do = "wb" /\ s[3].do = "stat"
                         /\ s[2].do = "write" /\ s[2].data = tree[q].data
<1> DEFINE s == EntryCalls(p, q, to)
           x == After(p, q, to)
<1>1. q \in DOMAIN tree /\ x \in Seq(Name) /\ ~IsDir(x) /\ x # q
  <2> DEFINE y == to \o After(p, q, <<>>)
  <2>1. q \in DOMAIN tree /\ After(p, q, to) = y /\ y \in Seq(Name) /\ ~IsDir(y) /\ y # q
    BY EntryPlace
  <2> HIDE DEF y
  <2> QED BY <2>1
<1> HIDE DEF x
<1>2. CASE IsDir(q)
  <2>1. s = <<Do("mkdir", x)>>
    BY <1>2 DEF EntryCalls, x
  <2>2. Do("mkdir", x) \in Step
    BY <1>1, DoTyped DEF Deeds
  <2>3. Do("mkdir", x).do = "mkdir" /\ Do("mkdir", x).path = x
    BY DEF Do
  <2>4. s \in Seq(Step) /\ Len(s) = 1 /\ s[1] = Do("mkdir", x)
    BY <2>1, <2>2
  <2> HIDE DEF s
  <2>5. \A i \in 1..Len(s) : s[i] = Do("mkdir", x)
    BY <2>4
  <2> QED BY <1>2, <2>3, <2>4, <2>5 DEF Writing, s, x
<1>3. CASE ~IsDir(q)
  <2>1. s = Copy2(q, x)
    BY <1>3 DEF EntryCalls, x
  <2>2. /\ Len(s) = 3 /\ s \in Seq(Step) /\ s[1] = Do("wb", x) /\ s[3] = Do("stat", x)
        /\ s[2].do = "write" /\ s[2].path = x /\ s[2].data = tree[q].data
    BY <1>1, <1>3, <2>1, Copy2Is
  <2> HIDE DEF s
  <2>3. \A i \in 1..Len(s) : i \in {1, 2, 3}
    BY <2>2
  <2>4. s[1].do = "wb" /\ s[1].path = x /\ s[3].do = "stat" /\ s[3].path = x
    BY <2>2 DEF Do
  <2> QED BY <1>3, <2>2, <2>3, <2>4 DEF s, x
<1> QED
  BY <1>2, <1>3

\* A path has one place beneath another.
LEMMA SamePlace ==
  ASSUME NEW p \in Seq(Name), NEW r \in Seq(Name), NEW q \in Seq(Name), p \o r = p \o q
  PROVE  r = q
  BY ConcatSimplifications

\* What copytree does between the directories it makes and its check.
EntryLists(p, to) ==
  [i \in DOMAIN Down(Beneath(p)) |-> EntryCalls(p, Down(Beneath(p))[i], to)]
CopyEntries(p, to) == Soft(FlattenSeq(EntryLists(p, to)))

LEMMA SoftIs ==
  ASSUME NEW s \in Seq(Step)
  PROVE  /\ Soft(s) \in Seq(Step) /\ Len(Soft(s)) = Len(s)
         /\ \A i \in 1..Len(s) : /\ Soft(s)[i].do = s[i].do /\ Soft(s)[i].path = s[i].path
                                 /\ Soft(s)[i].data = s[i].data /\ Soft(s)[i].soft
<1>1. Len(s) \in Nat /\ DOMAIN s = 1..Len(s) /\ \A i \in 1..Len(s) : s[i] \in Step
  OBVIOUS
<1>2. Soft(s) = [i \in 1..Len(s) |-> [s[i] EXCEPT !.soft = TRUE]]
  BY <1>1 DEF Soft
<1>3. ASSUME NEW x \in Step
      PROVE  /\ [x EXCEPT !.soft = TRUE].do = x.do /\ [x EXCEPT !.soft = TRUE].path = x.path
             /\ [x EXCEPT !.soft = TRUE].data = x.data /\ [x EXCEPT !.soft = TRUE].soft
  BY DEF Step
<1>4. Soft(s) \in Seq(Step)
  BY SoftTyped
<1>5. Len(Soft(s)) = Len(s)
  BY <1>1, <1>2
<1>6. ASSUME NEW i \in 1..Len(s)
      PROVE  /\ Soft(s)[i].do = s[i].do /\ Soft(s)[i].path = s[i].path
             /\ Soft(s)[i].data = s[i].data /\ Soft(s)[i].soft
  <2>1. s[i] \in Step /\ Soft(s)[i] = [s[i] EXCEPT !.soft = TRUE]
    BY <1>1, <1>2
  <2> QED BY <1>3, <2>1
<1> QED
  BY <1>4, <1>5, <1>6

\* The lists of calls, one to an entry.
LEMMA EntryListsAre ==
  ASSUME Sound(tree), NEW p \in Seq(Name), NEW to \in Seq(Name), ~IsPrefix(p, to), ~IsDir(to)
  PROVE  /\ Lists(Down(Beneath(p)), Beneath(p)) /\ Len(Down(Beneath(p))) \in Nat
         /\ EntryLists(p, to) \in Seq(Seq(Step)) /\ Len(EntryLists(p, to)) = Len(Down(Beneath(p)))
         /\ \A i \in 1..Len(Down(Beneath(p))) :
              /\ Down(Beneath(p))[i] \in Beneath(p)
              /\ EntryLists(p, to)[i] = EntryCalls(p, Down(Beneath(p))[i], to)
<1> DEFINE S == Beneath(p)
           e == Down(S)
           len == Len(e)
<1>1. S \in SUBSET (DOMAIN tree)
  BY DEF Beneath
<1>2. IsFiniteSet(S) /\ S \in SUBSET Seq(Name)
  BY <1>1, FS_Subset DEF Sound
<1>3. Lists(e, S)
  BY <1>2, DownLists
<1> HIDE DEF S, e
<1>4. len \in Nat /\ DOMAIN e = 1..len /\ \A i \in 1..len : e[i] \in S
  BY <1>3 DEF Lists
<1> HIDE DEF len
<1>5. EntryLists(p, to) = [i \in 1..len |-> EntryCalls(p, e[i], to)]
  BY <1>4 DEF EntryLists, e, S
<1>6. \A i \in 1..len : EntryCalls(p, e[i], to) \in Seq(Step)
  BY <1>4, EntryIs DEF S
<1>7. EntryLists(p, to) \in [1..len -> Seq(Step)]
  BY <1>5, <1>6
<1>8. EntryLists(p, to) \in Seq(Seq(Step)) /\ Len(EntryLists(p, to)) = len
  <2> DEFINE f == EntryLists(p, to)
             B == Seq(Step)
  <2>1. f \in [1..len -> B]
    BY <1>7
  <2> HIDE DEF f, B
  <2>2. f \in Seq(B)
    BY <1>4, <2>1, ListOf
  <2>3. Len(f) = len
    BY <1>4, <2>1
  <2> QED BY <2>2, <2>3 DEF f, B
<1>9. \A i \in 1..len : EntryLists(p, to)[i] = EntryCalls(p, e[i], to)
  BY <1>5
<1> QED
  BY <1>3, <1>4, <1>8, <1>9 DEF e, S, len

\* They write nothing but files beneath the target.
LEMMA EntriesAre ==
  ASSUME Sound(tree), NEW p \in Seq(Name), NEW to \in Seq(Name), ~IsPrefix(p, to), ~IsDir(to)
  PROVE  LET c == CopyEntries(p, to)
             e == Down(Beneath(p))
         IN
         /\ c \in Seq(Step) /\ Len(c) \in Nat
         /\ \A x \in 1..Len(c) :
              /\ c[x].soft /\ c[x].do \in {"mkdir", "wb", "write", "stat"}
              /\ \E i \in 1..Len(e), j \in Nat \ {0} :
                   /\ j <= Len(EntryCalls(p, e[i], to)) /\ x = Begins(EntryLists(p, to), i) + j
                   /\ c[x].do = EntryCalls(p, e[i], to)[j].do
                   /\ c[x].path = After(p, e[i], to)
         /\ \A i \in 1..Len(e), j \in Nat \ {0} : j <= Len(EntryCalls(p, e[i], to)) =>
              LET x == Begins(EntryLists(p, to), i) + j IN
              /\ x \in 1..Len(c)
              /\ c[x].do = EntryCalls(p, e[i], to)[j].do
              /\ c[x].path = After(p, e[i], to)
              /\ c[x].data = EntryCalls(p, e[i], to)[j].data
<1> DEFINE S == Beneath(p)
           e == Down(S)
           len == Len(e)
           E == EntryLists(p, to)
           f == FlattenSeq(E)
           c == Soft(f)
           At(i) == Begins(E, i)
           Of(i) == EntryCalls(p, e[i], to)
<1>1. /\ len \in Nat /\ E \in Seq(Seq(Step)) /\ Len(E) = len
      /\ \A i \in 1..len : e[i] \in S /\ E[i] = Of(i)
  BY EntryListsAre
<1>2. f \in Seq(Step) /\ Spread(E, len, f)
  BY <1>1, FlatTyped, FlatSpread
<1>3. /\ c \in Seq(Step) /\ Len(c) = Len(f)
      /\ \A i \in 1..Len(f) : /\ c[i].do = f[i].do /\ c[i].path = f[i].path
                              /\ c[i].data = f[i].data /\ c[i].soft
  BY <1>2, SoftIs
<1>4. ASSUME NEW i \in 1..len
      PROVE  /\ Of(i) \in Seq(Step)
             /\ \A j \in 1..Len(Of(i)) : /\ Of(i)[j].do \in {"mkdir", "wb", "write", "stat"}
                                         /\ Of(i)[j].path = After(p, e[i], to)
  BY <1>1, EntryIs
<1> HIDE DEF e, E, f, c, Of, At, S, len
<1>5. ASSUME NEW i \in 1..len, NEW j \in Nat \ {0}, j <= Len(Of(i))
      PROVE  /\ At(i) + j \in 1..Len(f) /\ f[At(i) + j] = Of(i)[j]
             /\ Of(i)[j].do \in {"mkdir", "wb", "write", "stat"}
             /\ Of(i)[j].path = After(p, e[i], to)
  <2>1. At(i) + j \in 1..Len(f) /\ f[At(i) + j] = Of(i)[j]
    BY <1>1, <1>2, <1>5 DEF Spread, At
  <2>2. j \in 1..Len(Of(i))
    <3>1. Len(Of(i)) \in Nat
      BY <1>4
    <3> QED BY <1>5, <3>1
  <2> QED BY <1>4, <2>1, <2>2
<1>6. ASSUME NEW x \in 1..Len(c)
      PROVE  /\ c[x].soft /\ c[x].do \in {"mkdir", "wb", "write", "stat"}
             /\ \E i \in 1..len, j \in Nat \ {0} :
                  /\ j <= Len(Of(i)) /\ x = At(i) + j
                  /\ c[x].do = Of(i)[j].do /\ c[x].path = After(p, e[i], to)
  <2>1. x \in 1..Len(f)
    BY <1>3
  <2>2. PICK i \in 1..len, j \in Nat \ {0} : j <= Len(Of(i)) /\ x = At(i) + j
    BY <1>1, <1>2, <2>1 DEF Spread, At
  <2>3. /\ f[x] = Of(i)[j] /\ Of(i)[j].do \in {"mkdir", "wb", "write", "stat"}
        /\ Of(i)[j].path = After(p, e[i], to)
    BY <1>5, <2>2
  <2> QED BY <1>3, <2>1, <2>2, <2>3
<1>7. ASSUME NEW i \in 1..len, NEW j \in Nat \ {0}, j <= Len(Of(i))
      PROVE  /\ At(i) + j \in 1..Len(c)
             /\ c[At(i) + j].do = Of(i)[j].do
             /\ c[At(i) + j].path = After(p, e[i], to)
             /\ c[At(i) + j].data = Of(i)[j].data
  BY <1>3, <1>5, <1>7
<1>8. c = CopyEntries(p, to) /\ Len(c) \in Nat
  BY <1>3 DEF CopyEntries, c, f, E
<1> QED
  BY <1>3, <1>6, <1>7, <1>8 DEF e, E, Of, At, S, len

\* A call that opens or writes a file of the copy is of a file of the source, and each
\* file is opened and written once.
LEMMA EntriesWrite ==
  ASSUME Sound(tree), NEW p \in Seq(Name), NEW to \in Seq(Name), ~IsPrefix(p, to), ~IsDir(to)
  PROVE  LET c == CopyEntries(p, to) IN
         /\ \A x \in 1..Len(c) : Writing(c[x]) => \E r \in Seq(Name) : c[x].path = to \o r
         /\ \A r \in Seq(Name) : p \o r \in Beneath(p) /\ IsFile(p \o r) =>
              \E x \in 1..Len(c) :
                /\ x - 1 \in 1..Len(c) /\ c[x - 1].do = "wb" /\ c[x - 1].path = to \o r
                /\ c[x].do = "write" /\ c[x].path = to \o r /\ c[x].data = tree[p \o r].data
                /\ \A y \in 1..Len(c) : Touches(c[y], to \o r) => y \in {x - 1, x}
<1> DEFINE c == CopyEntries(p, to)
           S == Beneath(p)
           e == Down(S)
           len == Len(e)
           At(i) == Begins(EntryLists(p, to), i)
           Of(i) == EntryCalls(p, e[i], to)
<1>1. /\ c \in Seq(Step) /\ Len(c) \in Nat
      /\ \A x \in 1..Len(c) :
           \E i \in 1..len, j \in Nat \ {0} :
             /\ j <= Len(Of(i)) /\ x = At(i) + j
             /\ c[x].do = Of(i)[j].do /\ c[x].path = After(p, e[i], to)
      /\ \A i \in 1..len, j \in Nat \ {0} : j <= Len(Of(i)) =>
           /\ At(i) + j \in 1..Len(c) /\ c[At(i) + j].do = Of(i)[j].do
           /\ c[At(i) + j].path = After(p, e[i], to) /\ c[At(i) + j].data = Of(i)[j].data
  BY EntriesAre
<1>2. Lists(e, S) /\ len \in Nat /\ \A i \in 1..len : e[i] \in S
  BY EntryListsAre
<1>3. ASSUME NEW q \in S
      PROVE  /\ After(p, q, <<>>) \in Seq(Name) /\ q = p \o After(p, q, <<>>)
             /\ After(p, q, to) = to \o After(p, q, <<>>)
  BY EntryPlace
<1>4. ASSUME NEW i \in 1..len
      PROVE  /\ IsDir(e[i]) => \A j \in 1..Len(Of(i)) : ~Writing(Of(i)[j])
             /\ ~IsDir(e[i]) => /\ Len(Of(i)) = 3 /\ Of(i)[1].do = "wb" /\ Of(i)[3].do = "stat"
                                /\ Of(i)[2].do = "write" /\ Of(i)[2].data = tree[e[i]].data
             /\ Len(Of(i)) \in Nat
  BY <1>2, EntryIs
<1> HIDE DEF c, S, e, len, At, Of
<1>5. ASSUME NEW x \in 1..Len(c) PROVE \E r \in Seq(Name) : c[x].path = to \o r
  <2>1. PICK i \in 1..len : c[x].path = After(p, e[i], to)
    BY <1>1
  <2>2. e[i] \in S
    BY <1>2
  <2> QED BY <1>3, <2>1, <2>2
<1>6. ASSUME NEW r \in Seq(Name), p \o r \in S, IsFile(p \o r)
      PROVE  \E x \in 1..Len(c) :
                /\ x - 1 \in 1..Len(c) /\ c[x - 1].do = "wb" /\ c[x - 1].path = to \o r
                /\ c[x].do = "write" /\ c[x].path = to \o r /\ c[x].data = tree[p \o r].data
                /\ \A y \in 1..Len(c) : Touches(c[y], to \o r) => y \in {x - 1, x}
  <2>1. PICK i \in 1..len : e[i] = p \o r
    BY <1>2, <1>6 DEF Lists, len
  <2>2. ~IsDir(e[i])
    BY <1>6, <2>1 DEF IsFile, IsDir
  <2>3. /\ Len(Of(i)) = 3 /\ Of(i)[1].do = "wb" /\ Of(i)[3].do = "stat"
        /\ Of(i)[2].do = "write" /\ Of(i)[2].data = tree[e[i]].data
    BY <1>4, <2>2
  <2>4. After(p, e[i], to) = to \o r
    <3>1. p \o r = p \o After(p, p \o r, <<>>) /\ After(p, p \o r, <<>>) \in Seq(Name)
          /\ After(p, p \o r, to) = to \o After(p, p \o r, <<>>)
      BY <1>3, <1>6
    <3>2. r = After(p, p \o r, <<>>)
      BY <1>6, <3>1, SamePlace
    <3> QED BY <2>1, <3>1, <3>2
  <2> DEFINE x == At(i) + 2
  <2>5. /\ x \in 1..Len(c) /\ c[x].do = "write" /\ c[x].path = to \o r /\ c[x].data = tree[p \o r].data
    <3>1. 2 \in Nat \ {0} /\ 2 <= 3
      OBVIOUS
    <3> QED BY <1>1, <2>1, <2>3, <2>4, <3>1
  <2>6. /\ At(i) + 1 \in 1..Len(c) /\ c[At(i) + 1].do = "wb" /\ c[At(i) + 1].path = to \o r
    <3>1. 1 \in Nat \ {0} /\ 1 <= 3
      OBVIOUS
    <3> QED BY <1>1, <2>3, <2>4, <3>1
  <2>7. At(i) \in Nat
    <3>1. i = 1 => At(i) = 0
      BY DEF At, Begins
    <3>2. i # 1 => At(i) = Len(FlatOf(EntryLists(p, to))[i - 1]) /\ i - 1 \in 1..len
      BY <1>2 DEF At, Begins
    <3>3. i # 1 => At(i) \in Nat
      <4>1. len >= 1
        BY <1>2
      <4>2. EntryLists(p, to) \in Seq(Seq(Step)) /\ Len(EntryLists(p, to)) = len
        BY EntryListsAre DEF len, e, S
      <4>3. EntryLists(p, to) # <<>>
        BY <4>1, <4>2
      <4>4. i # 1 => FlatOf(EntryLists(p, to))[i - 1] \in Seq(Step)
        BY <3>2, <4>2, <4>3, FlatSteps
      <4> QED BY <3>2, <4>4
    <3> QED BY <3>1, <3>3
  <2>8. x - 1 = At(i) + 1
    BY <2>7
  <2>9. ASSUME NEW y \in 1..Len(c), Touches(c[y], to \o r) PROVE y \in {x - 1, x}
    <3>1. PICK h \in 1..len, j \in Nat \ {0} :
             /\ j <= Len(Of(h)) /\ y = At(h) + j
             /\ c[y].do = Of(h)[j].do /\ c[y].path = After(p, e[h], to)
      BY <1>1
    <3>2. e[h] = p \o r
      <4>1. e[h] \in S
        BY <1>2
      <4>2. After(p, e[h], <<>>) \in Seq(Name) /\ e[h] = p \o After(p, e[h], <<>>)
            /\ to \o r = to \o After(p, e[h], <<>>)
        BY <1>3, <2>9, <3>1, <4>1 DEF Touches
      <4>3. r = After(p, e[h], <<>>)
        BY <1>6, <4>2, SamePlace
      <4> QED BY <4>2, <4>3
    <3>3. h = i
      BY <1>2, <2>1, <3>2 DEF Lists, len
    <3>4. j \in {1, 2, 3} /\ j # 3
      <4>1. j <= 3
        BY <2>3, <3>1, <3>3
      <4>2. j \in {1, 2, 3}
        BY <4>1
      <4>3. j # 3
        BY <2>3, <2>9, <3>1, <3>3 DEF Touches, Writing
      <4> QED BY <4>2, <4>3
    <3> QED BY <2>7, <3>1, <3>3, <3>4
  <2> HIDE DEF x
  <2> QED BY <2>5, <2>6, <2>8, <2>9
<1> QED
  BY <1>5, <1>6 DEF c, S

\* rmtree removes what is beneath a directory, and the directory.
LEMMA RmTreeIs ==
  ASSUME Sound(tree), NEW p \in DOMAIN tree
  PROVE  /\ RmTree(p) \in Seq(Step)
         /\ \A i \in 1..Len(RmTree(p)) :
              /\ Removal(RmTree(p)[i]) /\ RmTree(p)[i].soft = FALSE
              /\ RmTree(p)[i].path \in DOMAIN tree
              /\ RmTree(p)[i].path = p \/ IsPrefix(p, RmTree(p)[i].path)
<1> DEFINE S == Beneath(p) \cup {p}
           all == Up(S)
           W(q) == IF IsDir(q) THEN "rmdir" ELSE "unlink"
<1>1. S \in SUBSET (DOMAIN tree) /\ \A q \in S : q = p \/ IsPrefix(p, q)
  BY DEF Beneath
<1>2. IsFiniteSet(S) /\ S \in SUBSET Seq(Name) /\ p \in Seq(Name)
  BY <1>1, FS_Subset DEF Sound
<1>3. all \in Seq(S)
  BY <1>2, DownTyped
<1>4. RmTree(p) = [i \in DOMAIN all |-> Do(W(all[i]), all[i])]
  BY DEF RmTree
<1>5. RmTree(p) \in Seq(Step)
  BY <1>2, RmTreeTyped
<1>6. \A q : Removal(Do(W(q), q)) /\ Do(W(q), q).soft = FALSE /\ Do(W(q), q).path = q
  BY DEF Removal, Do
<1> HIDE DEF S, all, W
<1>7. Len(all) \in Nat /\ DOMAIN all = 1..Len(all) /\ \A i \in 1..Len(all) : all[i] \in S
  BY <1>3
<1>8. Len(RmTree(p)) = Len(all)
  BY <1>4, <1>7
<1>9. \A i \in 1..Len(RmTree(p)) : RmTree(p)[i] = Do(W(all[i]), all[i]) /\ all[i] \in S
  BY <1>4, <1>7, <1>8
<1> QED
  BY <1>1, <1>5, <1>6, <1>9

\* Three lists of calls and one call, one after the other.
Parts(T, A, B, s, R) ==
  /\ T \in Seq(Step) /\ Len(A) \in Nat /\ Len(B) \in Nat /\ Len(R) \in Nat
  /\ Len(T) = Len(A) + Len(B) + 1 + Len(R)
  /\ \A i \in 1..Len(A) : T[i] = A[i]
  /\ \A i \in 1..Len(B) : T[Len(A) + i] = B[i]
  /\ T[Len(A) + Len(B) + 1] = s
  /\ \A i \in 1..Len(R) : T[Len(A) + Len(B) + 1 + i] = R[i]

LEMMA FourParts ==
  ASSUME NEW A \in Seq(Step), NEW B \in Seq(Step), NEW s \in Step, NEW R \in Seq(Step)
  PROVE  Parts((A \o B \o <<s>>) \o R, A, B, s, R)
<1> DEFINE a == Len(A)
           b == Len(B)
           c == Len(R)
           X == A \o B
           Y == X \o <<s>>
           T == Y \o R
<1>1. a \in Nat /\ b \in Nat /\ c \in Nat
  OBVIOUS
<1>2. X \in Seq(Step) /\ Len(X) = a + b
      /\ \A i \in 1..(a + b) : X[i] = IF i <= a THEN A[i] ELSE B[i - a]
  BY ConcatProperties
<1>3. <<s>> \in Seq(Step) /\ Len(<<s>>) = 1 /\ <<s>>[1] = s
  OBVIOUS
<1> HIDE DEF X
<1>4. Y \in Seq(Step) /\ Len(Y) = Len(X) + Len(<<s>>)
      /\ \A i \in 1..(Len(X) + Len(<<s>>)) : Y[i] = IF i <= Len(X) THEN X[i] ELSE <<s>>[i - Len(X)]
  BY <1>2, <1>3, ConcatProperties
<1> HIDE DEF Y
<1>5. T \in Seq(Step) /\ Len(T) = Len(Y) + c
      /\ \A i \in 1..(Len(Y) + c) : T[i] = IF i <= Len(Y) THEN Y[i] ELSE R[i - Len(Y)]
  <2>1. /\ Y \o R \in Seq(Step) /\ Len(Y \o R) = Len(Y) + Len(R)
        /\ \A i \in 1..(Len(Y) + Len(R)) : (Y \o R)[i] = IF i <= Len(Y) THEN Y[i] ELSE R[i - Len(Y)]
    <3>1. Y \in Seq(Step) /\ R \in Seq(Step)
      BY <1>4
    <3> QED BY ONLY <3>1, ConcatProperties
  <2> QED BY <2>1
<1> HIDE DEF T, a, b, c
<1>6. Len(Y) = a + b + 1 /\ Len(T) = a + b + 1 + c
  BY <1>1, <1>2, <1>3, <1>4, <1>5
<1>7. ASSUME NEW i \in 1..a PROVE T[i] = A[i]
  <2>1. i \in 1..(a + b) /\ i <= a /\ i <= a + b /\ i <= a + b + 1
        /\ i \in 1..(a + b + 1) /\ i \in 1..(a + b + 1 + c)
    BY <1>1
  <2>2. T[i] = Y[i]
    BY <1>5, <1>6, <2>1
  <2>3. Y[i] = X[i]
    BY <1>2, <1>3, <1>4, <2>1
  <2> QED BY <1>2, <2>1, <2>2, <2>3
<1>8. ASSUME NEW i \in 1..b PROVE T[a + i] = B[i]
  <2>1. a + i \in 1..(a + b) /\ ~(a + i <= a) /\ a + i <= a + b /\ a + i <= a + b + 1
        /\ a + i \in 1..(a + b + 1) /\ a + i \in 1..(a + b + 1 + c) /\ a + i - a = i
    BY <1>1
  <2>2. T[a + i] = Y[a + i]
    BY <1>5, <1>6, <2>1
  <2>3. Y[a + i] = X[a + i]
    BY <1>2, <1>3, <1>4, <2>1
  <2>4. X[a + i] = B[i]
    <3> DEFINE j == a + i
    <3>1. j \in 1..(a + b) /\ ~(j <= a) /\ j - a = i
      BY <1>1, <2>1
    <3> HIDE DEF j
    <3>2. X[j] = B[j - a]
      BY <1>2, <3>1
    <3>3. X[j] = B[i]
      BY <3>1, <3>2
    <3> QED BY <3>3 DEF j
  <2> QED BY <2>1, <2>2, <2>3, <2>4
<1>9. T[a + b + 1] = s
  <2>1. a + b + 1 \in 1..(a + b + 1) /\ a + b + 1 \in 1..(a + b + 1 + c)
        /\ ~(a + b + 1 <= a + b) /\ a + b + 1 - (a + b) = 1 /\ a + b + 1 <= a + b + 1
    BY <1>1
  <2>2. T[a + b + 1] = Y[a + b + 1]
    BY <1>5, <1>6, <2>1
  <2>3. Y[a + b + 1] = <<s>>[a + b + 1 - (a + b)]
    BY <1>2, <1>3, <1>4, <2>1
  <2> HIDE DEF Y
  <2> QED BY <1>3, <2>1, <2>2, <2>3
<1>10. ASSUME NEW i \in 1..c PROVE T[a + b + 1 + i] = R[i]
  <2>1. a + b + 1 + i \in 1..(a + b + 1 + c) /\ ~(a + b + 1 + i <= a + b + 1)
        /\ a + b + 1 + i - (a + b + 1) = i
    BY <1>1
  <2> QED BY <1>5, <1>6, <2>1
<1>11. Parts(T, A, B, s, R)
  BY <1>1, <1>5, <1>6, <1>7, <1>8, <1>9, <1>10 DEF Parts, a, b, c
<1> QED
  BY <1>11 DEF X, Y, T

\* Moving a directory is a plan, and each of its files is about to be written.
LEMMA MovedTree ==
  ASSUME Sound(tree), NEW m \in Move, m.held = Held(m.from),
         IsDir(m.from), ~IsPrefix(m.from, m.to), ~IsDir(m.to)
  PROVE  Moving(tree, Moved(m.from, m.to), m, FALSE)
<1> DEFINE p == m.from
           to == m.to
           Missing == {q \in {SubSeq(to, 1, i) : i \in 1..(Len(to) - 1)} : ~Exists(q)}
           dirs == Down(Missing) \o <<to>>
           A == [i \in DOMAIN dirs |-> Do("mkdir", dirs[i])]
           B == CopyEntries(p, to)
           s == Do("check", to)
           R == RmTree(p)
           T == (A \o B \o <<s>>) \o R
           a == Len(A)
           b == Len(B)
           c == a + b + 1
<1>1. p \in Seq(Name) /\ to \in Seq(Name) /\ p \in DOMAIN tree
  BY DEF Move, IsDir, Exists
<1>2. Moved(p, to) = T
  BY DEF Moved, CopyTree, CopyEntries, EntryLists, EntryCalls
<1>3. A \in Seq(Step) /\ \A i \in 1..Len(A) : A[i].do = "mkdir" /\ A[i].soft = FALSE
  <2>1. IsFiniteSet(Missing) /\ Missing \in SUBSET Seq(Name)
    BY <1>1, MissingFinite
  <2>2. Down(Missing) \in Seq(Missing)
    BY <2>1, DownTyped
  <2>3. Down(Missing) \in Seq(Seq(Name)) /\ <<to>> \in Seq(Seq(Name))
    BY <1>1, <2>1, <2>2, SeqMonotonic
  <2> HIDE DEF Missing, to
  <2>4. dirs \in Seq(Seq(Name))
    BY <2>3
  <2> HIDE DEF dirs
  <2>5. Len(dirs) \in Nat /\ DOMAIN dirs = 1..Len(dirs) /\ \A i \in 1..Len(dirs) : dirs[i] \in Seq(Name)
    BY <2>4
  <2>6. \A i \in 1..Len(dirs) : Do("mkdir", dirs[i]) \in Step
    BY <2>5, DoTyped DEF Deeds
  <2>7. A \in [1..Len(dirs) -> Step] /\ \A i \in 1..Len(dirs) : A[i] = Do("mkdir", dirs[i])
    BY <2>5, <2>6
  <2> HIDE DEF A
  <2>8. A \in Seq(Step) /\ Len(A) = Len(dirs)
    <3>1. A \in Seq(Step)
      BY ONLY <2>5, <2>7, ListOf
    <3> QED BY <2>5, <2>7, <3>1
  <2>9. \A x : Do("mkdir", x).do = "mkdir" /\ Do("mkdir", x).soft = FALSE
    BY DEF Do
  <2> QED BY <2>7, <2>8, <2>9
<1>4. /\ B \in Seq(Step) /\ Len(B) \in Nat
      /\ \A x \in 1..Len(B) : B[x].soft /\ B[x].do \in {"mkdir", "wb", "write", "stat"}
  BY <1>1, EntriesAre
<1>5. /\ \A x \in 1..Len(B) : Writing(B[x]) => \E r \in Seq(Name) : B[x].path = to \o r
      /\ \A r \in Seq(Name) : p \o r \in Beneath(p) /\ IsFile(p \o r) =>
           \E x \in 1..Len(B) :
             /\ x - 1 \in 1..Len(B) /\ B[x - 1].do = "wb" /\ B[x - 1].path = to \o r
             /\ B[x].do = "write" /\ B[x].path = to \o r /\ B[x].data = tree[p \o r].data
             /\ \A y \in 1..Len(B) : Touches(B[y], to \o r) => y \in {x - 1, x}
  BY <1>1, EntriesWrite
<1>6. s \in Step /\ s.do = "check" /\ s.soft = FALSE
  BY <1>1, DoTyped DEF Do, Deeds
<1>7. /\ R \in Seq(Step)
      /\ \A i \in 1..Len(R) : /\ Removal(R[i]) /\ R[i].soft = FALSE /\ R[i].path \in DOMAIN tree
                              /\ R[i].path = p \/ IsPrefix(p, R[i].path)
  BY <1>1, RmTreeIs
<1> HIDE DEF A, B, s, R
<1>8. /\ T \in Seq(Step) /\ a \in Nat /\ b \in Nat /\ Len(R) \in Nat /\ Len(T) = a + b + 1 + Len(R)
      /\ \A i \in 1..a : T[i] = A[i]
      /\ \A i \in 1..b : T[a + i] = B[i]
      /\ T[a + b + 1] = s
      /\ \A i \in 1..Len(R) : T[a + b + 1 + i] = R[i]
  <2>1. Parts(T, A, B, s, R)
    BY <1>3, <1>4, <1>6, <1>7, FourParts
  <2> HIDE DEF T
  <2> QED BY <2>1 DEF Parts
<1>9. c \in Nat /\ c \in 1..Len(T) /\ T[c].do = "check" /\ T[c].soft = FALSE
  <2> HIDE DEF T, a, b
  <2> QED BY <1>6, <1>8
<1> DEFINE len == Len(T)
<1> HIDE DEF T, p, to, len, c
<1>10. ASSUME NEW i \in 1..len, i < c
       PROVE  /\ T[i].do \in {"mkdir", "wb", "write", "stat"}
              /\ Writing(T[i]) => /\ i - a \in 1..b /\ T[i] = B[i - a]
                                  /\ \E r \in Seq(Name) : T[i].path = to \o r
  <2> HIDE DEF a, b
  <2>1. i \in 1..a \/ (i - a \in 1..b /\ a + (i - a) = i)
    BY <1>8, <1>10 DEF c
  <2>2. CASE i \in 1..a
    BY <1>3, <1>8, <2>2 DEF Writing, a
  <2>3. CASE i - a \in 1..b /\ a + (i - a) = i
    <3>1. T[i] = B[i - a]
      BY <1>8, <2>3
    <3>2. B[i - a].do \in {"mkdir", "wb", "write", "stat"}
      BY <1>4, <2>3 DEF b
    <3>3. Writing(B[i - a]) => \E r \in Seq(Name) : B[i - a].path = to \o r
      BY <1>5, <2>3 DEF b
    <3> QED BY <2>3, <3>1, <3>2, <3>3
  <2> QED BY <2>1, <2>2, <2>3
<1>11. ASSUME NEW i \in 1..len, c < i
       PROVE  /\ Removal(T[i]) /\ T[i].soft = FALSE /\ T[i].path \in DOMAIN tree
              /\ T[i].path = p \/ IsPrefix(p, T[i].path)
  <2> HIDE DEF a, b
  <2>1. i - c \in 1..Len(R) /\ a + b + 1 + (i - c) = i
    BY <1>8, <1>11 DEF c, len
  <2>2. T[i] = R[i - c]
    BY <1>8, <2>1
  <2> QED BY <1>7, <2>1, <2>2
<1>12. \A i \in 1..len : i < c \/ i = c \/ c < i
  BY <1>9
<1>13. ASSUME NEW r \in DOMAIN m.held
       PROVE  /\ r \in Seq(Name) /\ p \o r \in DOMAIN tree /\ IsFile(p \o r)
              /\ m.held[r] = tree[p \o r].data /\ IsPrefix(p, p \o r) /\ p \o r \in Beneath(p)
  <2>1. /\ r \in Seq(Name) /\ p \o r \in DOMAIN tree /\ tree[p \o r].kind = "file"
        /\ m.held[r] = tree[p \o r].data /\ IsPrefix(p, p \o r)
        /\ p \o r = p \/ p \o r \in Beneath(p)
    BY <1>1, HeldIs DEF p
  <2>2. p \o r # p
    BY <2>1 DEF IsDir, p
  <2> QED BY <2>1, <2>2 DEF IsFile, Exists
<1>14. \A i \in 1..len : /\ Removal(T[i]) <=> c < i
                         /\ Writing(T[i]) => i < c
  <2>1. \A i \in 1..len : i < c => ~Removal(T[i])
    BY <1>10 DEF Removal
  <2>2. ~Removal(T[c]) /\ ~Writing(T[c])
    BY <1>9 DEF Removal, Writing
  <2>3. \A i \in 1..len : c < i => Removal(T[i])
    BY <1>11
  <2>4. \A i \in 1..len : Removal(T[i]) => ~Writing(T[i])
    BY DEF Removal, Writing
  <2> HIDE DEF c
  <2>5. \A i \in 1..len : c < i => ~(i < c) /\ i # c
    BY <1>9
  <2> QED BY <1>12, <2>1, <2>2, <2>3, <2>4, <2>5
<1>15. RemovedLast(T)
  <2> SUFFICES ASSUME NEW i \in 1..len, NEW j \in 1..len, i < j, Removal(T[i]) PROVE Removal(T[j])
    BY DEF RemovedLast, len
  <2>1. c < i
    BY <1>14
  <2>2. c < j
    BY <1>9, <2>1
  <2> QED BY <1>14, <2>2
<1>16. SparesSource(T, m)
  <2> SUFFICES ASSUME NEW i \in 1..len, NEW r \in DOMAIN m.held, Writing(T[i]) PROVE T[i].path # p \o r
    BY DEF SparesSource, len, p
  <2>1. PICK q \in Seq(Name) : T[i].path = to \o q
    BY <1>10, <1>14
  <2> QED BY <1>1, <1>13, <2>1, Apart DEF p, to
<1>17. SparesTarget(T, m)
  <2> SUFFICES ASSUME NEW i \in 1..len, NEW r \in DOMAIN m.held, Removal(T[i]) PROVE T[i].path # to \o r
    BY DEF SparesTarget, len, to
  <2>1. T[i].path \in DOMAIN tree /\ (T[i].path = p \/ IsPrefix(p, T[i].path))
    BY <1>11, <1>14
  <2>2. IsPrefix(p, p)
    BY <1>1, PrefixIs
  <2> QED BY <1>1, <1>13, <2>1, <2>2, Apart DEF p, to
<1>18. Checked(T)
  <2> SUFFICES ASSUME NEW i \in 1..len, T[i].soft PROVE \E j \in 1..len : i < j /\ T[j].do = "check"
    BY DEF Checked, len
  <2>1. i # c /\ ~(c < i)
    BY <1>9, <1>11
  <2> QED BY <1>9, <1>12, <2>1 DEF len
<1>19. ASSUME NEW r \in DOMAIN m.held PROVE Pending(tree, T, to \o r, m.held[r])
  <2>1. PICK x \in 1..b :
             /\ x - 1 \in 1..b /\ B[x - 1].do = "wb" /\ B[x - 1].path = to \o r
             /\ B[x].do = "write" /\ B[x].path = to \o r /\ B[x].data = m.held[r]
             /\ \A y \in 1..b : Touches(B[y], to \o r) => y \in {x - 1, x}
    BY <1>5, <1>13
  <2> DEFINE i == a + x
  <2> HIDE DEF a, b
  <2>2. i \in 1..len /\ i # 1 /\ i - 1 = a + (x - 1)
    <3>1. len = a + b + 1 + Len(R) /\ a \in Nat /\ b \in Nat /\ Len(R) \in Nat
      BY <1>8 DEF len
    <3>2. x \in 1..b /\ x - 1 \in 1..b
      BY <2>1
    <3> QED BY <3>1, <3>2
  <2>3. T[i] = B[x] /\ T[i - 1] = B[x - 1]
    BY <1>8, <2>1, <2>2
  <2>4. ASSUME NEW j \in 1..len, j # i, j # i - 1 PROVE ~Touches(T[j], to \o r)
    <3> SUFFICES ASSUME Touches(T[j], to \o r) PROVE FALSE
      OBVIOUS
    <3>1. j < c
      BY <1>14 DEF Touches
    <3>2. j - a \in 1..b /\ T[j] = B[j - a]
      BY <1>10, <3>1 DEF Touches
    <3>3. j - a \in {x - 1, x}
      BY <2>1, <3>2
    <3>4. j = i \/ j = i - 1
      BY <1>8, <2>1, <3>3
    <3> QED BY <2>4, <3>4
  <2> HIDE DEF i
  <2>5. PendingAt(tree, T, to \o r, m.held[r], i)
    BY <2>1, <2>2, <2>3, <2>4 DEF PendingAt, len
  <2> QED BY <2>2, <2>5 DEF Pending, len
<1>20. AtSource(tree, m)
  BY HeldAtSource
<1>21. Moving(tree, T, m, FALSE)
  BY <1>15, <1>16, <1>17, <1>18, <1>19, <1>20 DEF Moving, Plan, Copied, to
<1> QED
  BY <1>2, <1>21 DEF p, to

\* Moving a file: it is copied, and then unlinked.
LEMMA MovedFile ==
  ASSUME Sound(tree), NEW m \in Move, m.held = Held(m.from),
         m.from \in DOMAIN tree, ~IsDir(m.from), ~IsDir(m.to), m.to # m.from
  PROVE  Moving(tree, Moved(m.from, m.to), m, FALSE)
<1> DEFINE p == m.from
           to == m.to
           C == Copy2(p, to)
           u == Do("unlink", p)
           T == C \o <<u>>
<1>1. p \in Seq(Name) /\ to \in Seq(Name)
  BY DEF Move
<1>2. Moved(p, to) = T
  BY DEF Moved
<1>3. /\ Len(C) = 3 /\ C \in Seq(Step)
      /\ C[1] = Do("wb", to) /\ C[3] = Do("stat", to)
      /\ C[2].do = "write" /\ C[2].path = to /\ C[2].data = tree[p].data /\ ~C[2].soft
  BY <1>1, Copy2Is
<1>4. u \in Step /\ u.do = "unlink" /\ u.path = p /\ u.soft = FALSE
  BY <1>1, DoTyped DEF Do, Deeds
<1>5. Do("wb", to).do = "wb" /\ Do("wb", to).path = to /\ Do("wb", to).soft = FALSE
      /\ Do("stat", to).do = "stat" /\ Do("stat", to).soft = FALSE
  BY DEF Do
<1> HIDE DEF C, u
<1>6. Len(T) = 4 /\ T[1] = C[1] /\ T[2] = C[2] /\ T[3] = C[3] /\ T[4] = u
  <2>1. <<u>> \in Seq(Step) /\ Len(<<u>>) = 1 /\ <<u>>[1] = u
    BY <1>4
  <2>2. /\ Len(C \o <<u>>) = Len(C) + Len(<<u>>)
        /\ \A i \in 1..(Len(C) + Len(<<u>>)) :
             (C \o <<u>>)[i] = IF i <= Len(C) THEN C[i] ELSE <<u>>[i - Len(C)]
    BY ONLY <1>3, <2>1, ConcatProperties
  <2>3. 1 \in 1..4 /\ 2 \in 1..4 /\ 3 \in 1..4 /\ 4 \in 1..4
    OBVIOUS
  <2> QED BY <1>3, <2>1, <2>2, <2>3
<1> HIDE DEF T
<1>7. \A i \in 1..Len(T) : i \in {1, 2, 3, 4}
  BY <1>6
<1>8. ASSUME NEW r \in DOMAIN m.held
      PROVE  p \o r = p /\ to \o r = to /\ m.held[r] = tree[p].data
  <2>1. r \in Seq(Name) /\ m.held[r] = tree[p \o r].data /\ (p \o r = p \/ p \o r \in Beneath(p))
    BY <1>1, HeldIs
  <2>2. ASSUME NEW q \in Beneath(p) PROVE FALSE
    <3>1. q \in DOMAIN tree /\ p # q /\ IsPrefix(p, q)
      BY DEF Beneath
    <3>2. ~IsDir(p)
      OBVIOUS
    <3> HIDE DEF p
    <3>3. IsDir(p)
      BY <1>1, <3>1, AboveIsDir
    <3> QED BY <3>2, <3>3
  <2>3. r = <<>>
    BY <1>1, <2>1, <2>2, PlaceUnder
  <2> QED BY <1>1, <2>1, <2>2, <2>3, ConcatEmptySeq
<1> HIDE DEF p, to
<1>9. /\ ~Removal(T[1]) /\ ~Removal(T[2]) /\ ~Removal(T[3]) /\ Removal(T[4])
      /\ ~Writing(T[3]) /\ ~Writing(T[4]) /\ T[1].path = to /\ T[2].path = to /\ T[4].path = p
      /\ ~T[1].soft /\ ~T[2].soft /\ ~T[3].soft /\ ~T[4].soft
  BY <1>3, <1>4, <1>5, <1>6 DEF Removal, Writing
<1>10. RemovedLast(T)
  <2> SUFFICES ASSUME NEW i \in 1..Len(T), NEW j \in 1..Len(T), i < j, Removal(T[i]) PROVE FALSE
    BY DEF RemovedLast
  <2>1. i = 4 /\ j \in {1, 2, 3, 4}
    BY <1>7, <1>9
  <2> QED BY <2>1
<1>11. SparesSource(T, m)
  BY <1>7, <1>8, <1>9 DEF SparesSource, p, to
<1>12. SparesTarget(T, m)
  BY <1>7, <1>8, <1>9 DEF SparesTarget, p, to
<1>13. Checked(T)
  BY <1>7, <1>9 DEF Checked
<1>14. ASSUME NEW r \in DOMAIN m.held PROVE Pending(tree, T, to \o r, m.held[r])
  <2>1. 2 \in 1..Len(T) /\ 2 # 1 /\ 2 - 1 = 1
    BY <1>6
  <2>2. ASSUME NEW j \in 1..Len(T), j # 2, j # 2 - 1 PROVE ~Touches(T[j], to \o r)
    <3>1. j = 3 \/ j = 4
      BY <1>7, <2>2
    <3> QED BY <1>9, <3>1 DEF Touches
  <2>3. PendingAt(tree, T, to \o r, m.held[r], 2)
    BY <1>3, <1>5, <1>6, <1>8, <2>1, <2>2 DEF PendingAt
  <2> QED BY <2>1, <2>3 DEF Pending
<1>15. AtSource(tree, m)
  BY HeldAtSource
<1>16. Moving(tree, T, m, FALSE)
  BY <1>10, <1>11, <1>12, <1>13, <1>14, <1>15 DEF Moving, Plan, Copied, to
<1> QED
  BY <1>2, <1>16 DEF p, to

\* What shutil.move sets out to do.
LEMMA MoveBegins ==
  ASSUME Sound(tree), NEW p \in Seq(Name), NEW dst \in Seq(Name), NEW m \in Move,
         m.from = p, m.to = Within(p, dst), m.held = Held(p)
  PROVE  Refused(tree, MoveCall(p, dst), m) \/ Moving(tree, MoveCall(p, dst), m, FALSE)
<1> DEFINE to == Within(p, dst)
           T == MoveCall(p, dst)
<1>1. AtSource(tree, m)
  BY HeldAtSource
<1>2. CASE T = <<>> \/ T = <<Do("fail", p)>>
  <2>1. \A i \in 1..Len(T) : T[i].do = "fail"
    <3>1. Do("fail", p).do = "fail"
      BY DEF Do
    <3> DEFINE d == Do("fail", p)
    <3> HIDE DEF d, T
    <3>2. T = <<>> \/ T = <<d>>
      BY <1>2 DEF d
    <3> QED BY <3>1, <3>2 DEF d
  <2> QED BY <1>1, <2>1 DEF Refused
<1>3. CASE ~(T = <<>> \/ T = <<Do("fail", p)>>)
  <2>1. /\ T = Moved(p, to) /\ Exists(p) /\ p # dst
        /\ ~(IsDir(dst) /\ Exists(to)) /\ ~(IsDir(p) /\ IsPrefix(p, to))
    BY <1>3 DEF MoveCall
  <2>2. IsDir(dst) \/ to = dst
    BY DEF Within
  <2>3. ~IsDir(to) /\ p # to /\ p \in DOMAIN tree
    BY <2>1, <2>2 DEF IsDir, Exists
  <2> HIDE DEF T, to
  <2>4. m.from = p /\ m.to = to /\ m.held = Held(m.from)
    BY DEF to
  <2>5. CASE IsDir(p)
    <3>1. IsDir(m.from) /\ ~IsPrefix(m.from, m.to) /\ ~IsDir(m.to)
      BY <2>1, <2>3, <2>4, <2>5
    <3>2. Moving(tree, Moved(m.from, m.to), m, FALSE)
      BY <2>4, <3>1, MovedTree
    <3> QED BY <2>1, <2>4, <3>2 DEF T
  <2>6. CASE ~IsDir(p)
    <3>1. m.from \in DOMAIN tree /\ ~IsDir(m.from) /\ ~IsDir(m.to) /\ m.to # m.from
      BY <2>3, <2>4, <2>6
    <3>2. Moving(tree, Moved(m.from, m.to), m, FALSE)
      BY <2>4, <3>1, MovedFile
    <3> QED BY <2>1, <2>4, <3>2 DEF T
  <2> QED BY <2>5, <2>6
<1> QED
  BY <1>2, <1>3

------------------------------------------------------------------------------
(* Every action keeps the move sound *)

\* Nothing is held where nothing is moved.
LEMMA NothingMoves == DOMAIN NoMove.held = {} /\ NoJob.move = NoMove /\ NoJob.verb = "none"
  BY DEF NoMove, NoJob

LEMMA InitMoves == Init => MoveSound
  BY NothingMoves DEF Init, MoveSound

LEMMA NextArgMoves ==
  ASSUME Typed, MoveSound, NextArg
  PROVE  MoveSound'
<1>1. /\ at = "work" /\ at' = at /\ tree' = tree /\ job.args # <<>>
      /\ job \in Job /\ job.args \in Seq(Word)
  BY DEF NextArg, Typed, JobTyped, Job
<1> DEFINE p == Resolve(job.args[1])
           dst == IF job.verb \in Movers THEN Resolve(job.args[2]) ELSE p
           args == IF job.verb \in Movers THEN <<>> ELSE Tail(job.args)
           todo == Calls(job.verb, p, dst, job.recursive)
           m == [from |-> p, to |-> Within(p, dst), held |-> Held(p)]
           move == IF job.verb = "mv" THEN m ELSE job.move
<1>2. job' = [job EXCEPT !.args = args, !.todo = todo, !.move = move]
  BY DEF NextArg
<1>3. CASE job.verb # "mv"
  <2>1. DOMAIN job.move.held = {}
    BY <1>3 DEF MoveSound
  <2>2. job'.verb = job.verb /\ job'.move = job.move
    <3> HIDE DEF args, todo, m
    <3> QED BY <1>1, <1>2, <1>3 DEF Job
  <2> QED BY <1>3, <2>1, <2>2 DEF MoveSound
<1>4. CASE job.verb = "mv"
  <2>1. ~job.bad /\ job.verb \in Movers /\ Len(job.args) >= 2
    BY <1>1, <1>4 DEF MoveSound, Typed, JobTyped, Movers
  <2>2. p \in Seq(Name) /\ dst \in Seq(Name)
    <3>1. job.args[1] \in Word /\ job.args[2] \in Word
      BY <1>1, <2>1
    <3> QED BY <2>1, <3>1, ResolveTyped DEF Typed
  <2>3. todo = MoveCall(p, dst) /\ args = <<>> /\ move = m
    BY <1>4, <2>1 DEF Calls
  <2> HIDE DEF p, dst
  <2>4. m \in Move /\ m.from = p /\ m.to = Within(p, dst) /\ m.held = Held(p)
    <3>1. Within(p, dst) \in Seq(Name) /\ Held(p) \in Holding
      BY <2>2, WithinTyped, HeldTyped DEF Typed
    <3> QED BY <2>2, <3>1 DEF Move
  <2> HIDE DEF m, todo, args, move
  <2>5. Refused(tree, todo, m) \/ Moving(tree, todo, m, FALSE)
    BY <2>2, <2>3, <2>4, MoveBegins DEF Typed
  <2>6. /\ job'.verb = "mv" /\ job'.args = <<>> /\ job'.todo = todo /\ job'.move = m
        /\ job'.bad = job.bad
    BY <1>1, <1>2, <1>4, <2>3 DEF Job
  <2>7. job.bad = FALSE
    BY <1>1, <2>1 DEF Job
  <2>8. /\ Refused(tree', job'.todo, job'.move) = Refused(tree, todo, m)
        /\ Moving(tree', job'.todo, job'.move, job'.bad) = Moving(tree, todo, m, FALSE)
    BY <1>1, <2>6, <2>7
  <2> QED BY <1>1, <2>5, <2>6, <2>8 DEF MoveSound
<1> QED
  BY <1>3, <1>4

LEMMA CallMoves ==
  ASSUME Typed, MoveSound, Call
  PROVE  MoveSound'
<1> DEFINE T == job.todo
           m == job.move
<1>1. /\ at = "work" /\ at' = at /\ T # <<>> /\ Fits(Head(T)) /\ tree' = Effect(Head(T))
      /\ job' = [job EXCEPT !.todo = Tail(T)] /\ job \in Job
  BY DEF Call, Typed, JobTyped
<1>2. T \in Seq(Step)
  BY <1>1 DEF Job
<1>3. /\ job'.verb = job.verb /\ job'.args = job.args /\ job'.todo = Tail(T) /\ job'.move = m
      /\ job'.bad = job.bad
  BY <1>1 DEF Job
<1>4. job.verb = "mv" => job.args = <<>>
  BY <1>1 DEF MoveSound
<1> HIDE DEF T, m
<1>5. T[1] = Head(T) /\ 1 \in 1..Len(T)
  BY <1>1, <1>2, TailOf
<1>6. ASSUME DOMAIN m.held # {} PROVE Moving(tree', Tail(T), m, job.bad)
  <2>1. ~Refused(tree, T, m)
    <3>1. ~(Head(T).do = "fail")
      BY <1>1 DEF Fits
    <3> QED BY <1>5, <3>1 DEF Refused
  <2>2. Moving(tree, T, m, job.bad)
    BY <1>6, <2>1 DEF MoveSound, T, m
  <2> QED BY <1>1, <1>2, <1>5, <2>2, MovingCall DEF Typed
<1>7. Moving(tree', job'.todo, job'.move, job'.bad) = Moving(tree', Tail(T), m, job.bad)
  BY <1>3
<1>8. DOMAIN m.held # {} => job.verb = "mv"
  BY DEF MoveSound, m
<1> QED
  BY <1>1, <1>3, <1>4, <1>6, <1>7, <1>8 DEF MoveSound

LEMMA CallFailsMoves ==
  ASSUME Typed, MoveSound, CallFails
  PROVE  MoveSound'
<1> DEFINE T == job.todo
           m == job.move
<1>1. /\ at = "work" /\ T # <<>> /\ tree' = tree /\ job \in Job
  BY DEF CallFails, Typed, JobTyped
<1>2. T \in Seq(Step)
  BY <1>1 DEF Job
<1>3. job.verb = "mv" => job.args = <<>>
  BY <1>1 DEF MoveSound
<1>4. CASE job' = NoJob
  BY <1>4, NothingMoves DEF MoveSound
<1>5. CASE Head(T).soft /\ job' = [job EXCEPT !.todo = Tail(T), !.bad = TRUE] /\ at' = at
  <2>1. /\ job'.verb = job.verb /\ job'.args = job.args /\ job'.todo = Tail(T) /\ job'.move = m
        /\ job'.bad = TRUE
    BY <1>1, <1>5 DEF Job
  <2> HIDE DEF T, m
  <2>2. /\ T[1] = Head(T) /\ \A i \in 1..Len(Tail(T)) : Tail(T)[i] = T[i + 1] /\ i + 1 \in 1..Len(T)
    BY <1>1, <1>2, TailOf
  <2>3. Refused(tree, T, m) => Refused(tree, Tail(T), m)
    BY <2>2 DEF Refused
  <2>4. Moving(tree, T, m, job.bad) => Moving(tree, Tail(T), m, TRUE)
    BY <1>1, <1>2, <1>5, <2>2, MovingFails
  <2>5. DOMAIN m.held # {} =>
          /\ job.verb = "mv"
          /\ Refused(tree, T, m) \/ Moving(tree, T, m, job.bad)
    BY DEF MoveSound, T, m
  <2>6. /\ Refused(tree', job'.todo, job'.move) = Refused(tree, Tail(T), m)
        /\ Moving(tree', job'.todo, job'.move, job'.bad) = Moving(tree, Tail(T), m, TRUE)
    BY <1>1, <2>1
  <2> QED BY <1>1, <1>3, <1>5, <2>1, <2>3, <2>4, <2>5, <2>6 DEF MoveSound
<1>6. CASE Forgiven /\ job' = [job EXCEPT !.todo = <<>>]
  <2>1. job.verb = "rm"
    BY <1>6 DEF Forgiven
  <2>2. job'.verb = job.verb /\ job'.move = m
    BY <1>1, <1>6 DEF Job
  <2>3. DOMAIN m.held = {}
    BY <2>1 DEF MoveSound
  <2> QED BY <2>1, <2>2, <2>3 DEF MoveSound
<1> QED
  BY <1>4, <1>5, <1>6 DEF CallFails

\* Whatever else the worker does, it does not do while something is moved.
LEMMA OthersMove ==
  ASSUME MoveSound, at \notin {"work", "dead"},
         job' = job \/ (job'.move = NoMove /\ job'.todo = <<>> /\ job'.bad = FALSE)
  PROVE  MoveSound'
<1>1. DOMAIN job.move.held = {}
  BY DEF MoveSound
<1>2. CASE job' = job
  BY <1>1, <1>2 DEF MoveSound
<1>3. CASE job'.move = NoMove /\ job'.todo = <<>> /\ job'.bad = FALSE
  BY <1>3, NothingMoves DEF MoveSound
<1> QED
  BY <1>2, <1>3

LEMMA NextMoves == Typed /\ MoveSound /\ [Next]_vars => MoveSound'
<1> SUFFICES ASSUME Typed, MoveSound, [Next]_vars PROVE MoveSound'
  OBVIOUS
<1>1. CASE UNCHANGED vars
  BY <1>1 DEF MoveSound, vars
<1>2. ASSUME NEW tokens \in Line, Enter(tokens) PROVE MoveSound'
  <2>1. at = "prompt" /\ job' = NoJob
    BY <1>2 DEF Enter
  <2>2. job'.move = NoMove /\ job'.todo = <<>> /\ job'.bad = FALSE
    BY <2>1 DEF NoJob
  <2> QED BY <2>1, <2>2, OthersMove
<1>3. CASE Skip \/ Begin \/ Prompt \/ Redirect \/ RedirectFails
  <2>1. at \in {"line", "open"} /\ job' = job
    BY <1>3 DEF Skip, Begin, Prompt, Redirect, RedirectFails
  <2> QED BY <2>1, OthersMove
<1>4. CASE RunPlain \/ RunBuiltin \/ RunReader
  <2>1. at = "run" /\ job' = job
    BY <1>4 DEF RunPlain, RunBuiltin, RunReader
  <2> QED BY <2>1, OthersMove
<1>5. CASE RunWriter
  <2>1. at = "run"
    BY <1>5 DEF RunWriter
  <2>2. job' = job \/ (job'.move = NoMove /\ job'.todo = <<>> /\ job'.bad = FALSE)
    BY <1>5 DEF RunWriter, NoJob
  <2> QED BY <2>1, <2>2, OthersMove
<1>6. CASE NextArg
  BY <1>6, NextArgMoves
<1>7. CASE Worked
  <2>1. job' = NoJob
    BY <1>7 DEF Worked
  <2> QED BY <2>1, NothingMoves DEF MoveSound
<1>8. CASE Call
  BY <1>8, CallMoves
<1>9. CASE CallFails
  BY <1>9, CallFailsMoves
<1>10. CASE Write \/ WriteFails
  <2>1. at = "write" /\ job' = job
    BY <1>10 DEF Write, WriteFails
  <2> QED BY <2>1, OthersMove
<1>11. CASE Killed
  <2>1. at' = "dead" /\ job' = job /\ tree' = tree
    BY <1>11 DEF Killed
  <2> QED BY <2>1 DEF MoveSound
<1> QED
  BY <1>1, <1>2, <1>3, <1>4, <1>5, <1>6, <1>7, <1>8, <1>9, <1>10, <1>11 DEF Next

------------------------------------------------------------------------------
(* The theorems *)

\* The tree is one of directories that hold their entries, the output within its limit,
\* and the place in the line one of the line.
LEMMA TypedIsTypeOK == Typed => TypeOK
<1> SUFFICES ASSUME Typed PROVE TypeOK
  OBVIOUS
<1>1. DOMAIN tree \subseteq Seq(Name) /\ IsDir(<<>>)
  BY DEF Typed, Sound, IsDir, Exists
<1>2. \A p \in DOMAIN tree : tree[p].kind \in {"dir", "file"} /\ (p # <<>> => IsDir(Front(p)))
  BY DataTyped DEF Typed, Sound, IsDir, Exists
<1>3. cwd \in Seq(Name) /\ DOMAIN env = Variable
  BY DEF Typed, ShellTyped, Environment
<1>4. /\ at \in {"prompt", "line", "open", "run", "work", "write", "dead"}
      /\ k \in 0..(Len(line) + 1)
  BY DEF Typed, PlaceTyped, Busy
<1>5. DOMAIN ran \subseteq DOMAIN line
  BY DEF Typed, PlaceTyped
<1>6. Len(stdin) <= MaxIO /\ faults \in 0..MaxFaults /\ entered \in 0..MaxEntered
  BY DEF Typed, IoTyped, CountTyped, Short
<1> QED
  BY <1>1, <1>2, <1>3, <1>4, <1>5, <1>6 DEF TypeOK

\* Whatever the words, the lines, the tree and the limits are.
THEOREM SpecTypeOK == Spec => []TypeOK
  BY SpecTyped, TypedIsTypeOK, PTL

\* cd enters the directory it looked at, and PWD names the directory it is in.
THEOREM SpecCwdTrue == Spec => CwdTrue
<1>1. Typed /\ [Next]_vars => [(cwd' # cwd => IsDir(cwd')) /\ env'["PWD"] = Abs(cwd')]_vars
  <2> SUFFICES ASSUME Typed, Next
               PROVE  (cwd' # cwd => IsDir(cwd')) /\ env'["PWD"] = Abs(cwd')
    OBVIOUS
  <2>1. env'["PWD"] = Abs(cwd')
    BY NextTyped DEF Typed, ShellTyped
  <2>2. CASE RunBuiltin
    BY <2>1, <2>2, BuiltinTyped
  <2>3. CASE ~RunBuiltin
    <3>1. cwd' = cwd
      BY <2>3 DEF Next, Enter, Skip, Begin, Prompt, Redirect, RedirectFails, RunPlain, RunReader,
         RunWriter, NextArg, Worked, Call, CallFails, Write, WriteFails, Killed, shell
    <3> QED BY <2>1, <3>1
  <2> QED BY <2>2, <2>3
<1> QED
  BY <1>1, SpecTyped, PTL DEF Spec, CwdTrue

\* What a line returns in the end.
LEMMA EndOfLine ==
  ASSUME Typed, ListsSound, line # <<>>, line[1].op \notin Joins
  PROVE  /\ DOMAIN line = 1..Len(line)
         /\ at = "prompt" /\ printed <= MaxIO => (last = 0 <=> HoldsOf(line, ran, Len(line)))
<1>1. line \in Seq(Pipeline)
  BY DEF Typed, PlaceTyped
<1> DEFINE m == Len(line)
<1>2. m \in Nat /\ m # 0 /\ DOMAIN line = 1..m
  BY <1>1
<1> HIDE DEF m
<1>3. ASSUME at = "prompt", printed <= MaxIO PROVE last = 0 <=> HoldsOf(line, ran, m)
  <2>1. k = m + 1 /\ LastRight(line, ran, k, last)
    BY <1>3 DEF ListsSound, m
  <2>2. k # 1 /\ k - 1 = m
    BY <1>2, <2>1
  <2> QED BY <2>1, <2>2 DEF LastRight
<1> QED
  BY <1>2, <1>3 DEF m

\* a || b && c: a pipeline is executed exactly when the list before it does not decide it
\* yet, and a line returns 0 exactly when its last list holds.
THEOREM SpecListsRight == Spec => []ListsRight
<1>1. Typed /\ ListsSound => ListsRight
  <2> SUFFICES ASSUME Typed, ListsSound, line # <<>>, line[1].op \in {"none", ";"}
               PROVE  /\ \A i \in DOMAIN line :
                           i < k => (i \in DOMAIN ran <=> \/ i = ListStart(i)
                                                          \/ line[i].op = "&&" /\ Holds(i - 1)
                                                          \/ line[i].op = "||" /\ ~Holds(i - 1))
                      /\ at = "prompt" /\ printed <= MaxIO => (last = 0 <=> Holds(Len(line)))
    BY DEF ListsRight
  <2>1. line[1].op \notin Joins
    BY DEF Joins
  <2>2. DOMAIN line = 1..Len(line)
    BY <2>1, EndOfLine
  <2>3. ASSUME NEW i \in DOMAIN line, i < k
        PROVE  i \in DOMAIN ran <=> \/ i = ListStart(i)
                                    \/ line[i].op = "&&" /\ Holds(i - 1)
                                    \/ line[i].op = "||" /\ ~Holds(i - 1)
    <3>1. i \in DOMAIN ran <=> Due(line, ran, i)
      BY <2>1, <2>2, <2>3 DEF ListsSound
    <3>2. ListStart(i) = StartOf(line, i) /\ Holds(i - 1) = HoldsOf(line, ran, i - 1)
      BY HoldsIs
    <3> QED BY <3>1, <3>2 DEF Due
  <2>4. ASSUME at = "prompt", printed <= MaxIO PROVE last = 0 <=> Holds(Len(line))
    <3>1. last = 0 <=> HoldsOf(line, ran, Len(line))
      BY <2>1, <2>4, EndOfLine
    <3> QED BY <3>1, HoldsIs
  <2> QED BY <2>3, <2>4
<1> QED
  BY <1>1, SpecLists, PTL

\* Whatever call fails and whenever the worker is killed, each file that mv was to move is
\* whole at the source or at the target.
THEOREM SpecMvKeeps == Spec => []MvKeeps
<1>1. Typed /\ MoveSound => MvKeeps
  <2> SUFFICES ASSUME Typed, MoveSound, NEW r \in DOMAIN job.move.held
               PROVE  \E p \in {job.move.from \o r, job.move.to \o r} :
                        IsFile(p) /\ tree[p].data = job.move.held[r]
    BY DEF MvKeeps
  <2>1. job.todo \in Seq(Step)
    BY DEF Typed, JobTyped, Job
  <2>2. Refused(tree, job.todo, job.move) \/ Moving(tree, job.todo, job.move, job.bad)
    BY DEF MoveSound
  <2>3. \/ Whole(tree, job.move.from \o r, job.move.held[r])
        \/ Whole(tree, job.move.to \o r, job.move.held[r])
    BY <2>1, <2>2, MovingKeeps DEF Refused, AtSource
  <2> QED BY <2>3 DEF Whole, IsFile, Exists
<1> QED
  BY <1>1, InitTyped, NextTyped, InitMoves, NextMoves, PTL DEF Spec

=============================================================================
