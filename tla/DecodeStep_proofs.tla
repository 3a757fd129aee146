-------------------------- MODULE DecodeStep_proofs --------------------------
(***************************************************************************)
(* For every model, sampler, prompt and chunk size (DecodeStep):           *)
(*                                                                         *)
(*  - while anything is issued one of the two streams can go on, and the   *)
(*    host never waits for an event that nothing will fire;                *)
(*  - a capture is disturbed only by experts in VRAM that the device does  *)
(*    not drive;                                                           *)
(*  - what is in memory are quantities of the network at positions of the  *)
(*    context, and all that is stored is stored within the context.        *)
(*                                                                         *)
(* The first two are about the order in which programs of any number of layers are  *)
(* issued, so a vocabulary of sequences of operations comes first: Calm,   *)
(* Mild and Sound(ops, E) - each event that ops waits for is of E or fired *)
(* earlier in ops.  Each operator of DecodeProgram and PrefillProgram gets *)
(* a lemma that says which of them its operations are, up to LayersSound   *)
(* and ChunkSound for a token and a chunk.                                 *)
(*                                                                         *)
(* The state keeps a queue per stream, and a queue alone does not tell what*)
(* was issued before what.  DInv says that there is one sequence M, sound  *)
(* after the events already fired, of which the queues are the operations  *)
(* of the one and of the other stream.  Its first operation is the head of *)
(* its queue and can run.  The recorded program, the graph and what is left*)
(* to issue are sound after M, and the events of the copies of a step are  *)
(* known when the next step waits for them.                                *)
(*                                                                         *)
(* For the third each operation is of a form (Typed) that yields a value.  *)
(* Decode steps store one row, of a position of the context.  A chunk      *)
(* stores the rows up to the position that the device finds in a buffer of *)
(* the chunk (Fit): TInv says that it is written before anything is stored *)
(* and never names a position with too few rows before it.                 *)
(***************************************************************************)
EXTENDS DecodeStep, SequenceTheorems, WellFoundedInduction, TLAPS

-----------------------------------------------------------------------------
(* Numbers and sequences.                                                  *)

(* A set of numbers that is not empty has a least element.                 *)
LEMMA LeastNat ==
    ASSUME NEW T, T \subseteq Nat, T # {}
    PROVE  \E x \in T : \A y \in T : x <= y
<1>. DEFINE R == { ss \in Nat \X Nat : ss[1] < ss[2] }
<1>1. IsWellFoundedOn(R, Nat)
  BY NatLessThanWellFounded DEF OpToRel
<1>2. PICK x \in T : \A y \in T : ~(<<y, x>> \in R)
  <2>. HIDE DEF R
  <2>. QED BY <1>1, WFMin
<1>3. ASSUME NEW y \in T PROVE x <= y
  <2>1. <<y, x>> \in Nat \X Nat /\ x \in Nat /\ y \in Nat
    OBVIOUS
  <2>2. ~(y < x)
    BY <1>2, <2>1
  <2>. QED BY <2>1, <2>2
<1>. QED BY <1>3

(* A set of numbers with 0 and the successor of each of its elements has   *)
(* them all.                                                               *)
LEMMA Induction ==
    ASSUME NEW T, 0 \in T, \A n \in Nat : n \in T => n + 1 \in T
    PROVE  Nat \subseteq T
<1>1. SUFFICES ASSUME Nat \ T # {} PROVE FALSE
  OBVIOUS
<1>2. PICK x \in Nat \ T : \A y \in Nat \ T : x <= y
  BY <1>1, LeastNat
<1>3. x - 1 \in Nat /\ x - 1 \in T
  BY <1>2
<1>. QED BY <1>2, <1>3

(* The recursion of FlattenSeq: the first i sequences, one after the       *)
(* other.                                                                  *)
Flattens(f, seqs, n) == f = [i \in 1 .. n |-> IF i = 1 THEN seqs[i] ELSE f[i - 1] \o seqs[i]]

(* The recursion of FlattenSeq has a solution.                             *)
LEMMA FlattenExists ==
    ASSUME NEW S, NEW seqs \in Seq(Seq(S))
    PROVE  \A n \in Nat : n <= Len(seqs) => \E f \in [1 .. n -> Seq(S)] : Flattens(f, seqs, n)
<1>. DEFINE T == {n \in Nat : n <= Len(seqs) => \E f \in [1 .. n -> Seq(S)] : Flattens(f, seqs, n)}
<1>1. 0 \in T
  <2>. DEFINE f == [i \in 1 .. 0 |-> <<>>]
  <2>1. f \in [1 .. 0 -> Seq(S)] /\ Flattens(f, seqs, 0)
    BY DEF Flattens
  <2>. QED BY <2>1
<1>2. ASSUME NEW n \in Nat, n \in T PROVE n + 1 \in T
  <2>. SUFFICES ASSUME n + 1 <= Len(seqs) PROVE \E f \in [1 .. n + 1 -> Seq(S)] : Flattens(f, seqs, n + 1)
    OBVIOUS
  <2>1. PICK f \in [1 .. n -> Seq(S)] : Flattens(f, seqs, n)
    BY <1>2
  <2>. DEFINE g == [i \in 1 .. n + 1 |-> IF i = n + 1 THEN IF i = 1 THEN seqs[i] ELSE f[n] \o seqs[i] ELSE f[i]]
  <2>2. \A i \in 1 .. n + 1 : g[i] \in Seq(S)
    OBVIOUS
  <2>3. ASSUME NEW i \in 1 .. n + 1 PROVE g[i] = IF i = 1 THEN seqs[i] ELSE g[i - 1] \o seqs[i]
    <3>1. CASE i = n + 1
      BY <3>1
    <3>2. CASE i \in 1 .. n
      <4>1. f[i] = IF i = 1 THEN seqs[i] ELSE f[i - 1] \o seqs[i]
        BY <2>1, <3>2 DEF Flattens
      <4>2. g[i] = f[i]
        <5>1. i # n + 1
          BY <3>2
        <5>. QED BY <5>1
      <4>3. ASSUME i # 1 PROVE g[i - 1] = f[i - 1]
        <5>1. i - 1 \in 1 .. n + 1 /\ i - 1 # n + 1
          BY <3>2, <4>3
        <5>. QED BY <5>1
      <4>. HIDE DEF g
      <4>. QED BY <4>1, <4>2, <4>3
    <3>. QED BY <3>1, <3>2
  <2>4. g \in [1 .. n + 1 -> Seq(S)] /\ Flattens(g, seqs, n + 1)
    BY <2>2, <2>3 DEF Flattens
  <2>. QED BY <2>4
<1>. HIDE DEF T
<1>3. Nat \subseteq T
  BY <1>1, <1>2, Induction
<1>. QED BY <1>3 DEF T

(* Its value at i.                                                         *)
LEMMA FlattensAt ==
    ASSUME NEW f, NEW seqs, NEW n \in Nat, Flattens(f, seqs, n), NEW i \in 1 .. n
    PROVE  f[i] = IF i = 1 THEN seqs[i] ELSE f[i - 1] \o seqs[i]
BY DEF Flattens

(* f is the flattening of the first n sequences, n by n.                   *)
Unfolds(f, seqs, n) == \A i \in 1 .. n : f[i] = IF i = 1 THEN seqs[i] ELSE f[i - 1] \o seqs[i]

(* Its first value.                                                        *)
LEMMA UnfoldsFirst ==
    ASSUME NEW f, NEW seqs, NEW n \in Nat, Unfolds(f, seqs, n), n # 0
    PROVE  f[1] = seqs[1]
BY DEF Unfolds

(* The next one.                                                           *)
LEMMA UnfoldsNext ==
    ASSUME NEW f, NEW seqs, NEW n \in Nat, Unfolds(f, seqs, n), NEW i \in Nat, i # 0, i + 1 <= n
    PROVE  f[i + 1] = f[i] \o seqs[i + 1]
<1>1. i + 1 \in 1 .. n /\ i + 1 # 1 /\ i + 1 - 1 = i
  OBVIOUS
<1>2. \A j \in 1 .. n : j # 1 => f[j] = f[j - 1] \o seqs[j]
  BY DEF Unfolds
<1>. DEFINE j == i + 1
<1>3. j \in 1 .. n /\ j # 1 /\ j - 1 = i
  BY <1>1
<1>. HIDE DEF j
<1>4. f[j] = f[j - 1] \o seqs[j]
  BY <1>2, <1>3
<1>. QED BY <1>3, <1>4 DEF j

(* FlattenSeq is the last value.                                           *)
LEMMA FlattenUnfolds ==
    ASSUME NEW S, NEW seqs \in Seq(Seq(S)), seqs # <<>>
    PROVE  \E f \in [1 .. Len(seqs) -> Seq(S)] :
              Unfolds(f, seqs, Len(seqs)) /\ FlattenSeq(seqs) = f[Len(seqs)]
<1>. DEFINE n == Len(seqs)
            f == CHOOSE f : Flattens(f, seqs, n)
<1>1. FlattenSeq(seqs) = f[n] /\ n \in Nat
  BY DEF FlattenSeq, Flattens
<1>3. PICK g : g \in [1 .. n -> Seq(S)] /\ Flattens(g, seqs, n)
  BY FlattenExists
<1>2. Flattens(f, seqs, n)
  BY <1>3
<1>. HIDE DEF f, n
<1>7. \A i \in 1 .. n : g[i] = IF i = 1 THEN seqs[i] ELSE g[i - 1] \o seqs[i]
  BY <1>1, <1>3, FlattensAt
<1>4. \A i \in Nat : i \in 1 .. n => f[i] = g[i]
  <2>. DEFINE T == {i \in Nat : i \in 1 .. n => f[i] = g[i]}
  <2>1. 0 \in T
    OBVIOUS
  <2>2. ASSUME NEW i \in Nat, i \in T PROVE i + 1 \in T
    <3>. SUFFICES ASSUME i + 1 \in 1 .. n PROVE f[i + 1] = g[i + 1]
      OBVIOUS
    <3>1. f[i + 1] = IF i + 1 = 1 THEN seqs[i + 1] ELSE f[i + 1 - 1] \o seqs[i + 1]
      BY <1>1, <1>2, FlattensAt
    <3>2. g[i + 1] = IF i + 1 = 1 THEN seqs[i + 1] ELSE g[i + 1 - 1] \o seqs[i + 1]
      BY <1>7
    <3>3. i + 1 # 1 => f[i + 1 - 1] = g[i + 1 - 1]
      BY <1>1, <2>2
    <3>. QED BY <3>1, <3>2, <3>3
  <2>. HIDE DEF T
  <2>3. Nat \subseteq T
    BY <2>1, <2>2, Induction
  <2>. QED BY <2>3 DEF T
<1>5. f \in [1 .. n -> Seq(S)]
  <2>1. ASSUME NEW i \in 1 .. n PROVE f[i] \in Seq(S)
    <3>1. f[i] = g[i]
      BY <1>1, <1>4
    <3>. QED BY <1>3, <3>1
  <2>2. f = [i \in 1 .. n |-> f[i]]
    BY <1>2 DEF Flattens
  <2>. QED BY <2>1, <2>2
<1>6. \A i \in 1 .. n : f[i] = IF i = 1 THEN seqs[i] ELSE f[i - 1] \o seqs[i]
  BY <1>1, <1>2, FlattensAt
<1>. QED BY <1>1, <1>5, <1>6 DEF n, Unfolds

(* FlattenSeq of nothing.                                                  *)
LEMMA FlattenEmpty == FlattenSeq(<<>>) = <<>>
BY DEF FlattenSeq

(* FlattenSeq makes a sequence.                                            *)
LEMMA FlattenIs ==
    ASSUME NEW S, NEW seqs \in Seq(Seq(S))
    PROVE  FlattenSeq(seqs) \in Seq(S)
<1>1. CASE seqs = <<>>
  <2>1. <<>> \in Seq(S)
    OBVIOUS
  <2>. QED BY <1>1, <2>1, FlattenEmpty, Zenon
<1>2. CASE seqs # <<>>
  <2>. DEFINE n == Len(seqs)
  <2>1. PICK f : f \in [1 .. n -> Seq(S)] /\ Unfolds(f, seqs, n) /\ FlattenSeq(seqs) = f[n]
    BY <1>2, FlattenUnfolds
  <2>2. n \in 1 .. n
    BY <1>2
  <2>. HIDE DEF n
  <2>3. f[n] \in Seq(S)
    BY <2>1, <2>2
  <2>. QED BY <2>1, <2>3, Zenon
<1>. QED BY <1>1, <1>2

(* A sequence more is added at the end.                                    *)
LEMMA FlattenAppend ==
    ASSUME NEW S, NEW g \in Seq(Seq(S)), NEW t \in Seq(S)
    PROVE  FlattenSeq(Append(g, t)) = FlattenSeq(g) \o t
<1>. DEFINE x == Append(g, t)
            n == Len(g)
            m == Len(x)
<1>1. /\ x \in Seq(Seq(S)) /\ x # <<>> /\ m = n + 1 /\ n \in Nat
      /\ \A i \in 1 .. n : x[i] = g[i]
      /\ x[n + 1] = t
  BY AppendProperties
<1>. HIDE DEF x
<1>2. PICK h \in [1 .. m -> Seq(S)] : Unfolds(h, x, m) /\ FlattenSeq(x) = h[m]
  BY <1>1, FlattenUnfolds
<1>. HIDE DEF m
<1>3. CASE g = <<>>
  <2>1. n = 0 /\ m = 1
    BY <1>1, <1>3
  <2>2. h[1] = x[1]
    BY <1>2, <2>1, UnfoldsFirst
  <2>3. <<>> \o t = t
    BY ConcatEmptySeq
  <2>. QED BY <1>1, <1>2, <1>3, <2>1, <2>2, <2>3, FlattenEmpty DEF x
<1>4. CASE g # <<>>
  <2>1. PICK f \in [1 .. n -> Seq(S)] : Unfolds(f, g, n) /\ FlattenSeq(g) = f[n]
    BY <1>4, FlattenUnfolds
  <2>0. n # 0
    BY <1>4
  <2>. HIDE DEF n
  <2>. DEFINE T == {i \in Nat : i \in 1 .. n => h[i] = f[i]}
  <2>2. 0 \in T
    OBVIOUS
  <2>3. ASSUME NEW i \in Nat, i \in T PROVE i + 1 \in T
    <3>. SUFFICES ASSUME i + 1 \in 1 .. n PROVE h[i + 1] = f[i + 1]
      OBVIOUS
    <3>1. x[i + 1] = g[i + 1] /\ i + 1 <= n /\ i + 1 <= m /\ m \in Nat
      BY <1>1
    <3>2. CASE i = 0
      <4>1. h[1] = x[1] /\ f[1] = g[1]
        BY <1>1, <1>2, <2>0, <2>1, UnfoldsFirst
      <4>. QED BY <3>1, <3>2, <4>1
    <3>3. CASE i # 0
      <4>1. h[i + 1] = h[i] \o x[i + 1]
        BY <1>2, <3>1, <3>3, UnfoldsNext
      <4>2. f[i + 1] = f[i] \o g[i + 1]
        BY <1>1, <2>1, <3>1, <3>3, UnfoldsNext
      <4>3. h[i] = f[i]
        BY <1>1, <2>3, <3>1, <3>3
      <4>. QED BY <3>1, <4>1, <4>2, <4>3
    <3>. QED BY <3>2, <3>3
  <2>. HIDE DEF T
  <2>4. n \in T
    BY <1>1, <2>2, <2>3, Induction
  <2>5. h[n] = f[n]
    <3>1. n \in 1 .. n
      BY <1>1, <2>0
    <3>. QED BY <2>4, <3>1 DEF T
  <2>6. h[n + 1] = h[n] \o x[n + 1]
    <3>1. n + 1 <= m /\ m \in Nat
      BY <1>1
    <3>. QED BY <1>1, <1>2, <2>0, <3>1, UnfoldsNext
  <2>. QED BY <1>1, <1>2, <2>1, <2>5, <2>6 DEF x
<1>. QED BY <1>3, <1>4

-----------------------------------------------------------------------------
(* Operations, and sequences of them.                                      *)

Streams  == {"compute", "transfer"}
OnStream == {"kernel", "put", "upload", "zero", "attend", "store", "load", "save", "record", "wait"}
OfHosts  == {"return", "download", "experts", "read", "sync", "error"}

(* An operation of a stream or of the host.                                *)
Good(op) == /\ {"kind", "stream", "name", "id"} \subseteq DOMAIN op
            /\ \/ op.stream \in Streams /\ op.kind \in OnStream
               \/ op.stream = "host" /\ op.kind \in OfHosts

(* None of them waits for an event (Mild), nor does it need the host or    *)
(* end the call (Calm).                                                    *)
Awaiting    == {"wait", "read"}
Interfering == {"wait", "read", "download", "return", "error"}
Gentle(op)  == Good(op) /\ op.kind \notin Awaiting
Quiet(op)   == Good(op) /\ op.kind \notin Interfering

Program(ops) == \E S : ops \in Seq(S) /\ \A x \in S : Good(x)
Mild(ops)    == \E S : ops \in Seq(S) /\ \A x \in S : Gentle(x)
Calm(ops)    == \E S : ops \in Seq(S) /\ \A x \in S : Quiet(x)

(* The events that ops fires.                                              *)
Events(ops) == {ops[i].id : i \in {j \in DOMAIN ops : Fires(ops[j])}}

(* Each event that ops waits for is of E or fired by ops before.           *)
Ready(ops, E, i) == ops[i].kind \in Awaiting =>
    ops[i].id \in E \/ \E j \in DOMAIN ops : j < i /\ Fires(ops[j]) /\ ops[j].id = ops[i].id
Sound(ops, E) == Program(ops) /\ \A i \in DOMAIN ops : Ready(ops, E, i)

(* What a program is.                                                      *)
LEMMA ProgramIs ==
    ASSUME NEW ops, Program(ops)
    PROVE  /\ Len(ops) \in Nat
           /\ DOMAIN ops = 1 .. Len(ops)
           /\ \A i \in 1 .. Len(ops) : Good(ops[i])
<1>1. PICK S : ops \in Seq(S) /\ \A x \in S : Good(x)
  BY DEF Program
<1>2. Len(ops) \in Nat /\ DOMAIN ops = 1 .. Len(ops)
  BY <1>1
<1>3. ASSUME NEW i \in 1 .. Len(ops) PROVE Good(ops[i])
  BY <1>1, <1>3
<1>. QED BY <1>2, <1>3

(* What is calm is mild ...                                                *)
LEMMA CalmIsMild ==
    ASSUME NEW ops, Calm(ops)
    PROVE  Mild(ops)
<1>1. PICK S : ops \in Seq(S) /\ \A x \in S : Quiet(x)
  BY DEF Calm
<1>2. \A x \in S : Gentle(x)
  BY <1>1 DEF Quiet, Gentle, Awaiting, Interfering
<1>. QED BY <1>1, <1>2 DEF Mild

(* ... and a program ...                                                   *)
LEMMA MildIsProgram ==
    ASSUME NEW ops, Mild(ops)
    PROVE  Program(ops)
<1>1. PICK S : ops \in Seq(S) /\ \A x \in S : Gentle(x)
  BY DEF Mild
<1>2. \A x \in S : Good(x)
  BY <1>1 DEF Gentle
<1>. QED BY <1>1, <1>2 DEF Program

(* ... that can be issued whatever has been fired.                         *)
LEMMA MildIsSound ==
    ASSUME NEW ops, NEW E, Mild(ops)
    PROVE  Sound(ops, E)
<1>1. PICK S : ops \in Seq(S) /\ \A x \in S : Gentle(x)
  BY DEF Mild
<1>2. ASSUME NEW i \in DOMAIN ops PROVE Ready(ops, E, i)
  <2>1. ops[i] \in S
    BY <1>1, <1>2
  <2>. QED BY <1>1, <2>1 DEF Ready, Gentle
<1>. QED BY <1>2, MildIsProgram DEF Sound

(* So can what is calm.                                                    *)
LEMMA CalmIsSound ==
    ASSUME NEW ops, NEW E, Calm(ops)
    PROVE  Sound(ops, E)
BY CalmIsMild, MildIsSound

(* Sequences that are written out.                                         *)
LEMMA CalmNone == Calm(<<>>)
<1>. DEFINE s == <<>>
            S == {}
<1>1. s \in Seq(S) /\ \A x \in S : Quiet(x)
  OBVIOUS
<1>. HIDE DEF s, S
<1>2. Calm(s)
  BY <1>1 DEF Calm
<1>. QED BY <1>2 DEF s

(* A calm sequence of operations that are, one by one: of one,             *)
LEMMA CalmOne ==
    ASSUME NEW a, Quiet(a)
    PROVE  Calm(<<a>>)
<1>. DEFINE s == <<a>>
            S == {a}
<1>1. s \in Seq(S) /\ \A x \in S : Quiet(x)
  OBVIOUS
<1>. HIDE DEF s, S
<1>2. Calm(s)
  BY <1>1 DEF Calm
<1>. QED BY <1>2 DEF s

(* of two,                                                                 *)
LEMMA CalmTwo ==
    ASSUME NEW a, NEW b, Quiet(a), Quiet(b)
    PROVE  Calm(<<a, b>>)
<1>. DEFINE s == <<a, b>>
            S == {a, b}
<1>1. s \in Seq(S) /\ \A x \in S : Quiet(x)
  OBVIOUS
<1>. HIDE DEF s, S
<1>2. Calm(s)
  BY <1>1 DEF Calm
<1>. QED BY <1>2 DEF s

(* of three,                                                               *)
LEMMA CalmThree ==
    ASSUME NEW a, NEW b, NEW c, Quiet(a), Quiet(b), Quiet(c)
    PROVE  Calm(<<a, b, c>>)
<1>. DEFINE s == <<a, b, c>>
            S == {a, b, c}
<1>1. s \in Seq(S) /\ \A x \in S : Quiet(x)
  OBVIOUS
<1>. HIDE DEF s, S
<1>2. Calm(s)
  BY <1>1 DEF Calm
<1>. QED BY <1>2 DEF s

(* of four,                                                                *)
LEMMA CalmFour ==
    ASSUME NEW a, NEW b, NEW c, NEW d, Quiet(a), Quiet(b), Quiet(c), Quiet(d)
    PROVE  Calm(<<a, b, c, d>>)
<1>. DEFINE s == <<a, b, c, d>>
            S == {a, b, c, d}
<1>1. s \in Seq(S) /\ \A x \in S : Quiet(x)
  OBVIOUS
<1>. HIDE DEF s, S
<1>2. Calm(s)
  BY <1>1 DEF Calm
<1>. QED BY <1>2 DEF s

(* of five,                                                                *)
LEMMA CalmFive ==
    ASSUME NEW a, NEW b, NEW c, NEW d, NEW e, Quiet(a), Quiet(b), Quiet(c), Quiet(d), Quiet(e)
    PROVE  Calm(<<a, b, c, d, e>>)
<1>. DEFINE s == <<a, b, c, d, e>>
            S == {a, b, c, d, e}
<1>1. s \in Seq(S) /\ \A x \in S : Quiet(x)
  OBVIOUS
<1>. HIDE DEF s, S
<1>2. Calm(s)
  BY <1>1 DEF Calm
<1>. QED BY <1>2 DEF s

(* and of seven.                                                           *)
LEMMA CalmSeven ==
    ASSUME NEW a, NEW b, NEW c, NEW d, NEW e, NEW f, NEW g,
           Quiet(a), Quiet(b), Quiet(c), Quiet(d), Quiet(e), Quiet(f), Quiet(g)
    PROVE  Calm(<<a, b, c, d, e, f, g>>)
<1>. DEFINE s == <<a, b, c, d, e, f, g>>
            S == {a, b, c, d, e, f, g}
<1>1. s \in Seq(S) /\ \A x \in S : Quiet(x)
  OBVIOUS
<1>. HIDE DEF s, S
<1>2. Calm(s)
  BY <1>1 DEF Calm
<1>. QED BY <1>2 DEF s

(* The same of a mild one ...                                              *)
LEMMA MildOne ==
    ASSUME NEW a, Gentle(a)
    PROVE  Mild(<<a>>)
<1>. DEFINE s == <<a>>
            S == {a}
<1>1. s \in Seq(S) /\ \A x \in S : Gentle(x)
  OBVIOUS
<1>. HIDE DEF s, S
<1>2. Mild(s)
  BY <1>1 DEF Mild
<1>. QED BY <1>2 DEF s

(* ... and of a program.                                                   *)
LEMMA ProgramOne ==
    ASSUME NEW a, Good(a)
    PROVE  Program(<<a>>)
<1>. DEFINE s == <<a>>
            S == {a}
<1>1. s \in Seq(S) /\ \A x \in S : Good(x)
  OBVIOUS
<1>. HIDE DEF s, S
<1>2. Program(s)
  BY <1>1 DEF Program
<1>. QED BY <1>2 DEF s

(* One sequence after another.                                             *)
LEMMA CalmConcat ==
    ASSUME NEW a, NEW b, Calm(a), Calm(b)
    PROVE  Calm(a \o b)
<1>1. PICK S : a \in Seq(S) /\ \A x \in S : Quiet(x)
  BY DEF Calm
<1>2. PICK T : b \in Seq(T) /\ \A x \in T : Quiet(x)
  BY DEF Calm
<1>3. a \in Seq(S \cup T) /\ b \in Seq(S \cup T)
  BY <1>1, <1>2, SeqMonotonic
<1>4. a \o b \in Seq(S \cup T)
  BY <1>3, ConcatProperties
<1>. QED BY <1>1, <1>2, <1>4 DEF Calm

(* One mild sequence after another ...                                     *)
LEMMA MildConcat ==
    ASSUME NEW a, NEW b, Mild(a), Mild(b)
    PROVE  Mild(a \o b)
<1>1. PICK S : a \in Seq(S) /\ \A x \in S : Gentle(x)
  BY DEF Mild
<1>2. PICK T : b \in Seq(T) /\ \A x \in T : Gentle(x)
  BY DEF Mild
<1>3. a \in Seq(S \cup T) /\ b \in Seq(S \cup T)
  BY <1>1, <1>2, SeqMonotonic
<1>4. a \o b \in Seq(S \cup T)
  BY <1>3, ConcatProperties
<1>. QED BY <1>1, <1>2, <1>4 DEF Mild

(* ... and one program after another, operation by operation.              *)
LEMMA ProgramConcat ==
    ASSUME NEW a, NEW b, Program(a), Program(b)
    PROVE  /\ Program(a \o b)
           /\ Len(a) \in Nat /\ Len(b) \in Nat /\ Len(a \o b) = Len(a) + Len(b)
           /\ \A i \in 1 .. Len(a) : (a \o b)[i] = a[i]
           /\ \A i \in 1 .. Len(b) : (a \o b)[Len(a) + i] = b[i]
<1>1. PICK S : a \in Seq(S) /\ \A x \in S : Good(x)
  BY DEF Program
<1>2. PICK T : b \in Seq(T) /\ \A x \in T : Good(x)
  BY DEF Program
<1>3. a \in Seq(S \cup T) /\ b \in Seq(S \cup T)
  BY <1>1, <1>2, SeqMonotonic
<1>. DEFINE c == a \o b
<1>4. /\ c \in Seq(S \cup T) /\ Len(c) = Len(a) + Len(b)
      /\ \A i \in 1 .. Len(a) + Len(b) : c[i] = IF i <= Len(a) THEN a[i] ELSE b[i - Len(a)]
  BY <1>3, ConcatProperties
<1>5. Len(a) \in Nat /\ Len(b) \in Nat
  BY <1>3
<1>. HIDE DEF c
<1>6. Program(c)
  BY <1>1, <1>2, <1>4 DEF Program
<1>7. \A i \in 1 .. Len(a) : c[i] = a[i]
  BY <1>4, <1>5
<1>8. ASSUME NEW i \in 1 .. Len(b) PROVE c[Len(a) + i] = b[i]
  <2>1. Len(a) + i \in 1 .. Len(a) + Len(b) /\ ~(Len(a) + i <= Len(a)) /\ Len(a) + i - Len(a) = i
    BY <1>5
  <2>. QED BY <1>4, <2>1
<1>. QED BY <1>4, <1>5, <1>6, <1>7, <1>8 DEF c

(* A calm sequence or nothing ...                                          *)
LEMMA CalmWhen ==
    ASSUME NEW c, NEW a, Calm(a)
    PROVE  Calm(When(c, a))
BY CalmNone DEF When

(* ... and a mild one or nothing.                                          *)
LEMMA MildWhen ==
    ASSUME NEW c, NEW a, Mild(a)
    PROVE  Mild(When(c, a))
BY CalmNone, CalmIsMild DEF When

-----------------------------------------------------------------------------
(* Events, and waits for them.                                             *)

(* The event of an operation is one of the program ...                     *)
LEMMA EventIs ==
    ASSUME NEW ops, NEW i \in DOMAIN ops, Fires(ops[i])
    PROVE  ops[i].id \in Events(ops)
BY DEF Events

(* ... which has no others.                                                *)
LEMMA EventFrom ==
    ASSUME NEW ops, NEW e \in Events(ops)
    PROVE  \E i \in DOMAIN ops : Fires(ops[i]) /\ ops[i].id = e
BY DEF Events

(* The events of nothing,                                                  *)
LEMMA EventsNone == Events(<<>>) = {}
<1>. DEFINE s == <<>>
<1>1. DOMAIN s = {}
  OBVIOUS
<1>. HIDE DEF s
<1>2. Events(s) = {}
  BY <1>1 DEF Events
<1>. QED BY <1>2 DEF s

(* of an operation,                                                        *)
LEMMA EventsOne ==
    ASSUME NEW a
    PROVE  Events(<<a>>) = IF Fires(a) THEN {a.id} ELSE {}
<1>. DEFINE s == <<a>>
<1>1. DOMAIN s = {1} /\ s[1] = a
  OBVIOUS
<1>. HIDE DEF s
<1>2. Events(s) = IF Fires(a) THEN {a.id} ELSE {}
  BY <1>1 DEF Events
<1>. QED BY <1>2 DEF s

(* and of one program after another.                                       *)
LEMMA EventsConcat ==
    ASSUME NEW a, NEW b, Program(a), Program(b)
    PROVE  Events(a \o b) = Events(a) \cup Events(b)
<1>. DEFINE c == a \o b
<1>1. /\ Program(c)
      /\ Len(a) \in Nat /\ Len(b) \in Nat /\ Len(c) = Len(a) + Len(b)
      /\ \A i \in 1 .. Len(a) : c[i] = a[i]
      /\ \A i \in 1 .. Len(b) : c[Len(a) + i] = b[i]
  BY ProgramConcat
<1>. HIDE DEF c
<1>2. DOMAIN a = 1 .. Len(a) /\ DOMAIN b = 1 .. Len(b) /\ DOMAIN c = 1 .. Len(a) + Len(b)
  BY <1>1, ProgramIs
<1>3. ASSUME NEW e \in Events(a) PROVE e \in Events(c)
  <2>1. PICK i \in DOMAIN a : Fires(a[i]) /\ a[i].id = e
    BY <1>3, EventFrom
  <2>2. i \in DOMAIN c /\ c[i] = a[i]
    BY <1>1, <1>2
  <2>. QED BY <2>1, <2>2, EventIs
<1>4. ASSUME NEW e \in Events(b) PROVE e \in Events(c)
  <2>1. PICK i \in DOMAIN b : Fires(b[i]) /\ b[i].id = e
    BY <1>4, EventFrom
  <2>2. Len(a) + i \in DOMAIN c /\ c[Len(a) + i] = b[i]
    BY <1>1, <1>2
  <2>. QED BY <2>1, <2>2, EventIs
<1>5. ASSUME NEW e \in Events(c) PROVE e \in Events(a) \cup Events(b)
  <2>1. PICK i \in DOMAIN c : Fires(c[i]) /\ c[i].id = e
    BY <1>5, EventFrom
  <2>2. CASE i \in DOMAIN a
    <3>1. c[i] = a[i]
      BY <1>1, <1>2, <2>2
    <3>. QED BY <2>1, <2>2, <3>1, EventIs
  <2>3. CASE i \notin DOMAIN a
    <3>. DEFINE j == i - Len(a)
    <3>1. j \in 1 .. Len(b) /\ i = Len(a) + j
      BY <1>1, <1>2, <2>3
    <3>. HIDE DEF j
    <3>2. j \in DOMAIN b /\ c[i] = b[j]
      BY <1>1, <1>2, <3>1
    <3>. QED BY <2>1, <3>2, EventIs
  <2>. QED BY <2>2, <2>3
<1>. QED BY <1>3, <1>4, <1>5 DEF c

(* A sound program stays so when more events are known.                    *)
LEMMA SoundMore ==
    ASSUME NEW ops, NEW E, NEW L, Sound(ops, E), E \subseteq L
    PROVE  Sound(ops, L)
BY DEF Sound, Ready

(* A sound sequence is a program.                                          *)
LEMMA SoundIsProgram ==
    ASSUME NEW ops, NEW E, Sound(ops, E)
    PROVE  Program(ops)
BY DEF Sound

(* Nothing is sound.                                                       *)
LEMMA SoundNone ==
    ASSUME NEW E
    PROVE  Sound(<<>>, E)
BY CalmNone, CalmIsSound

(* An operation is sound if its event is known.                            *)
LEMMA SoundOne ==
    ASSUME NEW a, NEW E, Good(a), a.kind \in Awaiting => a.id \in E
    PROVE  Sound(<<a>>, E)
<1>. DEFINE s == <<a>>
<1>1. DOMAIN s = {1} /\ s[1] = a
  OBVIOUS
<1>2. Program(s)
  BY ProgramOne
<1>. HIDE DEF s
<1>3. Sound(s, E)
  BY <1>1, <1>2 DEF Sound, Ready
<1>. QED BY <1>3 DEF s

(* One sound sequence after another, which may wait for events of it.      *)
LEMMA SoundConcat ==
    ASSUME NEW a, NEW b, NEW E, Sound(a, E), Sound(b, E \cup Events(a))
    PROVE  Sound(a \o b, E)
<1>. DEFINE c == a \o b
            n == Len(a)
<1>0. Program(a) /\ Program(b)
  BY DEF Sound
<1>1. /\ Program(c)
      /\ n \in Nat /\ Len(b) \in Nat /\ Len(c) = n + Len(b)
      /\ \A i \in 1 .. n : c[i] = a[i]
      /\ \A i \in 1 .. Len(b) : c[n + i] = b[i]
  BY <1>0, ProgramConcat
<1>2. DOMAIN a = 1 .. n /\ DOMAIN b = 1 .. Len(b) /\ DOMAIN c = 1 .. n + Len(b)
  BY <1>0, <1>1, ProgramIs
<1>. HIDE DEF c, n
<1>3. ASSUME NEW i \in DOMAIN a PROVE Ready(c, E, i)
  <2>1. c[i] = a[i] /\ Ready(a, E, i)
    BY <1>1, <1>2 DEF Sound
  <2>2. \A j \in DOMAIN a : j \in DOMAIN c /\ c[j] = a[j]
    BY <1>1, <1>2
  <2>. QED BY <2>1, <2>2 DEF Ready
<1>4. ASSUME NEW i \in DOMAIN b PROVE Ready(c, E, n + i)
  <2>. SUFFICES ASSUME c[n + i].kind \in Awaiting
                PROVE  c[n + i].id \in E \/ \E j \in DOMAIN c : j < n + i /\ Fires(c[j]) /\ c[j].id = c[n + i].id
    BY DEF Ready
  <2>1. c[n + i] = b[i] /\ Ready(b, E \cup Events(a), i)
    BY <1>1, <1>2 DEF Sound
  <2>2. CASE b[i].id \in E
    BY <2>1, <2>2
  <2>3. CASE b[i].id \in Events(a)
    <3>1. PICK j \in DOMAIN a : Fires(a[j]) /\ a[j].id = b[i].id
      BY <2>3, EventFrom
    <3>2. j \in DOMAIN c /\ c[j] = a[j] /\ j < n + i
      BY <1>1, <1>2
    <3>. QED BY <2>1, <3>1, <3>2
  <2>4. CASE \E j \in DOMAIN b : j < i /\ Fires(b[j]) /\ b[j].id = b[i].id
    <3>1. PICK j \in DOMAIN b : j < i /\ Fires(b[j]) /\ b[j].id = b[i].id
      BY <2>4
    <3>2. n + j \in DOMAIN c /\ c[n + j] = b[j] /\ n + j < n + i
      BY <1>1, <1>2, <3>1
    <3>. QED BY <2>1, <3>1, <3>2
  <2>. QED BY <2>1, <2>2, <2>3, <2>4 DEF Ready
<1>5. ASSUME NEW i \in DOMAIN c PROVE Ready(c, E, i)
  <2>1. CASE i \in DOMAIN a
    BY <1>3, <2>1
  <2>2. CASE i \notin DOMAIN a
    <3>. DEFINE j == i - n
    <3>1. j \in DOMAIN b /\ i = n + j
      BY <1>1, <1>2, <2>2
    <3>. HIDE DEF j
    <3>. QED BY <1>4, <3>1
  <2>. QED BY <2>1, <2>2
<1>. QED BY <1>1, <1>5 DEF c, Sound

(* A sound sequence and a calm one ...                                     *)
LEMMA SoundThenCalm ==
    ASSUME NEW a, NEW b, NEW E, Sound(a, E), Calm(b)
    PROVE  Sound(a \o b, E)
BY CalmIsSound, SoundConcat

(* ... or a mild one after it.                                             *)
LEMMA SoundThenMild ==
    ASSUME NEW a, NEW b, NEW E, Sound(a, E), Mild(b)
    PROVE  Sound(a \o b, E)
BY MildIsSound, SoundConcat

(* The first and the second part of a sound program.                       *)
LEMMA SoundParts ==
    ASSUME NEW a, NEW b, NEW E, Program(a), Program(b), Sound(a \o b, E)
    PROVE  Sound(a, E) /\ Sound(b, E \cup Events(a))
<1>. DEFINE c == a \o b
            n == Len(a)
<1>1. /\ Program(c)
      /\ n \in Nat /\ Len(b) \in Nat /\ Len(c) = n + Len(b)
      /\ \A i \in 1 .. n : c[i] = a[i]
      /\ \A i \in 1 .. Len(b) : c[n + i] = b[i]
  BY ProgramConcat
<1>2. DOMAIN a = 1 .. n /\ DOMAIN b = 1 .. Len(b) /\ DOMAIN c = 1 .. n + Len(b)
  BY <1>1, ProgramIs
<1>0. Sound(c, E)
  OBVIOUS
<1>. HIDE DEF c, n
<1>3. ASSUME NEW i \in DOMAIN a PROVE Ready(a, E, i)
  <2>. SUFFICES ASSUME a[i].kind \in Awaiting, a[i].id \notin E
                PROVE  \E j \in DOMAIN a : j < i /\ Fires(a[j]) /\ a[j].id = a[i].id
    BY DEF Ready
  <2>1. i \in DOMAIN c /\ c[i] = a[i]
    BY <1>1, <1>2
  <2>2. PICK j \in DOMAIN c : j < i /\ Fires(c[j]) /\ c[j].id = a[i].id
    BY <1>0, <2>1 DEF Sound, Ready
  <2>3. j \in DOMAIN a
    BY <1>1, <1>2, <2>2
  <2>4. c[j] = a[j]
    BY <1>1, <1>2, <2>3
  <2>. QED BY <2>2, <2>3, <2>4
<1>4. ASSUME NEW i \in DOMAIN b PROVE Ready(b, E \cup Events(a), i)
  <2>. SUFFICES ASSUME b[i].kind \in Awaiting, b[i].id \notin E
                PROVE  b[i].id \in Events(a) \/ \E j \in DOMAIN b : j < i /\ Fires(b[j]) /\ b[j].id = b[i].id
    BY DEF Ready
  <2>1. n + i \in DOMAIN c /\ c[n + i] = b[i]
    BY <1>1, <1>2
  <2>2. PICK j \in DOMAIN c : j < n + i /\ Fires(c[j]) /\ c[j].id = b[i].id
    BY <1>0, <2>1 DEF Sound, Ready
  <2>3. CASE j \in DOMAIN a
    <3>1. c[j] = a[j]
      BY <1>1, <1>2, <2>3
    <3>2. a[j].id \in Events(a)
      BY <2>2, <2>3, <3>1, EventIs
    <3>. QED BY <2>2, <3>1, <3>2
  <2>4. CASE j \notin DOMAIN a
    <3>. DEFINE k == j - n
    <3>1. k \in DOMAIN b /\ j = n + k /\ k < i
      BY <1>1, <1>2, <2>2, <2>4
    <3>. HIDE DEF k
    <3>2. c[j] = b[k]
      BY <1>1, <1>2, <3>1
    <3>. QED BY <2>2, <3>1, <3>2
  <2>. QED BY <2>3, <2>4
<1>. QED BY <1>3, <1>4 DEF Sound

(* A sound program, each operation of which is changed in such a way that  *)
(* it is still one of its kind and with its event.                         *)
Alike(b, a) == Good(b) /\ b.kind = a.kind /\ b.id = a.id /\ b.stream = a.stream

(* A sequence is as sound as one that is alike operation by operation ...  *)
LEMMA SoundAlike ==
    ASSUME NEW a, NEW b, NEW E, Sound(a, E), b = [i \in DOMAIN a |-> b[i]],
           \A i \in DOMAIN a : Alike(b[i], a[i])
    PROVE  Sound(b, E) /\ Events(b) = Events(a)
<1>1. Len(a) \in Nat /\ DOMAIN a = 1 .. Len(a) /\ DOMAIN b = DOMAIN a
  BY ProgramIs DEF Sound
<1>2. Program(b)
  <2>. DEFINE S == {b[i] : i \in 1 .. Len(a)}
  <2>1. b \in [1 .. Len(a) -> S]
    BY <1>1
  <2>2. \A x \in S : Good(x)
    BY <1>1 DEF Alike
  <2>. HIDE DEF S
  <2>3. b \in Seq(S)
    BY <1>1, <2>1
  <2>. QED BY <2>2, <2>3 DEF Program
<1>3. \A i \in DOMAIN a : Fires(b[i]) = Fires(a[i])
  BY DEF Alike, Fires
<1>4. Events(b) = Events(a)
  <2>1. ASSUME NEW e \in Events(a) PROVE e \in Events(b)
    <3>1. PICK i \in DOMAIN a : Fires(a[i]) /\ a[i].id = e
      BY <2>1, EventFrom
    <3>. QED BY <1>1, <1>3, <3>1, EventIs DEF Alike
  <2>2. ASSUME NEW e \in Events(b) PROVE e \in Events(a)
    <3>1. PICK i \in DOMAIN b : Fires(b[i]) /\ b[i].id = e
      BY <2>2, EventFrom
    <3>. QED BY <1>1, <1>3, <3>1, EventIs DEF Alike
  <2>. QED BY <2>1, <2>2
<1>5. ASSUME NEW i \in DOMAIN b PROVE Ready(b, E, i)
  <2>1. Ready(a, E, i)
    BY <1>1 DEF Sound
  <2>. QED BY <1>1, <1>3, <2>1 DEF Ready, Alike
<1>. QED BY <1>2, <1>4, <1>5 DEF Sound

(* ... and as calm.                                                        *)
LEMMA CalmAlike ==
    ASSUME NEW a, NEW b, Calm(a), b = [i \in DOMAIN a |-> b[i]], \A i \in DOMAIN a : Alike(b[i], a[i])
    PROVE  Calm(b)
<1>0. PICK S : a \in Seq(S) /\ \A x \in S : Quiet(x)
  BY DEF Calm
<1>1. Len(a) \in Nat /\ DOMAIN a = 1 .. Len(a)
  BY <1>0
<1>. DEFINE T == {b[i] : i \in 1 .. Len(a)}
<1>2. b \in [1 .. Len(a) -> T]
  BY <1>1
<1>3. ASSUME NEW i \in DOMAIN a PROVE Quiet(b[i])
  <2>1. a[i] \in S
    BY <1>0
  <2>. QED BY <1>0, <2>1 DEF Alike, Quiet
<1>4. \A x \in T : Quiet(x)
  BY <1>1, <1>3
<1>. HIDE DEF T
<1>5. b \in Seq(T)
  BY <1>1, <1>2
<1>. QED BY <1>4, <1>5 DEF Calm

(* Many sequences, one after the other.                                    *)
LEMMA CalmFlatten ==
    ASSUME NEW n \in Nat, NEW f, DOMAIN f = 1 .. n, f = [i \in 1 .. n |-> f[i]], \A i \in 1 .. n : Calm(f[i])
    PROVE  Calm(FlattenSeq(f))
<1>. DEFINE Of(i) == CHOOSE S : f[i] \in Seq(S) /\ \A x \in S : Quiet(x)
            S == UNION {Of(i) : i \in 1 .. n}
<1>1. ASSUME NEW i \in 1 .. n PROVE f[i] \in Seq(Of(i)) /\ \A x \in Of(i) : Quiet(x)
  BY <1>1 DEF Calm
<1>. HIDE DEF Of
<1>2. ASSUME NEW i \in 1 .. n PROVE f[i] \in Seq(S)
  <2>1. Of(i) \subseteq S
    OBVIOUS
  <2>. HIDE DEF S
  <2>. QED BY <1>1, <2>1, SeqMonotonic
<1>3. \A x \in S : Quiet(x)
  BY <1>1
<1>. HIDE DEF S
<1>4. f \in Seq(Seq(S))
  <2>1. f \in [1 .. n -> Seq(S)]
    BY <1>2
  <2>. QED BY <2>1
<1>5. FlattenSeq(f) \in Seq(S)
  BY <1>4, FlattenIs
<1>. QED BY <1>3, <1>5 DEF Calm

-----------------------------------------------------------------------------
(* The operations of a token.                                              *)

(* Op puts an operation together.                                          *)
LEMMA OpIs ==
    ASSUME NEW kind, NEW stream, NEW out, NEW n, NEW f, NEW l, NEW k, NEW in,
           (stream \in Streams /\ kind \in OnStream) \/ (stream = "host" /\ kind \in OfHosts)
    PROVE  /\ Good(Op(kind, stream, out, n, f, l, k, in))
           /\ kind \notin Interfering => Quiet(Op(kind, stream, out, n, f, l, k, in))
<1>. DEFINE op == Op(kind, stream, out, n, f, l, k, in)
<1>1. op.kind = kind /\ op.stream = stream /\ {"kind", "stream", "name", "id"} \subseteq DOMAIN op
  BY DEF Op
<1>. HIDE DEF op
<1>2. Good(op)
  BY <1>1 DEF Good
<1>. QED BY <1>1, <1>2 DEF op, Quiet

(* One of a stream that waits for nothing.                                 *)
LEMMA QuietOp ==
    ASSUME NEW kind \in OnStream \ Interfering, NEW stream \in Streams,
           NEW out, NEW n, NEW f, NEW l, NEW k, NEW in
    PROVE  Quiet(Op(kind, stream, out, n, f, l, k, in))
BY OpIs

(* A kernel or a put of the compute stream.                                *)
LEMMA KernelIs ==
    ASSUME NEW out, NEW n, NEW f, NEW l, NEW k, NEW in
    PROVE  Quiet(Op("kernel", "compute", out, n, f, l, k, in))
<1>1. "compute" \in Streams /\ "kernel" \in OnStream /\ "kernel" \notin Interfering
  BY DEF Streams, OnStream, Interfering
<1>. QED BY <1>1, QuietOp

(* Something written by the host.                                          *)
LEMMA PutOpIs ==
    ASSUME NEW out, NEW n, NEW f, NEW l, NEW k, NEW in
    PROVE  Quiet(Op("put", "compute", out, n, f, l, k, in))
<1>1. "compute" \in Streams /\ "put" \in OnStream /\ "put" \notin Interfering
  BY DEF Streams, OnStream, Interfering
<1>. QED BY <1>1, QuietOp

(* A buffer set to zero.                                                   *)
LEMMA ZeroIs ==
    ASSUME NEW out
    PROVE  Quiet(Zero(out))
<1>1. "compute" \in Streams /\ "zero" \in OnStream /\ "zero" \notin Interfering
  BY DEF Streams, OnStream, Interfering
<1>. QED BY <1>1, QuietOp DEF Zero

(* A kernel ...                                                            *)
LEMMA KIs ==
    ASSUME NEW l, NEW out, NEW n, NEW in
    PROVE  Quiet(K(l, out, n, in))
BY KernelIs DEF K

(* ... and one of an expert.                                               *)
LEMMA KSIs ==
    ASSUME NEW l, NEW k, NEW out, NEW n, NEW in
    PROVE  Quiet(KS(l, k, out, n, in))
BY KernelIs DEF KS

(* Changes that leave the kind, the stream and the event.                  *)
LEMMA SameKind ==
    ASSUME NEW op, NEW b, Good(op), DOMAIN b = DOMAIN op, b.kind = op.kind, b.stream = op.stream, b.id = op.id
    PROVE  Alike(b, op) /\ (Quiet(op) => Quiet(b))
BY DEF Alike, Good, Quiet

(* An operation with further inputs,                                       *)
LEMMA AlsoIs ==
    ASSUME NEW op, NEW in, Good(op)
    PROVE  Alike(Also(op, in), op) /\ (Quiet(op) => Quiet(Also(op, in)))
<1>. DEFINE b == Also(op, in)
<1>1. DOMAIN b = DOMAIN op /\ b.kind = op.kind /\ b.stream = op.stream /\ b.id = op.id
  BY DEF Also, Good
<1>. HIDE DEF b
<1>2. Alike(b, op) /\ (Quiet(op) => Quiet(b))
  BY <1>1, SameKind
<1>. QED BY <1>2 DEF b

(* with its position                                                       *)
LEMMA AtIs ==
    ASSUME NEW op, NEW p, Good(op)
    PROVE  Alike(At(op, p), op) /\ (Quiet(op) => Quiet(At(op, p)))
<1>. DEFINE b == At(op, p)
<1>1. DOMAIN b = DOMAIN op /\ b.kind = op.kind /\ b.stream = op.stream /\ b.id = op.id
  BY DEF At, Good
<1>. HIDE DEF b
<1>2. Alike(b, op) /\ (Quiet(op) => Quiet(b))
  BY <1>1, SameKind
<1>. QED BY <1>2 DEF b

(* and with an argument of the host is still one of its kind.              *)
LEMMA GivenIs ==
    ASSUME NEW op, NEW v, NEW n, Good(op)
    PROVE  Alike(Given(op, v, n), op) /\ (Quiet(op) => Quiet(Given(op, v, n)))
<1>. DEFINE b == Given(op, v, n)
<1>1. DOMAIN b = DOMAIN op /\ b.kind = op.kind /\ b.stream = op.stream /\ b.id = op.id
  BY DEF Given, Good
<1>. HIDE DEF b
<1>2. Alike(b, op) /\ (Quiet(op) => Quiet(b))
  BY <1>1, SameKind
<1>. QED BY <1>2 DEF b

(* What is quiet is an operation;                                          *)
LEMMA QuietIsGood ==
    ASSUME NEW op, Quiet(op)
    PROVE  Good(op)
BY DEF Quiet

(* it stays quiet with further inputs,                                     *)
LEMMA QuietAlso ==
    ASSUME NEW op, NEW in, Quiet(op)
    PROVE  Quiet(Also(op, in))
BY AlsoIs, QuietIsGood

(* with its position                                                       *)
LEMMA QuietAt ==
    ASSUME NEW op, NEW p, Quiet(op)
    PROVE  Quiet(At(op, p))
BY AtIs, QuietIsGood

(* and with an argument of the host.                                       *)
LEMMA QuietGiven ==
    ASSUME NEW op, NEW v, NEW n, Quiet(op)
    PROVE  Quiet(Given(op, v, n))
BY GivenIs, QuietIsGood

(* Events.                                                                 *)
LEMMA RecordIs ==
    ASSUME NEW s \in Streams, NEW e, e # <<>>
    PROVE  Quiet(Record(s, e)) /\ Fires(Record(s, e)) /\ Record(s, e).id = e
<1>. DEFINE b == Record(s, e)
<1>1. b.kind = "record" /\ b.stream = s /\ b.id = e /\ {"kind", "stream", "name", "id"} \subseteq DOMAIN b
  BY DEF Record, Op
<1>. HIDE DEF b
<1>2. Quiet(b)
  BY <1>1 DEF Quiet, Good, Streams, OnStream, Interfering
<1>3. Fires(b)
  BY <1>1 DEF Fires
<1>. QED BY <1>1, <1>2, <1>3 DEF b

(* A stream waits for an event.                                            *)
LEMMA WaitIs ==
    ASSUME NEW s \in Streams, NEW e
    PROVE  Good(Wait(s, e)) /\ Wait(s, e).id = e /\ Wait(s, e).kind = "wait"
<1>. DEFINE b == Wait(s, e)
<1>1. b.kind = "wait" /\ b.stream = s /\ b.id = e /\ {"kind", "stream", "name", "id"} \subseteq DOMAIN b
  BY DEF Wait, Op
<1>. HIDE DEF b
<1>2. Good(b)
  BY <1>1 DEF Good, OnStream
<1>. QED BY <1>1, <1>2 DEF b

-----------------------------------------------------------------------------
(* Linear layers.                                                          *)

(* The activation quantised once.                                          *)
LEMMA QuantiseCalm ==
    ASSUME NEW l, NEW k, NEW x, NEW xn, NEW buf, NEW f
    PROVE  Calm(Quantise(l, k, x, xn, buf, f))
BY KernelIs, CalmOne DEF Quantise

(* Its preparation for a product.                                          *)
LEMMA PrepareCalm ==
    ASSUME NEW l, NEW x, NEW xn, NEW have, NEW want, NEW buf
    PROVE  Calm(Prepare(l, x, xn, have, want, buf))
BY QuantiseCalm, CalmWhen DEF Prepare

(* A product that takes what was quantised ...                             *)
LEMMA MatvecReuseCalm ==
    ASSUME NEW l, NEW fmt, NEW x, NEW xn, NEW q, NEW f, NEW mx, NEW valid, NEW out, NEW n
    PROVE  Calm(MatvecReuse(l, fmt, x, xn, q, f, mx, valid, out, n))
BY QuantiseCalm, KernelIs, CalmOne, CalmWhen, CalmConcat DEF MatvecReuse

(* ... and one that quantises.                                             *)
LEMMA MatvecCalm ==
    ASSUME NEW l, NEW k, NEW fmt \in Formats, NEW x, NEW xn, NEW q, NEW mx, NEW out, NEW n
    PROVE  Calm(Matvec(l, k, fmt, x, xn, q, mx, out, n))
BY QuantiseCalm, KernelIs, KSIs, CalmOne, CalmConcat DEF Matvec, Formats

-----------------------------------------------------------------------------
(* Attention.                                                              *)

(* Query, key and value from NVFP4 weights ...                             *)
LEMMA ProjectQkvNvfp4Calm ==
    ASSUME NEW l, NEW m, NEW h
    PROVE  Calm(ProjectQkvNvfp4(l, m, h))
BY QuantiseCalm, PrepareCalm, MatvecReuseCalm, KIs, CalmOne, CalmTwo, CalmConcat DEF ProjectQkvNvfp4

(* ... and from others,                                                    *)
LEMMA ProjectQkvPlainCalm ==
    ASSUME NEW l, NEW m, NEW h
    PROVE  Calm(ProjectQkvPlain(l, m, h))
BY KIs, CalmOne, CalmTwo, CalmThree, CalmWhen, CalmConcat DEF ProjectQkvPlain

(* their norms                                                             *)
LEMMA NormQkvCalm ==
    ASSUME NEW l, NEW m
    PROVE  Calm(NormQkv(l, m))
BY KIs, CalmTwo, CalmWhen, CalmConcat DEF NormQkv, NormOne

(* and their rotation.                                                     *)
LEMMA RotateCalm ==
    ASSUME NEW l, NEW m
    PROVE  Calm(Rotate(l, m))
BY KIs, QuietAlso, CalmOne, CalmWhen, CalmConcat DEF Rotate

(* The row of a token stored,                                              *)
LEMMA StoreQuiet ==
    ASSUME NEW l, NEW m
    PROVE  Quiet(Store(l, m))
BY DEF Store, Also, K, Op, Quiet, Good, Interfering, OnStream, Streams

(* the rows attended to,                                                   *)
LEMMA AttendQuiet ==
    ASSUME NEW l, NEW m, NEW p
    PROVE  Quiet(Attend(l, m, p))
BY DEF Attend, Also, K, Op, Quiet, Good, Interfering, OnStream, Streams

(* and the attention of a layer.                                           *)
LEMMA AttentionCalm ==
    ASSUME NEW l, NEW m \in LayerType, NEW h, NEW p
    PROVE  Calm(Attention(l, m, h, p))
<1>1. m.oproj \in Formats
  BY DEF LayerType
<1>. QED BY <1>1, ProjectQkvNvfp4Calm, ProjectQkvPlainCalm, NormQkvCalm, RotateCalm, StoreQuiet, AttendQuiet, MatvecCalm,
            KIs, CalmOne, CalmTwo, CalmWhen, CalmConcat DEF Attention

-----------------------------------------------------------------------------
(* Gated delta net and dense MLP.                                          *)

(* A state of the delta net carried on ...                                 *)
LEMMA StepStateCalm ==
    ASSUME NEW l, NEW b, NEW out, NEW nn, NEW in
    PROVE  Calm(StepState(l, b, out, nn, in))
<1>. DEFINE x == [Also(K(l, b, b, in), Carried(l, b)) EXCEPT !.out = <<b, l>>]
<1>1. Quiet(x)
  BY DEF Also, K, Op, Quiet, Good, Interfering, OnStream, Streams
<1>2. Quiet(Also(K(l, out, nn, in), Carried(l, b)))
  BY KIs, QuietAlso
<1>. QED BY <1>1, <1>2, CalmTwo DEF StepState

(* ... and the delta net of a layer.                                       *)
LEMMA GatedDeltaNetCalm ==
    ASSUME NEW l, NEW m \in LayerType, NEW h
    PROVE  Calm(GatedDeltaNet(l, m, h))
<1>1. m.proj \in Formats
  BY DEF LayerType
<1>. QED BY <1>1, MatvecCalm, StepStateCalm, KIs, CalmOne, CalmFour, CalmConcat DEF GatedDeltaNet

(* Gate and up projection of the dense MLP ...                             *)
LEMMA GateUpCalm ==
    ASSUME NEW l, NEW m \in LayerType
    PROVE  Calm(GateUp(l, m))
<1>1. m.gateup \in {"native", "prequant", "plain", "cutlass"}
  BY DEF LayerType, Formats
<1>. QED BY <1>1, MatvecReuseCalm, PrepareCalm, QuantiseCalm, KIs, KernelIs, CalmOne, CalmTwo, CalmConcat DEF GateUp

(* ... and down.                                                           *)
LEMMA DownCalm ==
    ASSUME NEW l, NEW m \in LayerType
    PROVE  Calm(Down(l, m))
<1>1. m.down \in Formats
  BY DEF LayerType
<1>. QED BY <1>1, MatvecCalm, KIs, KernelIs, CalmOne, CalmTwo, CalmConcat DEF Down

(* The inputs of every layer ...                                           *)
LEMMA PerLayerInputsCalm ==
    ASSUME NEW h, NEW upload, Calm(upload)
    PROVE  Calm(PerLayerInputs(h, upload))
BY KIs, KernelIs, CalmFive, CalmConcat DEF PerLayerInputs

(* ... and what a layer makes of its own.                                  *)
LEMMA PleContributionCalm ==
    ASSUME NEW l, NEW o
    PROVE  Calm(PleContribution(l, o))
BY KIs, KernelIs, QuietAlso, CalmSeven DEF PleContribution

(* The output of a layer with them.                                        *)
LEMMA OutputCalm ==
    ASSUME NEW l, NEW o, NEW n
    PROVE  Calm(Output(l, o, n))
BY KernelIs, CalmOne DEF Output

(* The dense MLP.                                                          *)
LEMMA DenseMlpCalm ==
    ASSUME NEW l, NEW m \in LayerType, NEW o
    PROVE  Calm(DenseMlp(l, m, o))
BY GateUpCalm, DownCalm, PleContributionCalm, OutputCalm, KIs, CalmOne, CalmTwo, CalmWhen, CalmConcat DEF DenseMlp

-----------------------------------------------------------------------------
(* Mixture of experts.                                                     *)

(* The router,                                                             *)
LEMMA RouterCalm ==
    ASSUME NEW l, NEW m, NEW p
    PROVE  Calm(Router(l, m, p))
BY KIs, CalmOne, CalmTwo, CalmConcat DEF Router

(* the input of the experts,                                               *)
LEMMA ExpertInputCalm ==
    ASSUME NEW l, NEW m, NEW o
    PROVE  Calm(ExpertInput(l, m, o))
BY KIs, CalmOne DEF ExpertInput

(* the shared expert                                                       *)
LEMMA SharedExpertCalm ==
    ASSUME NEW l, NEW m, m.gateup \in Formats
    PROVE  Calm(SharedExpert(l, m))
BY MatvecCalm, ZeroIs, KIs, CalmOne, CalmTwo, CalmConcat DEF SharedExpert

(* and its norm.                                                           *)
LEMMA SharedNormCalm ==
    ASSUME NEW l, NEW m
    PROVE  Calm(SharedNorm(l, m))
<1>. DEFINE x == [Zero("post_normed") EXCEPT !.in = {Want("moe_acc", "zero", "f32", l, 0)}]
<1>1. Quiet(x)
  BY DEF Zero, Op, Quiet, Good, Interfering, OnStream, Streams
<1>. QED BY <1>1, KIs, CalmOne DEF SharedNorm

(* All experts of a token at once,                                         *)
LEMMA AllSlotsCalm ==
    ASSUME NEW l, NEW o
    PROVE  Calm(AllSlots(l, o))
BY QuantiseCalm, KIs, KernelIs, CalmOne, CalmConcat DEF AllSlots, Accumulate

(* one of them,                                                            *)
LEMMA SlotCalm ==
    ASSUME NEW l, NEW k, NEW o, NEW w, NEW last
    PROVE  Calm(Slot(l, k, o, w, last))
BY KSIs, KernelIs, CalmOne, CalmConcat DEF Slot, Accumulate

(* and their sum.                                                          *)
LEMMA CombineCalm ==
    ASSUME NEW l, NEW m, NEW o
    PROVE  Calm(Combine(l, m, o))
BY KIs, KernelIs, CalmFour DEF Combine

(* A calm sequence, each operation of which is given an argument.          *)
LEMMA GivenCalm ==
    ASSUME NEW ops, NEW v, NEW n, NEW p, Calm(ops)
    PROVE  Calm([i \in DOMAIN ops |-> At(Given(ops[i], v, n), p)])
<1>. DEFINE b == [i \in DOMAIN ops |-> At(Given(ops[i], v, n), p)]
<1>1. Program(ops)
  BY CalmIsMild, MildIsProgram
<1>2. ASSUME NEW i \in DOMAIN ops PROVE Alike(b[i], ops[i])
  <2>1. Good(ops[i])
    BY <1>1, ProgramIs
  <2>2. Alike(Given(ops[i], v, n), ops[i])
    BY <2>1, GivenIs
  <2>3. Good(Given(ops[i], v, n))
    BY <2>2 DEF Alike
  <2>4. Alike(At(Given(ops[i], v, n), p), Given(ops[i], v, n))
    BY <2>3, AtIs
  <2>5. b[i] = At(Given(ops[i], v, n), p)
    OBVIOUS
  <2>. HIDE DEF b
  <2>. QED BY <2>2, <2>4, <2>5 DEF Alike
<1>3. b = [i \in DOMAIN ops |-> b[i]]
  OBVIOUS
<1>. HIDE DEF b
<1>4. Calm(b)
  BY <1>2, <1>3, CalmAlike
<1>. QED BY <1>4 DEF b

(* An expert of which each product is a kernel of its own.                 *)
LEMMA OneByOneCalm ==
    ASSUME NEW l, NEW m, NEW k, NEW o, NEW p
    PROVE  Calm(OneByOne(l, m, k, o, p))
<1>. DEFINE once == m.hostWeights /\ m.sameScale
            Quant(x, n, sl, f) == <<Op("kernel", "compute", "quant_expert", n, f, l, k, {Want(x, n, "f32", l, sl)})>>
            Product(out, nn, in) == <<Op("kernel", "compute", out, nn, "f32", l, k, {in})>>
            Input(f) == IF once THEN Want("quant_gate_up", "ein", "shared", l, 0) ELSE Want("quant_expert", "ein", f, l, k)
            ops == When(~once, Quant(o, "ein", 0, "gate")) \o Product("expert_gate", "eg", Input("gate"))
                   \o When(~once, Quant(o, "ein", 0, "up")) \o Product("expert_up", "eu", Input("up"))
                   \o <<KS(l, k, "expert_swiglu", "eact", {<<"expert_gate", "eg">>, <<"expert_up", "eu">>})>>
                   \o Quant("expert_swiglu", "eact", k, "down")
                   \o Product("expert_out", "eo", Want("quant_expert", "eact", "down", l, k))
                   \o <<Accumulate(l, k, {Before(l, k), Want("expert_out", "eo", "f32", l, k)})>>
<1>1. Calm(ops)
  BY KSIs, KernelIs, CalmOne, CalmWhen, CalmConcat DEF Accumulate
<1>2. OneByOne(l, m, k, o, p) = [i \in DOMAIN ops |-> At(Given(ops[i], "topk", "topk"), p)]
  BY DEF OneByOne
<1>. HIDE DEF ops
<1>. QED BY <1>1, <1>2, GivenCalm

(* The host reads the choice behind the event that it has arrived.         *)
Pinned(l, p) == <<"pinned", l, p>>
Copies(l, p) == <<"bulk_done", l, p>>
Staged(l, p) == <<"h2d", l, p>>

(* The choice of the router on its way to the host fires an event.         *)
LEMMA ReadBackSound ==
    ASSUME NEW l, NEW p, NEW E
    PROVE  Sound(ReadBack(l, p), E) /\ Pinned(l, p) \in Events(ReadBack(l, p))
<1>. DEFINE e == <<"topk_ready", l, p>>
            a == Record("compute", e)
            b == Wait("transfer", e)
            c == [Op("kernel", "transfer", "packed_topk_pinned", "topk", "f32", l, 0,
                    {Want("packed_topk_device", "topk", "f32", l, 0)}) EXCEPT !.id = <<"pinned", l, p>>]
            s == <<a, b, c>>
            S == {a, b, c}
<1>1. Good(a) /\ Fires(a) /\ a.id = e
  BY RecordIs, QuietIsGood DEF Streams
<1>2. Good(b) /\ b.kind = "wait" /\ b.id = e
  BY WaitIs DEF Streams
<1>3. Good(c) /\ c.kind = "kernel" /\ c.id = Pinned(l, p)
  BY DEF Op, Good, Streams, OnStream, Pinned
<1>4. Fires(c)
  <2>1. Pinned(l, p) # <<>>
    BY DEF Pinned
  <2>. HIDE DEF c
  <2>. QED BY <1>3, <2>1 DEF Fires
<1>5. a.kind = "record"
  BY DEF Record, Op
<1>. HIDE DEF e, a, b, c
<1>6. s \in Seq(S) /\ (\A x \in S : Good(x)) /\ DOMAIN s = {1, 2, 3} /\ s[1] = a /\ s[2] = b /\ s[3] = c
  BY <1>1, <1>2, <1>3
<1>7. ReadBack(l, p) = s
  BY DEF ReadBack, a, b, c, e
<1>. HIDE DEF s, S
<1>8. Program(s)
  BY <1>6 DEF Program
<1>9. Ready(s, E, 1) /\ Ready(s, E, 3)
  BY <1>3, <1>5, <1>6 DEF Ready, Awaiting
<1>10. Ready(s, E, 2)
  BY <1>1, <1>2, <1>6 DEF Ready
<1>11. Sound(s, E)
  BY <1>6, <1>8, <1>9, <1>10 DEF Sound
<1>12. Pinned(l, p) \in Events(s)
  BY <1>3, <1>4, <1>6, EventIs
<1>. QED BY <1>7, <1>11, <1>12

(* The events of one part are those of the whole.                          *)
LEMMA EventsLeft ==
    ASSUME NEW a, NEW b, NEW e \in Events(a), Program(a), Program(b)
    PROVE  e \in Events(a \o b)
BY EventsConcat

(* Events of what comes after.                                             *)
LEMMA EventsRight ==
    ASSUME NEW a, NEW b, NEW e \in Events(b), Program(a), Program(b)
    PROVE  e \in Events(a \o b)
BY EventsConcat

(* What is calm is a program.                                              *)
LEMMA CalmIsProgram ==
    ASSUME NEW a, Calm(a)
    PROVE  Program(a)
BY CalmIsMild, MildIsProgram

(* An operation of the host.                                               *)
LEMMA OnHostIs ==
    ASSUME NEW kind \in OfHosts, NEW out, NEW n, NEW l, NEW in
    PROVE  /\ Good(OnHost(kind, out, n, l, in))
           /\ OnHost(kind, out, n, l, in).kind = kind
           /\ ~Fires(OnHost(kind, out, n, l, in))
<1>1. OnHost(kind, out, n, l, in).kind = kind
  BY DEF OnHost, Op
<1>2. kind \notin {"record", "kernel"}
  BY DEF OfHosts
<1>. QED BY <1>1, <1>2, OpIs DEF OnHost, Fires

(* The copies wait for the last ones that read the buffer, the kernels for *)
(* the copies.                                                             *)
LEMMA CopiedSound ==
    ASSUME NEW l, NEW p, NEW primed, NEW kernels, NEW E, Calm(kernels), primed # <<>> => primed \in E
    PROVE  Sound(Copied(l, p, primed, kernels), E) /\ Copies(l, p) \in Events(Copied(l, p, primed, kernels))
<1>. DEFINE e == <<"bulk", l, p>>
            w == When(primed # <<>>, <<Wait("transfer", primed)>>)
            a == Given(At(Op("upload", "transfer", "bulk_expert", "experts", "f32", l, 0, {}), p), "topk", "topk")
            b == Record("transfer", e)
            c == Wait("compute", e)
            d == Record("compute", Copies(l, p))
            s == <<a, b, c>>
            S == {a, b, c}
<1>1. Sound(w, E)
  <2>1. Good(Wait("transfer", primed)) /\ Wait("transfer", primed).id = primed
    BY WaitIs DEF Streams
  <2>2. primed # <<>> => Sound(<<Wait("transfer", primed)>>, E)
    BY <2>1, SoundOne
  <2>. QED BY <2>2, SoundNone DEF When
<1>2. Quiet(a)
  <2>1. "transfer" \in Streams /\ "upload" \in OnStream \ Interfering
    BY DEF Streams, OnStream, Interfering
  <2>. QED BY <2>1, QuietOp, QuietAt, QuietGiven
<1>3. Quiet(b) /\ Fires(b) /\ b.id = e
  BY RecordIs DEF Streams
<1>4. Good(c) /\ c.kind = "wait" /\ c.id = e
  BY WaitIs DEF Streams
<1>5. Quiet(d) /\ Fires(d) /\ d.id = Copies(l, p)
  <2>1. Copies(l, p) # <<>>
    BY DEF Copies
  <2>. QED BY <2>1, RecordIs DEF Streams
<1>6. Copied(l, p, primed, kernels) = w \o s \o kernels \o <<d>>
  BY DEF Copied, Copies
<1>. HIDE DEF w, a, b, c, d, e
<1>7. s \in Seq(S) /\ (\A x \in S : Good(x)) /\ DOMAIN s = {1, 2, 3} /\ s[1] = a /\ s[2] = b /\ s[3] = c
  BY <1>2, <1>3, <1>4, QuietIsGood
<1>. HIDE DEF s, S
<1>8. Sound(s, E \cup Events(w))
  <2>1. Program(s)
    BY <1>7 DEF Program
  <2>2. \A i \in {1, 2} : Ready(s, E \cup Events(w), i)
    BY <1>2, <1>3, <1>7 DEF Ready, Quiet, Interfering, Awaiting
  <2>3. Ready(s, E \cup Events(w), 3)
    BY <1>3, <1>4, <1>7 DEF Ready
  <2>. QED BY <1>7, <2>1, <2>2, <2>3 DEF Sound
<1>9. Calm(<<d>>)
  BY <1>5, CalmOne
<1>10. Sound(w \o s \o kernels, E)
  BY <1>1, <1>8, SoundConcat, SoundThenCalm
<1>11. Sound(w \o s \o kernels \o <<d>>, E)
  BY <1>9, <1>10, SoundThenCalm
<1>12. Copies(l, p) \in Events(<<d>>)
  BY <1>5, EventsOne
<1>13. Copies(l, p) \in Events(w \o s \o kernels \o <<d>>)
  BY <1>9, <1>10, <1>12, EventsRight, SoundIsProgram, CalmIsProgram
<1>. QED BY <1>6, <1>11, <1>13

(* However the routed experts run.                                         *)
LEMMA RoutedSound ==
    ASSUME NEW l, NEW m \in LayerType, NEW o, NEW p, NEW primed, NEW E, m.moe # "none",
           ByCopy(m) /\ primed # <<>> => primed \in E
    PROVE  /\ Sound(Routed(l, m, o, p, primed), E)
           /\ ByCopy(m) => Copies(l, p) \in Events(Routed(l, m, o, p, primed))
<1>. DEFINE Slots(last) == Slot(l, 1, o, Weights(l), last) \o Slot(l, 2, o, Weights(l), last)
            OfHost(ops) == [i \in DOMAIN ops |-> At(Given(ops[i], "topk", "topk"), p)]
<1>0. m.moe \in {"gpu", "slots", "cpu", "staged", "bulk", "each"}
  BY DEF LayerType
<1>1. CASE m.moe \in {"gpu", "slots"}
  <2>1. Calm(Routed(l, m, o, p, primed))
    BY <1>1, KIs, CalmOne, AllSlotsCalm, SlotCalm, CalmConcat DEF Routed
  <2>. QED BY <1>1, <2>1, CalmIsSound DEF ByCopy
<1>2. CASE m.moe = "staged"
  <2>1. Routed(l, m, o, p, primed) = Copied(l, p, primed, AllSlots(l, o))
    BY <1>2 DEF Routed
  <2>. QED BY <1>2, <2>1, AllSlotsCalm, CopiedSound DEF ByCopy
<1>3. CASE m.moe = "bulk"
  <2>1. Routed(l, m, o, p, primed) = Copied(l, p, primed, OfHost(Slots({})))
    BY <1>3 DEF Routed
  <2>2. Calm(Slots({}))
    BY SlotCalm, CalmConcat
  <2>. HIDE DEF Slots
  <2>3. Calm(OfHost(Slots({})))
    BY <2>2, GivenCalm
  <2>. HIDE DEF OfHost
  <2>. QED BY <1>3, <2>1, <2>3, CopiedSound DEF ByCopy
<1>4. CASE m.moe = "each"
  <2>1. Calm(Routed(l, m, o, p, primed))
    BY <1>4, QuantiseCalm, CalmWhen, OneByOneCalm, CalmConcat DEF Routed
  <2>. QED BY <1>4, <2>1, CalmIsSound DEF ByCopy
<1>5. CASE m.moe = "cpu"
  <2>. DEFINE a == OnHost("experts", "acc", "acc", l, {})
              b == Given(At(Op("upload", "compute", "routed_acc", "acc", "f32", l, TopK, {}), p), "acc", "acc")
  <2>1. Routed(l, m, o, p, primed) = <<a, b>>
    BY <1>5 DEF Routed
  <2>2. Quiet(a)
    BY OnHostIs DEF OfHosts, Interfering, Quiet
  <2>3. Quiet(b)
    <3>1. "compute" \in Streams /\ "upload" \in OnStream \ Interfering
      BY DEF Streams, OnStream, Interfering
    <3>. QED BY <3>1, QuietOp, QuietAt, QuietGiven
  <2>. HIDE DEF a, b
  <2>4. Calm(Routed(l, m, o, p, primed))
    BY <2>1, <2>2, <2>3, CalmTwo
  <2>. QED BY <1>5, <2>4, CalmIsSound DEF ByCopy
<1>. QED BY <1>0, <1>1, <1>2, <1>3, <1>4, <1>5

(* The MLP of experts: sound when the copies it waits for are known.       *)
LEMMA MoeMlpSound ==
    ASSUME NEW l, NEW m \in LayerType, NEW o, NEW p, NEW primed, NEW E, m.moe # "none",
           ByCopy(m) /\ primed # <<>> => primed \in E
    PROVE  /\ Sound(MoeMlp(l, m, o, p, primed), E)
           /\ ByCopy(m) => Copies(l, p) \in Events(MoeMlp(l, m, o, p, primed))
           /\ GpuDriven(m) => Calm(MoeMlp(l, m, o, p, primed))
<1>. DEFINE r == Router(l, m, p)
            back == When(~GpuDriven(m), ReadBack(l, p))
            x == ExpertInput(l, m, o)
            d == OnHost("download", "input", "ein", l, {Want(o, "ein", "f32", l, 0)})
            down == When(m.moe = "cpu", <<d>>)
            s == SharedExpert(l, m)
            t == SharedNorm(l, m)
            before == r \o back \o x \o down \o s \o t
            h == [OnHost("read", "topk", "topk", l, {Want("packed_topk_pinned", "topk", "f32", l, 0)})
                     EXCEPT !.id = <<"pinned", l, p>>]
            read == When(~GpuDriven(m), <<h>>)
            z == <<Zero("routed_acc")>>
            routed == Routed(l, m, o, p, primed)
            c == Combine(l, m, o)
            q == Output(l, o, "y")
<1>1. Calm(r) /\ Calm(x) /\ Calm(s) /\ Calm(t) /\ Calm(z) /\ Calm(c) /\ Calm(q)
  <2>1. m.gateup \in Formats
    BY DEF LayerType
  <2>. QED BY <2>1, RouterCalm, ExpertInputCalm, SharedExpertCalm, SharedNormCalm, ZeroIs, CalmOne, CombineCalm, OutputCalm
<1>2. MoeMlp(l, m, o, p, primed) = before \o read \o z \o routed \o c \o q
  BY DEF MoeMlp
<1>3. Sound(back, E \cup Events(r)) /\ (~GpuDriven(m) => Pinned(l, p) \in Events(back))
  BY ReadBackSound, SoundNone DEF When
<1>4. Mild(down)
  <2>1. Gentle(d)
    BY OnHostIs DEF OfHosts, Awaiting, Gentle
  <2>. HIDE DEF d
  <2>. QED BY <2>1, MildOne, MildWhen
<1>5. Sound(routed, E) /\ (ByCopy(m) => Copies(l, p) \in Events(routed))
  BY RoutedSound
<1>6. Good(h) /\ h.kind = "read" /\ h.id = Pinned(l, p)
  BY DEF OnHost, Op, Good, OfHosts, Pinned
<1>7. GpuDriven(m) => Calm(routed)
  <2>. SUFFICES ASSUME GpuDriven(m) PROVE Calm(routed)
    OBVIOUS
  <2>. QED BY KIs, CalmOne, AllSlotsCalm, SlotCalm, CalmConcat DEF Routed, GpuDriven
<1>8. GpuDriven(m) => back = <<>> /\ down = <<>> /\ read = <<>>
  BY DEF When, GpuDriven
<1>. HIDE DEF r, back, x, d, down, s, t, h, z, routed, c, q
<1>9. Sound(r \o back, E) /\ (~GpuDriven(m) => Pinned(l, p) \in Events(r \o back))
  BY <1>1, <1>3, CalmIsSound, SoundConcat, EventsRight, SoundIsProgram, CalmIsProgram
<1>. DEFINE y == x \o down \o s \o t
<1>10. Sound(before, E) /\ (~GpuDriven(m) => Pinned(l, p) \in Events(before))
  <2>1. Sound(r \o back \o x \o down \o s \o t, E)
    BY <1>1, <1>4, <1>9, SoundThenCalm, SoundThenMild
  <2>2. Program(r \o back) /\ Program(x) /\ Program(down) /\ Program(s) /\ Program(t)
    BY <1>1, <1>4, <1>9, SoundIsProgram, CalmIsProgram, MildIsProgram
  <2>3. Events(r \o back) \subseteq Events(before)
    <3>1. Program(r \o back \o x) /\ Program(r \o back \o x \o down) /\ Program(r \o back \o x \o down \o s)
      BY <2>2, ProgramConcat
    <3>. QED BY <2>2, <3>1, EventsConcat
  <2>. QED BY <1>9, <2>1, <2>3
<1>. HIDE DEF before
<1>11. Sound(before \o read, E)
  <2>1. CASE GpuDriven(m)
    BY <1>8, <1>10, <2>1, SoundNone, SoundConcat
  <2>2. CASE ~GpuDriven(m)
    <3>1. Sound(<<h>>, E \cup Events(before))
      BY <1>6, <1>10, <2>2, SoundOne
    <3>2. read = <<h>>
      BY <2>2 DEF When
    <3>. QED BY <1>10, <3>1, <3>2, SoundConcat
  <2>. QED BY <2>1, <2>2
<1>. HIDE DEF read
<1>. DEFINE u == before \o read \o z
<1>12. Sound(u, E)
  BY <1>1, <1>11, SoundThenCalm
<1>. HIDE DEF u
<1>13. Sound(u \o routed, E)
  <2>1. Sound(routed, E \cup Events(u))
    <3>1. E \subseteq E \cup Events(u)
      OBVIOUS
    <3>. QED BY <1>5, <3>1, SoundMore
  <2>. QED BY <1>12, <2>1, SoundConcat
<1>14. Sound(u \o routed \o c \o q, E)
  BY <1>1, <1>13, SoundThenCalm
<1>15. ByCopy(m) => Copies(l, p) \in Events(u \o routed \o c \o q)
  <2>1. Program(u) /\ Program(routed) /\ Program(c) /\ Program(q)
    BY <1>1, <1>5, <1>12, SoundIsProgram, CalmIsProgram
  <2>2. Program(u \o routed) /\ Program(u \o routed \o c)
    BY <2>1, ProgramConcat
  <2>. QED BY <1>5, <2>1, <2>2, EventsConcat
<1>16. GpuDriven(m) => Calm(u \o routed \o c \o q)
  <2>. SUFFICES ASSUME GpuDriven(m) PROVE Calm(u \o routed \o c \o q)
    OBVIOUS
  <2>1. Calm(before)
    BY <1>1, <1>8, CalmNone, CalmConcat DEF before
  <2>2. Calm(u)
    BY <1>1, <1>8, <2>1, CalmNone, CalmConcat DEF u
  <2>. QED BY <1>1, <1>7, <2>2, CalmConcat
<1>. QED BY <1>2, <1>14, <1>15, <1>16 DEF u

-----------------------------------------------------------------------------
(* Host-resident KV caches.                                                *)

(* Copies of rows of a KV cache.                                           *)
LEMMA MoveQuiet ==
    ASSUME NEW kind \in {"load", "save"}, NEW l, NEW p, NEW from, NEW to
    PROVE  Quiet(Move(kind, l, p, from, to))
BY DEF Move, At, Op, Quiet, Good, Interfering, OnStream, Streams

(* The rows of the next layer on their way fire an event ...               *)
LEMMA PrefetchCalm ==
    ASSUME NEW ms, NEW l, NEW p
    PROVE  /\ Calm(Prefetch(ms, l, p))
           /\ l <= Len(ms) /\ ms[l].hostKv => Staged(l, p) \in Events(Prefetch(ms, l, p))
<1>. DEFINE a == Move("load", l, p, <<"host", l>>, StagingSlot(l))
            b == Record("transfer", <<"h2d", l, p>>)
            x == When(p > 0, <<a>>)
<1>1. Quiet(a)
  BY MoveQuiet
<1>2. Quiet(b) /\ Fires(b) /\ b.id = Staged(l, p)
  <2>1. Staged(l, p) # <<>>
    BY DEF Staged
  <2>. QED BY <2>1, RecordIs DEF Streams, Staged
<1>3. Prefetch(ms, l, p) = When(l <= Len(ms) /\ ms[l].hostKv, x \o <<b>>)
  BY DEF Prefetch
<1>. HIDE DEF a, b
<1>4. Calm(x) /\ Calm(<<b>>)
  BY <1>1, <1>2, CalmOne, CalmWhen
<1>. HIDE DEF x
<1>5. Calm(x \o <<b>>)
  BY <1>4, CalmConcat
<1>6. Staged(l, p) \in Events(x \o <<b>>)
  <2>1. Staged(l, p) \in Events(<<b>>)
    BY <1>2, EventsOne
  <2>. QED BY <1>4, <2>1, EventsRight, CalmIsProgram
<1>7. Calm(Prefetch(ms, l, p))
  BY <1>3, <1>5, CalmWhen
<1>. QED BY <1>3, <1>6, <1>7 DEF When

(* ... that the layer waits for ...                                        *)
LEMMA AwaitStagedSound ==
    ASSUME NEW m, NEW l, NEW p, NEW E, m.hostKv => Staged(l, p) \in E
    PROVE  Sound(AwaitStaged(m, l, p), E) /\ (~m.hostKv => AwaitStaged(m, l, p) = <<>>)
<1>. DEFINE a == Wait("compute", <<"h2d", l, p>>)
<1>1. Good(a) /\ a.id = Staged(l, p)
  BY WaitIs DEF Streams, Staged
<1>2. AwaitStaged(m, l, p) = When(m.hostKv, <<a>>)
  BY DEF AwaitStaged
<1>. HIDE DEF a
<1>3. m.hostKv => Sound(<<a>>, E)
  BY <1>1, SoundOne
<1>. QED BY <1>2, <1>3, SoundNone DEF When

(* ... before its own are written back.                                    *)
LEMMA WriteBackSound ==
    ASSUME NEW m, NEW l, NEW p, NEW E
    PROVE  Sound(WriteBack(m, l, p), E) /\ (~m.hostKv => WriteBack(m, l, p) = <<>>)
<1>. DEFINE e == <<"layer_done", l, p>>
            a == Record("compute", e)
            b == Wait("transfer", e)
            c == Move("save", l, p, StagingSlot(l), <<"host", l>>)
            s == <<a, b, c>>
            S == {a, b, c}
<1>1. Quiet(a) /\ Fires(a) /\ a.id = e
  BY RecordIs DEF Streams
<1>2. Good(b) /\ b.id = e
  BY WaitIs DEF Streams
<1>3. Quiet(c)
  BY MoveQuiet
<1>4. WriteBack(m, l, p) = When(m.hostKv, s)
  BY DEF WriteBack
<1>. HIDE DEF e, a, b, c
<1>5. s \in Seq(S) /\ (\A x \in S : Good(x)) /\ DOMAIN s = {1, 2, 3} /\ s[1] = a /\ s[2] = b /\ s[3] = c
  BY <1>1, <1>2, <1>3, QuietIsGood
<1>. HIDE DEF s, S
<1>6. Program(s)
  BY <1>5 DEF Program
<1>7. Ready(s, E, 1) /\ Ready(s, E, 3)
  BY <1>1, <1>3, <1>5 DEF Ready, Quiet, Interfering, Awaiting
<1>8. Ready(s, E, 2)
  BY <1>1, <1>2, <1>5 DEF Ready
<1>9. Sound(s, E)
  BY <1>5, <1>6, <1>7, <1>8 DEF Sound
<1>. QED BY <1>4, <1>9, SoundNone DEF When

-----------------------------------------------------------------------------
(* Layers.                                                                 *)

(* The copies that those of a layer wait for.                              *)
LEMMA LastCopyIs ==
    ASSUME NEW ms, NEW l, NEW p, NEW first, LastCopy(ms, l, p, first) # <<>>
    PROVE  \E k \in 1 .. Len(ms), q \in {p, p - 1} :
              /\ ByCopy(ms[k]) /\ q >= first /\ (q = p => k < l)
              /\ LastCopy(ms, l, p, first) = Copies(k, q)
<1>. DEFINE before == {x \in (1 .. Len(ms)) \X {p, p - 1} :
                          ByCopy(ms[x[1]]) /\ x[2] >= first /\ (x[2] = p => x[1] < l)}
            latest == {x \in before : \A y \in before : x[2] > y[2] \/ (x[2] = y[2] /\ x[1] >= y[1])}
            x == CHOOSE x \in latest : TRUE
<1>1. LastCopy(ms, l, p, first) = IF latest = {} THEN <<>> ELSE <<"bulk_done", x[1], x[2]>>
  BY DEF LastCopy
<1>2. latest # {}
  BY <1>1
<1>3. x \in before
  BY <1>2
<1>4. x[1] \in 1 .. Len(ms) /\ x[2] \in {p, p - 1} /\ ByCopy(ms[x[1]]) /\ x[2] >= first /\ (x[2] = p => x[1] < l)
  BY <1>3
<1>5. LastCopy(ms, l, p, first) = Copies(x[1], x[2])
  BY <1>1, <1>2 DEF Copies
<1>. HIDE DEF x
<1>. QED BY <1>4, <1>5

(* A layer whose operations need neither the host nor an event.            *)
InDevice(m) == ~m.hostKv /\ m.moe \in {"none", "gpu", "slots"}

(* A layer is sound once its rows and the copy that it waits for are on    *)
(* their way.                                                              *)
LEMMA LayerSound ==
    ASSUME NEW ms \in Seq(LayerType), NEW l \in 1 .. Len(ms), NEW h, NEW p, NEW first, NEW E,
           ms[l].hostKv => Staged(l, p) \in E,
           ByCopy(ms[l]) /\ LastCopy(ms, l, p, first) # <<>> => LastCopy(ms, l, p, first) \in E
    PROVE  /\ Sound(Layer(ms, l, h, p, first), E)
           /\ l + 1 <= Len(ms) /\ ms[l + 1].hostKv => Staged(l + 1, p) \in Events(Layer(ms, l, h, p, first))
           /\ ByCopy(ms[l]) => Copies(l, p) \in Events(Layer(ms, l, h, p, first))
           /\ InDevice(ms[l]) => Calm(Layer(ms, l, h, p, first))
<1>. DEFINE m == ms[l]
            x == HiddenOf(h, l)
            o == Other(x)
            next == Prefetch(ms, l + 1, p)
            await == AwaitStaged(m, l, p)
            mixer == IF m.mixer = "gdn" THEN GatedDeltaNet(l, m, x) ELSE Attention(l, m, x, p)
            last == LastCopy(ms, l, p, first)
            moe == MoeMlp(l, m, o, p, last)
            mlp == IF m.moe = "none" THEN DenseMlp(l, m, o) ELSE moe
            back == WriteBack(m, l, p)
<1>0. m \in LayerType
  OBVIOUS
<1>1. Layer(ms, l, h, p, first) = next \o await \o mixer \o mlp \o back
  BY DEF Layer
<1>2. Calm(next) /\ (l + 1 <= Len(ms) /\ ms[l + 1].hostKv => Staged(l + 1, p) \in Events(next))
  BY PrefetchCalm
<1>3. Sound(await, E) /\ (~m.hostKv => await = <<>>)
  BY AwaitStagedSound
<1>4. Calm(mixer)
  BY <1>0, GatedDeltaNetCalm, AttentionCalm
<1>5. /\ Sound(mlp, E)
      /\ ByCopy(m) => Copies(l, p) \in Events(mlp)
      /\ m.moe \in {"none", "gpu", "slots"} => Calm(mlp)
  <2>1. CASE m.moe = "none"
    BY <1>0, <2>1, DenseMlpCalm, CalmIsSound DEF ByCopy
  <2>2. CASE m.moe # "none"
    <3>1. ByCopy(m) /\ last # <<>> => last \in E
      OBVIOUS
    <3>2. mlp = moe /\ (m.moe \in {"none", "gpu", "slots"} => GpuDriven(m))
      BY <2>2 DEF GpuDriven
    <3>. HIDE DEF m, last, mlp
    <3>3. Sound(moe, E) /\ (ByCopy(m) => Copies(l, p) \in Events(moe)) /\ (GpuDriven(m) => Calm(moe))
      BY <1>0, <2>2, <3>1, MoeMlpSound
    <3>. QED BY <3>2, <3>3
  <2>. QED BY <2>1, <2>2
<1>6. Sound(back, E) /\ (~m.hostKv => back = <<>>)
  BY WriteBackSound
<1>. HIDE DEF m, x, o, next, await, mixer, moe, mlp, back
<1>7. \A L : Sound(await, E \cup L) /\ Sound(mlp, E \cup L) /\ Sound(back, E \cup L)
  <2>. TAKE L
  <2>1. E \subseteq E \cup L
    OBVIOUS
  <2>. QED BY <1>3, <1>5, <1>6, <2>1, SoundMore
<1>8. Sound(next \o await, E)
  BY <1>2, <1>7, CalmIsSound, SoundConcat
<1>9. Sound(next \o await \o mixer, E)
  BY <1>4, <1>8, SoundThenCalm
<1>10. Sound(next \o await \o mixer \o mlp, E)
  BY <1>7, <1>9, SoundConcat
<1>11. Sound(next \o await \o mixer \o mlp \o back, E)
  BY <1>7, <1>10, SoundConcat
<1>12. Events(next) \cup Events(mlp) \subseteq Events(next \o await \o mixer \o mlp \o back)
  <2>1. Program(next) /\ Program(await) /\ Program(mixer) /\ Program(mlp) /\ Program(back)
    BY <1>2, <1>3, <1>4, <1>5, <1>6, SoundIsProgram, CalmIsProgram
  <2>2. Program(next \o await) /\ Program(next \o await \o mixer) /\ Program(next \o await \o mixer \o mlp)
    BY <1>8, <1>9, <1>10, SoundIsProgram
  <2>. QED BY <2>1, <2>2, EventsConcat
<1>13. InDevice(m) => Calm(next \o await \o mixer \o mlp \o back)
  <2>. SUFFICES ASSUME InDevice(m) PROVE Calm(next \o await \o mixer \o mlp \o back)
    OBVIOUS
  <2>1. await = <<>> /\ back = <<>> /\ Calm(mlp)
    BY <1>3, <1>5, <1>6 DEF InDevice
  <2>. QED BY <1>2, <1>4, <2>1, CalmNone, CalmConcat
<1>. QED BY <1>1, <1>2, <1>5, <1>11, <1>12, <1>13 DEF m

(* A function on an initial segment is a sequence.                         *)
LEMMA SequenceIs ==
    ASSUME NEW n \in Nat, NEW S, NEW f \in [1 .. n -> S]
    PROVE  f \in Seq(S) /\ Len(f) = n
OBVIOUS

(* One sequence more is added at the end.                                  *)
LEMMA FlattenNext ==
    ASSUME NEW n \in Nat, NEW f, NEW g, f = [i \in 1 .. n |-> f[i]], g = [i \in 1 .. n + 1 |-> g[i]],
           \A i \in 1 .. n : g[i] = f[i], \A i \in 1 .. n + 1 : Program(g[i])
    PROVE  FlattenSeq(g) = FlattenSeq(f) \o g[n + 1] /\ Program(FlattenSeq(f))
<1>. DEFINE Of(i) == CHOOSE S : g[i] \in Seq(S) /\ \A x \in S : Good(x)
            S == UNION {Of(i) : i \in 1 .. n + 1}
            t == g[n + 1]
<1>1. ASSUME NEW i \in 1 .. n + 1 PROVE g[i] \in Seq(Of(i)) /\ \A x \in Of(i) : Good(x)
  BY <1>1 DEF Program
<1>. HIDE DEF Of
<1>2. ASSUME NEW i \in 1 .. n + 1 PROVE g[i] \in Seq(S)
  <2>1. Of(i) \subseteq S
    OBVIOUS
  <2>. HIDE DEF S
  <2>. QED BY <1>1, <2>1, SeqMonotonic
<1>3. \A x \in S : Good(x)
  BY <1>1
<1>. HIDE DEF S
<1>4. f \in Seq(Seq(S)) /\ Len(f) = n
  <2>1. ASSUME NEW i \in 1 .. n PROVE f[i] \in Seq(S)
    <3>1. i \in 1 .. n + 1
      OBVIOUS
    <3>2. g[i] \in Seq(S)
      BY <1>2, <3>1, Zenon
    <3>. QED BY <3>2, Zenon
  <2>2. f \in [1 .. n -> Seq(S)]
    BY <2>1
  <2>. QED BY <2>2, SequenceIs
<1>5. t \in Seq(S)
  BY <1>2
<1>6. g = Append(f, t)
  <2>1. /\ Append(f, t) \in Seq(Seq(S)) /\ Len(Append(f, t)) = n + 1
        /\ \A i \in 1 .. n : Append(f, t)[i] = f[i]
        /\ Append(f, t)[n + 1] = t
    BY <1>4, <1>5, AppendProperties
  <2>. DEFINE a == Append(f, t)
  <2>. HIDE DEF a
  <2>2. a \in Seq(Seq(S)) /\ Len(a) = n + 1 /\ (\A i \in 1 .. n : a[i] = g[i]) /\ a[n + 1] = g[n + 1]
    BY <2>1 DEF a
  <2>3. g \in [1 .. n + 1 -> Seq(S)]
    BY <1>2
  <2>4. g \in Seq(Seq(S)) /\ Len(g) = n + 1
    BY <2>3
  <2>5. ASSUME NEW i \in 1 .. n + 1 PROVE a[i] = g[i]
    <3>1. i \in 1 .. n \/ i = n + 1
      OBVIOUS
    <3>. QED BY <2>2, <3>1, Zenon
  <2>6. a = g
    BY <2>2, <2>4, <2>5, SeqEqual
  <2>. QED BY <2>6 DEF a
<1>. HIDE DEF t
<1>7. FlattenSeq(g) = FlattenSeq(f) \o t
  BY <1>4, <1>5, <1>6, FlattenAppend
<1>8. FlattenSeq(f) \in Seq(S)
  BY <1>4, FlattenIs
<1>. QED BY <1>3, <1>7, <1>8 DEF Program, t

(* Three programs one after another.                                       *)
LEMMA ProgramAssociative ==
    ASSUME NEW a, NEW b, NEW c, Program(a), Program(b), Program(c)
    PROVE  (a \o b) \o c = a \o (b \o c)
<1>1. PICK S : a \in Seq(S)
  BY DEF Program
<1>2. PICK T : b \in Seq(T)
  BY DEF Program
<1>3. PICK U : c \in Seq(U)
  BY DEF Program
<1>. DEFINE V == S \cup T \cup U
<1>4. a \in Seq(V) /\ b \in Seq(V) /\ c \in Seq(V)
  <2>1. S \subseteq V /\ T \subseteq V /\ U \subseteq V
    OBVIOUS
  <2>. HIDE DEF V
  <2>. QED BY <1>1, <1>2, <1>3, <2>1, SeqMonotonic
<1>. HIDE DEF V
<1>. QED BY <1>4, ConcatAssociative

(* All layers: sound when the last copies of the position before are known.*)
LEMMA LayersSound ==
    ASSUME NEW ms \in Seq(LayerType), NEW h, NEW p \in Nat, NEW first \in Nat, NEW E,
           p > first => \A k \in 1 .. Len(ms) : ByCopy(ms[k]) => Copies(k, p - 1) \in E
    PROVE  /\ Sound(Layers(ms, h, p, first), E)
           /\ \A k \in 1 .. Len(ms) : ByCopy(ms[k]) => Copies(k, p) \in Events(Layers(ms, h, p, first))
<1>. DEFINE N == Len(ms)
            L(l) == Layer(ms, l, h, p, first)
            pre == Prefetch(ms, 1, p)
            F(n) == [l \in 1 .. n |-> L(l)]
            U(n) == pre \o FlattenSeq(F(n))
            Up(n) == /\ Sound(U(n), E)
                     /\ Program(FlattenSeq(F(n)))
                     /\ n + 1 <= N /\ ms[n + 1].hostKv => Staged(n + 1, p) \in Events(U(n))
                     /\ \A k \in 1 .. n : ByCopy(ms[k]) => Copies(k, p) \in Events(U(n))
            T == {n \in Nat : n <= N => Up(n)}
<1>0. N \in Nat
  OBVIOUS
<1>1. Calm(pre) /\ (1 <= N /\ ms[1].hostKv => Staged(1, p) \in Events(pre))
  BY PrefetchCalm
<1>2. Layers(ms, h, p, first) = U(N)
  BY DEF Layers
<1>. HIDE DEF N, L, pre
<1>3. 0 \in T
  <2>1. F(0) = <<>>
    OBVIOUS
  <2>2. FlattenSeq(F(0)) = <<>>
    BY <2>1, FlattenEmpty
  <2>3. Sound(pre \o <<>>, E) /\ Events(pre \o <<>>) = Events(pre)
    BY <1>1, CalmNone, CalmIsSound, SoundThenCalm, EventsConcat, EventsNone, CalmIsProgram
  <2>4. U(0) = pre \o <<>>
    BY <2>2
  <2>5. Program(FlattenSeq(F(0)))
    BY <2>2, CalmNone, CalmIsProgram
  <2>. HIDE DEF U, F
  <2>. QED BY <1>1, <2>3, <2>4, <2>5
<1>4. ASSUME NEW n \in Nat, n \in T PROVE n + 1 \in T
  <2>. SUFFICES ASSUME n + 1 <= N PROVE Up(n + 1)
    OBVIOUS
  <2>. DEFINE l == n + 1
              v == U(n)
              t == L(l)
              x == FlattenSeq(F(n))
  <2>1. Up(n) /\ l \in 1 .. N /\ l \in 1 .. Len(ms)
    BY <1>0, <1>4 DEF N
  <2>2. ByCopy(ms[l]) /\ LastCopy(ms, l, p, first) # <<>> => LastCopy(ms, l, p, first) \in E \cup Events(v)
    <3>. SUFFICES ASSUME LastCopy(ms, l, p, first) # <<>> PROVE LastCopy(ms, l, p, first) \in E \cup Events(v)
      OBVIOUS
    <3>1. PICK k \in 1 .. Len(ms), q \in {p, p - 1} :
              /\ ByCopy(ms[k]) /\ q >= first /\ (q = p => k < l)
              /\ LastCopy(ms, l, p, first) = Copies(k, q)
      BY LastCopyIs
    <3>2. CASE q = p
      <4>1. k \in 1 .. n
        BY <2>1, <3>1, <3>2
      <4>2. Copies(k, p) \in Events(v)
        BY <2>1, <3>1, <4>1
      <4>. QED BY <3>1, <3>2, <4>2
    <3>3. CASE q = p - 1
      <4>1. p > first
        BY <3>1, <3>3
      <4>. QED BY <3>1, <3>3, <4>1
    <3>. QED BY <3>2, <3>3
  <2>3. /\ Sound(t, E \cup Events(v))
        /\ l + 1 <= N /\ ms[l + 1].hostKv => Staged(l + 1, p) \in Events(t)
        /\ ByCopy(ms[l]) => Copies(l, p) \in Events(t)
    <3>1. ms[l].hostKv => Staged(l, p) \in E \cup Events(v)
      BY <2>1
    <3>. HIDE DEF v, l
    <3>. QED BY <2>1, <2>2, <3>1, LayerSound DEF L, N
  <2>4. Sound(v \o t, E) /\ Events(v \o t) = Events(v) \cup Events(t)
    BY <2>1, <2>3, SoundConcat, SoundIsProgram, EventsConcat
  <2>5. U(n + 1) = v \o t /\ Program(FlattenSeq(F(n + 1)))
    <3>1. \A i \in 1 .. l : Program(F(l)[i])
      <4>1. \A i \in 1 .. l : F(l)[i] = L(i)
        OBVIOUS
      <4>2. ASSUME NEW i \in 1 .. l PROVE Program(L(i))
        <5>1. i \in 1 .. Len(ms)
          BY <2>1
        <5>. DEFINE All == {Staged(i, p), LastCopy(ms, i, p, first)}
        <5>2. Sound(L(i), All)
          BY <5>1, LayerSound DEF L
        <5>. QED BY <5>2, SoundIsProgram
      <4>. QED BY <4>1, <4>2
    <3>2. FlattenSeq(F(l)) = x \o t
      <4>. DEFINE f == F(n)
                  g == F(l)
      <4>1. f = [i \in 1 .. n |-> f[i]] /\ g = [i \in 1 .. n + 1 |-> g[i]] /\ g[n + 1] = t /\ \A i \in 1 .. n : g[i] = f[i]
        OBVIOUS
      <4>2. \A i \in 1 .. n + 1 : Program(g[i])
        BY <3>1
      <4>. HIDE DEF f, g, t
      <4>3. FlattenSeq(g) = FlattenSeq(f) \o g[n + 1]
        BY <4>1, <4>2, FlattenNext
      <4>. QED BY <4>1, <4>3 DEF f, g
    <3>3. Program(pre) /\ Program(x) /\ Program(t)
      BY <1>1, <2>1, <2>3, CalmIsProgram, SoundIsProgram
    <3>. HIDE DEF t, x, F
    <3>4. (pre \o x) \o t = pre \o (x \o t)
      BY <3>3, ProgramAssociative
    <3>5. Program(x \o t)
      BY <3>3, ProgramConcat
    <3>. QED BY <3>2, <3>4, <3>5 DEF x
  <2>6. \A k \in 1 .. n + 1 : ByCopy(ms[k]) => Copies(k, p) \in Events(v \o t)
    <3>. SUFFICES ASSUME NEW k \in 1 .. n + 1, ByCopy(ms[k]) PROVE Copies(k, p) \in Events(v \o t)
      OBVIOUS
    <3>1. CASE k \in 1 .. n
      <4>1. Copies(k, p) \in Events(v)
        BY <2>1, <3>1
      <4>. QED BY <2>4, <4>1
    <3>2. CASE k = n + 1
      BY <2>3, <2>4, <3>2
    <3>. QED BY <3>1, <3>2
  <2>. HIDE DEF v, t, U, F
  <2>. QED BY <2>3, <2>4, <2>5, <2>6
<1>. HIDE DEF T
<1>5. N \in T
  BY <1>0, <1>3, <1>4, Induction
<1>6. Up(N)
  BY <1>0, <1>5 DEF T
<1>. HIDE DEF U
<1>. QED BY <1>2, <1>6 DEF N

(* On the device alone they are calm.                                      *)
LEMMA LayersCalm ==
    ASSUME NEW ms \in Seq(LayerType), NEW h, NEW p, NEW first, \A k \in 1 .. Len(ms) : InDevice(ms[k])
    PROVE  Calm(Layers(ms, h, p, first))
<1>. DEFINE N == Len(ms)
            L(l) == Layer(ms, l, h, p, first)
            f == [l \in 1 .. N |-> L(l)]
<1>1. ASSUME NEW l \in 1 .. N PROVE Calm(L(l))
  <2>. DEFINE E == {Staged(l, p), LastCopy(ms, l, p, first)}
  <2>1. Staged(l, p) \in E /\ LastCopy(ms, l, p, first) \in E
    OBVIOUS
  <2>. HIDE DEF E
  <2>. QED BY <1>1, <2>1, LayerSound
<1>2. N \in Nat
  OBVIOUS
<1>. HIDE DEF L, N
<1>3. DOMAIN f = 1 .. N /\ f = [i \in 1 .. N |-> f[i]] /\ \A i \in 1 .. N : Calm(f[i])
  BY <1>1
<1>4. Layers(ms, h, p, first) = Prefetch(ms, 1, p) \o FlattenSeq(f)
  BY DEF Layers, L, N
<1>. HIDE DEF f
<1>5. Calm(FlattenSeq(f))
  BY <1>2, <1>3, CalmFlatten
<1>. QED BY <1>4, <1>5, PrefetchCalm, CalmConcat

-----------------------------------------------------------------------------
(* Before and after the layers.                                            *)

(* The host writes a token or its position.                                *)
LEMMA PutIs ==
    ASSUME NEW out, NEW n, NEW f, NEW l, NEW p
    PROVE  Quiet(Put(out, n, f, l, p))
BY PutOpIs, QuietAt DEF Put

(* What a step begins with ...                                             *)
LEMMA PrologueCalm ==
    ASSUME NEW ms, NEW h, NEW p
    PROVE  Calm(Prologue(ms, h, p))
BY PutIs, PerLayerInputsCalm, CalmOne, CalmTwo, CalmWhen, CalmConcat DEF Prologue

(* ... and what it ends with.                                              *)
LEMMA FinalCalm ==
    ASSUME NEW ms, NEW h
    PROVE  Calm(FinalLogits(ms, h)) /\ Calm(Argmax(ms)) /\ Calm(Sampler(ms))
BY KIs, CalmOne, CalmTwo DEF FinalLogits, Argmax, Sampler

-----------------------------------------------------------------------------
(* Chunks of a prompt.                                                     *)

(* Nothing is mild.                                                        *)
LEMMA MildNone == Mild(<<>>)
BY CalmNone, CalmIsMild

(* A refusal waits for nothing.                                            *)
LEMMA RefusalMild == Mild(Refusal)
<1>1. Gentle(OnHost("error", "", "", 0, {}))
  BY OnHostIs DEF OfHosts, Awaiting, Gentle
<1>. QED BY <1>1, MildOne DEF Refusal

(* Query, key and value of a chunk,                                        *)
LEMMA ChunkQkvCalm ==
    ASSUME NEW l, NEW m \in LayerType
    PROVE  Calm(ChunkQkv(l, m))
<1>1. m.proj \in {"native", "prequant", "plain", "cutlass"}
  BY DEF LayerType, Formats
<1>. QED BY <1>1, KIs, KernelIs, QuantiseCalm, PrepareCalm, CalmOne, CalmThree, CalmConcat DEF ChunkQkv, From

(* their norms,                                                            *)
LEMMA ChunkNormsCalm ==
    ASSUME NEW l, NEW m
    PROVE  Calm(ChunkNorms(l, m))
BY KIs, CalmOne, CalmTwo, CalmWhen, CalmConcat DEF ChunkNorms, ChunkNormOne

(* the rotation,                                                           *)
LEMMA RotatedKeyQuiet ==
    ASSUME NEW l, NEW m
    PROVE  Quiet(RotatedKey(l, m))
BY KIs, QuietAlso DEF RotatedKey

(* the rows stored                                                         *)
LEMMA ChunkStoreQuiet ==
    ASSUME NEW l, NEW m, NEW buf, NEW n
    PROVE  Quiet(ChunkStore(l, m, buf, n))
BY DEF ChunkStore, Also, K, Op, Quiet, Good, Interfering, OnStream, Streams

(* and attended to,                                                        *)
LEMMA ChunkAttendQuiet ==
    ASSUME NEW l, NEW m, NEW query, NEW buf, NEW p
    PROVE  Quiet(ChunkAttend(l, m, query, buf, p))
BY DEF ChunkAttend, Also, K, Op, Quiet, Good, Interfering, OnStream, Streams

(* with the cache in VRAM                                                  *)
LEMMA InVramCalm ==
    ASSUME NEW l, NEW m, NEW p, NEW n, NEW query
    PROVE  Calm(InVram(l, m, p, n, query))
BY ChunkStoreQuiet, ChunkAttendQuiet, CalmTwo DEF InVram

(* or in host memory.                                                      *)
LEMMA ThroughHostMild ==
    ASSUME NEW l, NEW m, NEW p, NEW n, NEW query
    PROVE  Mild(ThroughHost(l, m, p, n, query))
<1>. DEFINE staging == <<"staging", 0>>
            Moved(kind, k, q, from, to) == [At(Op(kind, "compute", "", "", "", l, k, {}), q) EXCEPT !.id = from, !.out = to]
            a == Moved("load", 0, p + 1 - n, <<"host", l>>, staging)
            b == RotatedKey(l, m)
            c == ChunkStore(l, m, staging, n)
            d == ChunkAttend(l, m, query, staging, p)
            e == Moved("save", n - 1, p, staging, <<"host", l>>)
            f == OnHost("sync", "", "", l, {})
            s == <<a, b, c, d, e, f>>
            S == {a, b, c, d, e, f}
<1>1. Gentle(a) /\ Gentle(e)
  BY DEF At, Op, Gentle, Good, Awaiting, OnStream, Streams
<1>2. Gentle(b) /\ Gentle(c) /\ Gentle(d)
  BY RotatedKeyQuiet, ChunkStoreQuiet, ChunkAttendQuiet DEF Quiet, Gentle, Interfering, Awaiting
<1>3. Gentle(f)
  BY OnHostIs DEF OfHosts, Awaiting, Gentle
<1>4. ThroughHost(l, m, p, n, query) = s
  BY DEF ThroughHost
<1>. HIDE DEF a, b, c, d, e, f
<1>5. s \in Seq(S) /\ \A x \in S : Gentle(x)
  BY <1>1, <1>2, <1>3
<1>. HIDE DEF s, S
<1>6. Mild(s)
  BY <1>5 DEF Mild
<1>. QED BY <1>4, <1>6

(* The attention of a chunk,                                               *)
LEMMA ChunkAttentionMild ==
    ASSUME NEW l, NEW m \in LayerType, NEW p, NEW n
    PROVE  Mild(ChunkAttention(l, m, p, n))
<1>. DEFINE q == <<Also(K(l, "q_half", QueryName(m), {<<"gate", IF m.qnorm THEN "qns" ELSE "q">>}), Batch)>>
            cache == CASE m.hostKv /\ m.parent # 0 -> Refusal
                       [] m.hostKv /\ m.parent = 0 -> ThroughHost(l, m, p, n, "q_half")
                       [] ~m.hostKv                -> <<RotatedKey(l, m)>> \o InVram(l, m, p, n, "q_half")
            o == Matvec(l, 0, m.oproj, "qkv", "ctx", "quant_hidden", "mxfp4_hidden", "input_normed", "o")
            norm == When(m.post, <<K(l, "qkv", "on", {<<"input_normed", "o">>})>>)
            sum == <<K(l, "hidden", "residual", {<<"hidden", "x">>, IF m.post THEN <<"qkv", "on">> ELSE <<"input_normed", "o">>})>>
<1>1. Mild(cache)
  <2>1. Calm(<<RotatedKey(l, m)>> \o InVram(l, m, p, n, "q_half"))
    BY RotatedKeyQuiet, InVramCalm, CalmOne, CalmConcat
  <2>2. m.hostKv \in BOOLEAN
    BY DEF LayerType
  <2>. QED BY <2>1, <2>2, RefusalMild, ThroughHostMild, CalmIsMild
<1>2. Calm(q) /\ Calm(norm) /\ Calm(sum)
  BY KIs, QuietAlso, CalmOne, CalmWhen
<1>3. Calm(o)
  <2>1. m.oproj \in Formats
    BY DEF LayerType
  <2>. QED BY <2>1, MatvecCalm
<1>4. ChunkAttention(l, m, p, n) = ChunkQkv(l, m) \o ChunkNorms(l, m) \o q \o cache \o o \o norm \o sum
  BY DEF ChunkAttention
<1>. HIDE DEF q, cache, o, norm, sum
<1>. QED BY <1>1, <1>2, <1>3, <1>4, ChunkQkvCalm, ChunkNormsCalm, CalmIsMild, MildConcat

(* the one with a gate                                                     *)
LEMMA ChunkGatedAttentionCalm ==
    ASSUME NEW l, NEW m \in LayerType, NEW p, NEW n
    PROVE  Calm(ChunkGatedAttention(l, m, p, n))
<1>1. Unfused(m.proj) \in Formats /\ Unfused(m.oproj) \in Formats
  BY DEF LayerType, Formats, Unfused
<1>. QED BY <1>1, MatvecCalm, RotatedKeyQuiet, InVramCalm, KIs, QuietAlso, CalmOne, CalmTwo, CalmWhen, CalmConcat
         DEF ChunkGatedAttention, ChunkNormOne

(* and the delta net.                                                      *)
LEMMA ChunkDeltaNetMild ==
    ASSUME NEW l, NEW m \in LayerType
    PROVE  Mild(ChunkDeltaNet(l, m))
BY GatedDeltaNetCalm, RefusalMild, KIs, CalmOne, CalmIsMild, MildConcat DEF ChunkDeltaNet

(* The down projection of a chunk                                          *)
LEMMA ChunkDownCalm ==
    ASSUME NEW l, NEW m \in LayerType, m.down # "plain"
    PROVE  Calm(ChunkDown(l, m))
<1>1. m.down \in {"cutlass", "native", "prequant"}
  BY DEF LayerType, Formats
<1>2. "prequant" \in Formats
  BY DEF Formats
<1>. QED BY <1>1, <1>2, MatvecCalm, KernelIs, CalmOne, CalmTwo, CalmConcat DEF ChunkDown, From

(* and the sum with it:                                                    *)
LEMMA AddMlpCalm ==
    ASSUME NEW l, NEW m, NEW b, NEW normed
    PROVE  Calm(AddMlp(l, m, b, normed))
BY KIs, CalmOne, CalmWhen, CalmConcat DEF AddMlp

(* the dense MLP of a chunk.                                               *)
LEMMA ChunkDenseMlpMild ==
    ASSUME NEW l, NEW m \in LayerType
    PROVE  Mild(ChunkDenseMlp(l, m))
<1>. DEFINE up == IF m.gateup = "plain" THEN GateUp(l, m)
                  ELSE <<K(l, "post_normed", "normed2", {<<"residual", "residual">>})>> \o Refusal
            act == <<K(l, "swiglu", "act", {<<"gate", "g">>, <<"up", "u">>})>>
            down == IF m.down = "plain" THEN <<K(l, "mlp_out", "mlp", {<<"swiglu", "act">>})>> ELSE Refusal
            ple == When(m.ple, PleContribution(l, "hidden"))
            out == Output(l, "hidden", IF m.ple THEN "yp" ELSE "y")
            add == AddMlp(l, m, "mlp_out", "input_normed")
            nv == GateUp(l, m) \o ChunkDown(l, m) \o AddMlp(l, m, "input_normed", "qkv")
<1>1. Mild(up) /\ Mild(down)
  BY GateUpCalm, RefusalMild, KIs, CalmOne, CalmIsMild, MildConcat
<1>2. Mild(act) /\ Mild(ple) /\ Mild(out) /\ Mild(add)
  BY KIs, CalmOne, PleContributionCalm, CalmWhen, OutputCalm, AddMlpCalm, CalmIsMild
<1>3. IsNvfp4(m) => Mild(nv)
  BY GateUpCalm, ChunkDownCalm, AddMlpCalm, CalmConcat, CalmIsMild DEF IsNvfp4
<1>4. ChunkDenseMlp(l, m) = (IF IsNvfp4(m) THEN nv ELSE up \o act \o down \o add \o ple) \o out
  BY DEF ChunkDenseMlp
<1>. HIDE DEF up, act, down, ple, out, add, nv
<1>. QED BY <1>1, <1>2, <1>3, <1>4, MildConcat

(* The router of a chunk.                                                  *)
LEMMA ChunkRouterMild ==
    ASSUME NEW l, NEW m
    PROVE  Mild(ChunkRouter(l, m))
<1>. DEFINE first == IF m.rscale
                THEN <<K(l, "router_input", "rin", {<<"residual", "residual">>}), K(l, "router_logits", "rl", {<<"router_input", "rin">>})>>
                ELSE <<K(l, "router_logits", "rl of hidden", {<<"residual", "residual">>})>>
            a == K(l, "topk", "topk", {<<"router_logits", "rl">>})
            b == K(l, "expert_counts", "counts", {<<"topk", "topk">>})
            c == K(l, "expert_lists", "lists", {<<"topk", "topk">>})
            d == OnHost("download", "counts", "counts", l, {Want("expert_counts", "counts", "f32", l, 0)})
            s == <<a, b, c, d>>
            S == {a, b, c, d}
<1>1. Mild(first)
  BY KIs, CalmOne, CalmTwo, CalmIsMild
<1>2. Gentle(a) /\ Gentle(b) /\ Gentle(c)
  BY KIs DEF Quiet, Gentle, Interfering, Awaiting
<1>3. Gentle(d)
  BY OnHostIs DEF OfHosts, Awaiting, Gentle
<1>4. ChunkRouter(l, m) = first \o s
  BY DEF ChunkRouter
<1>. HIDE DEF first, a, b, c, d
<1>5. s \in Seq(S) /\ \A x \in S : Gentle(x)
  BY <1>2, <1>3
<1>. HIDE DEF s, S
<1>6. Mild(s)
  BY <1>5 DEF Mild
<1>. QED BY <1>1, <1>4, <1>6, MildConcat

(* The copies of one kind of weights, and the kernel that waits for them.  *)
LEMMA StageExpertsCalm ==
    ASSUME NEW l, NEW p, NEW which
    PROVE  Calm(StageExperts(l, p, which)) /\ <<which, l, p>> \in Events(StageExperts(l, p, which))
<1>. DEFINE e == <<which, l, p>>
            a == OfCounts(Op("upload", "transfer", Bulk[which], which, "f32", l, 0, {}), p)
            b == Record("transfer", e)
            s == <<a, b>>
<1>1. Quiet(a)
  <2>1. "transfer" \in Streams /\ "upload" \in OnStream \ Interfering
    BY DEF Streams, OnStream, Interfering
  <2>. QED BY <2>1, QuietOp, QuietAt, QuietGiven DEF OfCounts
<1>2. Quiet(b) /\ Fires(b) /\ b.id = e
  <2>1. e # <<>>
    OBVIOUS
  <2>. HIDE DEF e
  <2>. QED BY <2>1, RecordIs DEF Streams
<1>3. StageExperts(l, p, which) = s
  BY DEF StageExperts
<1>. HIDE DEF a, b, e
<1>4. 2 \in DOMAIN s /\ s[2] = b
  OBVIOUS
<1>5. Calm(s)
  BY <1>1, <1>2, CalmTwo
<1>. HIDE DEF s
<1>6. e \in Events(s)
  BY <1>2, <1>4, EventIs
<1>. QED BY <1>3, <1>5, <1>6 DEF e

(* A grouped product waits for its weights ...                             *)
LEMMA GroupedSound ==
    ASSUME NEW l, NEW p, NEW which, NEW x, NEW xn, NEW out, NEW n, NEW E, <<which, l, p>> \in E
    PROVE  Sound(Grouped(l, p, which, x, xn, out, n), E)
<1>. DEFINE a == Wait("compute", <<which, l, p>>)
            b == K(l, out, n, {<<Bulk[which], which>>, <<"token_offsets", "offsets">>, <<x, xn>>})
            s == <<a, b>>
            S == {a, b}
<1>1. Good(a) /\ a.id \in E
  BY WaitIs DEF Streams
<1>2. Quiet(b)
  BY KIs
<1>3. Grouped(l, p, which, x, xn, out, n) = s
  BY DEF Grouped
<1>. HIDE DEF a, b
<1>4. s \in Seq(S) /\ (\A y \in S : Good(y)) /\ DOMAIN s = {1, 2} /\ s[1] = a /\ s[2] = b
  BY <1>1, <1>2, QuietIsGood
<1>. HIDE DEF s, S
<1>5. Program(s)
  BY <1>4 DEF Program
<1>6. Ready(s, E, 1)
  BY <1>1, <1>4 DEF Ready
<1>7. Ready(s, E, 2)
  BY <1>2, <1>4 DEF Ready, Quiet, Interfering, Awaiting
<1>8. Sound(s, E)
  BY <1>4, <1>5, <1>6, <1>7 DEF Sound
<1>. QED BY <1>3, <1>8

(* ... which the products of a chunk have asked for.                       *)
LEMMA GroupedExpertsSound ==
    ASSUME NEW l, NEW m, NEW p, NEW E
    PROVE  Sound(GroupedExperts(l, m, p), E)
<1>. DEFINE a == OfCounts(Op("put", "compute", "token_offsets", "offsets", "f32", l, 0, {}), p)
            b == K(l, "expert_offsets", "eoffsets", {<<"expert_counts", "counts">>})
            c == Also(K(l, "permuted_input", "pin", {<<"expert_input", "ein">>, <<"expert_offsets", "eoffsets">>}), Lists(l))
            s == <<a, b, c>>
            g == StageExperts(l, p, "wgate")
            u == StageExperts(l, p, "wup")
            d == StageExperts(l, p, "wdown")
            kg == Grouped(l, p, "wgate", "permuted_input", "pin", "permuted_intermediate", "eg")
            ku == Grouped(l, p, "wup", "permuted_input", "pin", "permuted_swiglu", "eu")
            act == <<K(l, "permuted_swiglu", "eact", {<<"permuted_intermediate", "eg">>, <<"permuted_swiglu", "eu">>})>>
            kd == Grouped(l, p, "wdown", "permuted_swiglu", "eact", "permuted_output", "eo")
            acc == <<Accumulate(l, TopK, Lists(l) \cup {Before(l, 1), Want("permuted_output", "eo", "f32", l, 0),
                                                        Want("expert_offsets", "eoffsets", "f32", l, 0)})>>
            staged == s \o g \o u \o d
            L == E \cup Events(staged)
<1>1. Calm(s)
  BY PutOpIs, KIs, QuietAlso, QuietAt, QuietGiven, CalmThree DEF OfCounts
<1>2. Calm(g) /\ Calm(u) /\ Calm(d)
  BY StageExpertsCalm
<1>3. Calm(act) /\ Calm(acc)
  BY KIs, KernelIs, CalmOne DEF Accumulate
<1>4. <<"wgate", l, p>> \in Events(g) /\ <<"wup", l, p>> \in Events(u) /\ <<"wdown", l, p>> \in Events(d)
  BY StageExpertsCalm
<1>5. GroupedExperts(l, m, p) = s \o g \o u \o d \o kg \o ku \o act \o kd \o acc
  BY DEF GroupedExperts
<1>. HIDE DEF s, g, u, d
<1>6. Calm(staged)
  BY <1>1, <1>2, CalmConcat
<1>7. Events(g) \cup Events(u) \cup Events(d) \subseteq Events(staged)
  <2>1. Program(s) /\ Program(g) /\ Program(u) /\ Program(d)
    BY <1>1, <1>2, CalmIsProgram
  <2>2. Program(s \o g) /\ Program(s \o g \o u)
    BY <2>1, ProgramConcat
  <2>. QED BY <2>1, <2>2, EventsConcat
<1>. HIDE DEF staged
<1>8. \A M : Sound(kg, L \cup M) /\ Sound(ku, L \cup M) /\ Sound(kd, L \cup M)
  <2>. TAKE M
  <2>. DEFINE X == L \cup M
  <2>1. <<"wgate", l, p>> \in X /\ <<"wup", l, p>> \in X /\ <<"wdown", l, p>> \in X
    BY <1>4, <1>7
  <2>. HIDE DEF X
  <2>2. Sound(kg, X) /\ Sound(ku, X) /\ Sound(kd, X)
    BY <2>1, GroupedSound
  <2>. QED BY <2>2 DEF X
<1>. HIDE DEF kg, ku, kd, act, acc
<1>9. Sound(staged \o kg, E)
  <2>1. Sound(kg, L)
    <3>1. L \cup {} = L
      OBVIOUS
    <3>. HIDE DEF L
    <3>. QED BY <1>8, <3>1
  <2>. QED BY <1>6, <2>1, CalmIsSound, SoundConcat
<1>10. Sound(staged \o kg \o ku, E)
  <2>1. Events(staged \o kg) = Events(staged) \cup Events(kg)
    BY <1>6, <1>8, CalmIsProgram, SoundIsProgram, EventsConcat
  <2>2. E \cup Events(staged \o kg) = L \cup Events(kg)
    BY <2>1
  <2>3. Sound(ku, E \cup Events(staged \o kg))
    BY <1>8, <2>2
  <2>. QED BY <1>9, <2>3, SoundConcat
<1>11. Sound(staged \o kg \o ku \o act, E)
  BY <1>3, <1>10, SoundThenCalm
<1>12. Sound(staged \o kg \o ku \o act \o kd, E)
  <2>. DEFINE x == staged \o kg \o ku \o act
  <2>1. Events(staged) \subseteq Events(x)
    <3>1. Program(staged) /\ Program(kg) /\ Program(ku) /\ Program(act)
      BY <1>3, <1>6, <1>8, CalmIsProgram, SoundIsProgram
    <3>2. Program(staged \o kg) /\ Program(staged \o kg \o ku)
      BY <3>1, ProgramConcat
    <3>. QED BY <3>1, <3>2, EventsConcat
  <2>. HIDE DEF x
  <2>2. E \cup Events(x) = L \cup (E \cup Events(x))
    BY <2>1
  <2>3. Sound(kd, E \cup Events(x))
    <3>. DEFINE M == E \cup Events(x)
    <3>1. Sound(kd, L \cup M)
      BY <1>8
    <3>. QED BY <2>2, <3>1
  <2>4. Sound(x, E)
    BY <1>11 DEF x
  <2>5. Sound(x \o kd, E)
    BY <2>3, <2>4, SoundConcat
  <2>. QED BY <2>5 DEF x
<1>13. Sound(staged \o kg \o ku \o act \o kd \o acc, E)
  BY <1>3, <1>12, SoundThenCalm
<1>. QED BY <1>5, <1>13 DEF staged

(* One expert of the host's choice, on gathered rows.                      *)
LEMMA GatheredExpertCalm ==
    ASSUME NEW l, NEW m, NEW k, NEW p
    PROVE  Calm(GatheredExpert(l, m, k, p))
<1>. DEFINE fmt == IF m.gateup = "native" THEN "native" ELSE "prequant"
            Linear(x, xn, out, n) == Matvec(l, k, fmt, x, xn, "quant_expert", "mxfp4_expert", out, n)
            Gather == Op("kernel", "compute", "gather_input", "gin", "f32", l, k,
                         Lists(l) \cup {Want("expert_input", "ein", "f32", l, 0)})
<1>1. fmt \in Formats
  BY DEF Formats
<1>2. \A x, xn, out, n : Calm(Linear(x, xn, out, n))
  <2>. HIDE DEF fmt
  <2>. QED BY <1>1, MatvecCalm
<1>3. Calm(<<OfCounts(Gather, p)>>)
  BY KernelIs, QuietAt, QuietGiven, CalmOne DEF OfCounts
<1>4. GatheredExpert(l, m, k, p) =
        <<OfCounts(Gather, p)>>
        \o Linear("gather_input", "gin", "expert_gate", "eg") \o Linear("gather_input", "gin", "expert_up", "eu")
        \o <<KS(l, k, "expert_swiglu", "eact", {<<"expert_gate", "eg">>, <<"expert_up", "eu">>})>>
        \o Linear("expert_swiglu", "eact", "moe_acc", "eo")
        \o <<Accumulate(l, k, {Before(l, k), Want("moe_acc", "eo", "f32", l, k)})>>
  BY DEF GatheredExpert
<1>. HIDE DEF Linear, Gather
<1>. QED BY <1>2, <1>3, <1>4, KSIs, KernelIs, CalmOne, CalmConcat DEF Accumulate

(* The sum of the experts and the residual.                                *)
LEMMA ChunkCombineCalm ==
    ASSUME NEW l, NEW m
    PROVE  Calm(ChunkCombine(l, m))
BY KIs, KernelIs, QuietAlso, CalmTwo, CalmThree, CalmWhen, CalmConcat DEF ChunkCombine

(* A mixture of experts waits only for copies of its own.                  *)
LEMMA ChunkMoeSound ==
    ASSUME NEW l, NEW m \in LayerType, NEW p, NEW E
    PROVE  Sound(ChunkMoe(l, m, p), E)
<1>. DEFINE mm == [m EXCEPT !.gateup = Unfused(@)]
            a == <<K(l, "post_normed", "normed2", {<<"residual", "residual">>})>>
            b == IF ~m.shared THEN Refusal ELSE SharedExpert(l, mm)
            c == <<K(l, "stream1", "sn", {<<"moe_acc", "shared">>})>>
            d == ExpertInput(l, m, "expert_input")
            e == ChunkRouter(l, m)
            z == <<Zero("routed_acc")>>
            f == IF m.hostWeights THEN GroupedExperts(l, m, p)
                 ELSE GatheredExpert(l, m, 1, p) \o GatheredExpert(l, m, 2, p)
            g == ChunkCombine(l, m)
            o == Output(l, "hidden", "y")
            x == a \o b \o c \o d \o e \o z
<1>1. mm.gateup \in Formats
  BY DEF LayerType, Formats, Unfused
<1>2. Mild(b)
  <2>. HIDE DEF mm
  <2>. QED BY <1>1, RefusalMild, SharedExpertCalm, CalmIsMild
<1>3. Mild(a) /\ Mild(c) /\ Mild(d) /\ Mild(e) /\ Mild(z)
  BY KIs, ZeroIs, CalmOne, ExpertInputCalm, ChunkRouterMild, CalmIsMild
<1>4. \A L : Sound(f, L)
  BY GroupedExpertsSound, GatheredExpertCalm, CalmConcat, CalmIsSound
<1>5. Calm(g) /\ Calm(o)
  BY ChunkCombineCalm, OutputCalm
<1>6. ChunkMoe(l, m, p) = x \o f \o g \o o
  BY DEF ChunkMoe
<1>. HIDE DEF a, b, c, d, e, z, f, g, o
<1>7. Mild(x)
  BY <1>2, <1>3, MildConcat
<1>. HIDE DEF x
<1>8. Sound(x \o f, E)
  BY <1>4, <1>7, MildIsSound, SoundConcat
<1>. QED BY <1>5, <1>6, <1>8, SoundThenCalm

(* A layer of a chunk.                                                     *)
LEMMA ChunkLayerSound ==
    ASSUME NEW ms \in Seq(LayerType), NEW l \in 1 .. Len(ms), NEW p, NEW n, NEW E
    PROVE  Sound(ChunkLayer(ms, l, p, n), E)
<1>. DEFINE m == ms[l]
            mixer == CASE m.mixer = "gdn" -> ChunkDeltaNet(l, m)
                       [] m.mixer # "gdn" /\ m.gated  -> ChunkGatedAttention(l, m, p, n)
                       [] m.mixer # "gdn" /\ ~m.gated -> ChunkAttention(l, m, p, n)
            mlp == IF m.moe = "none" THEN ChunkDenseMlp(l, m) ELSE ChunkMoe(l, m, p)
<1>1. m \in LayerType
  OBVIOUS
<1>2. ChunkLayer(ms, l, p, n) = mixer \o mlp
  BY DEF ChunkLayer
<1>. HIDE DEF m
<1>3. Mild(mixer)
  <2>1. m.gated \in BOOLEAN
    BY <1>1 DEF LayerType
  <2>. QED BY <1>1, <2>1, ChunkDeltaNetMild, ChunkGatedAttentionCalm, ChunkAttentionMild, CalmIsMild
<1>4. \A L : Sound(mlp, L)
  BY <1>1, ChunkDenseMlpMild, MildIsSound, ChunkMoeSound
<1>. HIDE DEF mixer, mlp
<1>5. Sound(mixer, E) /\ Sound(mlp, E \cup Events(mixer))
  BY <1>3, <1>4, MildIsSound
<1>6. Sound(mixer \o mlp, E)
  BY <1>5, SoundConcat
<1>. QED BY <1>2, <1>6, Zenon

(* Sequences that wait only for events of their own, one after the other.  *)
LEMMA SoundFlatten ==
    ASSUME NEW N \in Nat, NEW h, NEW E, DOMAIN h = 1 .. N, h = [i \in 1 .. N |-> h[i]],
           \A i \in 1 .. N : \A M : Sound(h[i], M)
    PROVE  Sound(FlattenSeq(h), E)
<1>. DEFINE F(n) == [i \in 1 .. n |-> h[i]]
            T == {n \in Nat : n <= N => Sound(FlattenSeq(F(n)), E)}
<1>1. 0 \in T
  <2>1. F(0) = <<>>
    OBVIOUS
  <2>. HIDE DEF F
  <2>. QED BY <2>1, FlattenEmpty, SoundNone
<1>2. ASSUME NEW n \in Nat, n \in T PROVE n + 1 \in T
  <2>. SUFFICES ASSUME n + 1 <= N PROVE Sound(FlattenSeq(F(n + 1)), E)
    OBVIOUS
  <2>. DEFINE f == F(n)
              g == F(n + 1)
  <2>1. f = [i \in 1 .. n |-> f[i]] /\ g = [i \in 1 .. n + 1 |-> g[i]] /\ \A i \in 1 .. n : g[i] = f[i]
    OBVIOUS
  <2>2. \A i \in 1 .. n + 1 : g[i] = h[i]
    OBVIOUS
  <2>. HIDE DEF f, g
  <2>3. ASSUME NEW i \in 1 .. n + 1 PROVE \A M : Sound(g[i], M)
    <3>1. i \in 1 .. N
      OBVIOUS
    <3>. QED BY <2>2, <3>1
  <2>4. \A i \in 1 .. n + 1 : Program(g[i])
    BY <2>3, SoundIsProgram
  <2>5. FlattenSeq(g) = FlattenSeq(f) \o g[n + 1]
    BY <2>1, <2>4, FlattenNext
  <2>6. Sound(FlattenSeq(f), E)
    BY <1>2 DEF f
  <2>7. Sound(g[n + 1], E \cup Events(FlattenSeq(f)))
    <3>1. n + 1 \in 1 .. n + 1
      OBVIOUS
    <3>. QED BY <2>3, <3>1
  <2>8. Sound(FlattenSeq(g), E)
    BY <2>5, <2>6, <2>7, SoundConcat
  <2>. QED BY <2>8 DEF g
<1>. HIDE DEF T
<1>3. N \in T
  BY <1>1, <1>2, Induction
<1>4. F(N) = h
  BY Zenon
<1>. QED BY <1>3, <1>4 DEF T

(* In the scratch of a chunk.                                              *)
LEMMA OnChunkSound ==
    ASSUME NEW ops, NEW n, NEW E, Sound(ops, E)
    PROVE  Sound(OnChunk(ops, n), E)
<1>. DEFINE b == OnChunk(ops, n)
<1>1. b = [i \in DOMAIN ops |-> b[i]]
  BY DEF OnChunk
<1>2. ASSUME NEW i \in DOMAIN ops PROVE Alike(b[i], ops[i])
  <2>. DEFINE x == ops[i]
              y == b[i]
  <2>1. Good(x)
    BY SoundIsProgram, ProgramIs
  <2>2. DOMAIN y = DOMAIN x /\ y.kind = x.kind /\ y.stream = x.stream /\ y.id = x.id
    BY <2>1 DEF OnChunk, Good
  <2>. HIDE DEF x, y
  <2>3. Alike(y, x)
    BY <2>1, <2>2, SameKind
  <2>. QED BY <2>3 DEF x, y
<1>. HIDE DEF b
<1>3. Sound(b, E)
  BY <1>1, <1>2, SoundAlike
<1>. QED BY <1>3 DEF b

(* A chunk waits only for events of its own.                               *)
LEMMA ChunkSound ==
    ASSUME NEW ms \in Seq(LayerType), NEW h, NEW p, NEW n, NEW E
    PROVE  Sound(Chunk(ms, h, p, n), E)
<1>. DEFINE a == <<Put("batch", "position", "f32", 0, p), Put("hidden", "x", "f32", 1, p)>>
            b == When(\E l \in DOMAIN ms : ms[l].ple,
                      PerLayerInputs("hidden", <<Put("ple_bf16_in", "rowbf16", "f32", 0, p)>>))
            L(l) == ChunkLayer(ms, l, p, n)
            f == [l \in 1 .. Len(ms) |-> L(l)]
            c == FlattenSeq(f)
            d == <<Op("kernel", "compute", h, "x", "f32", Len(ms) + 1, 0,
                      {[Want("hidden", "x", "f32", Len(ms) + 1, 0) EXCEPT !.buf = OfChunk(@)]})>>
<1>1. Calm(a) /\ Calm(b) /\ Calm(d)
  BY PutIs, PerLayerInputsCalm, KernelIs, CalmOne, CalmTwo, CalmWhen
<1>2. Sound(c, E)
  <2>. DEFINE N == Len(ms)
  <2>1. \A l \in 1 .. N : \A M : Sound(L(l), M)
    BY ChunkLayerSound
  <2>2. N \in Nat
    OBVIOUS
  <2>3. DOMAIN f = 1 .. N /\ f = [i \in 1 .. N |-> f[i]] /\ \A i \in 1 .. N : \A M : Sound(f[i], M)
    <3>. HIDE DEF L, N
    <3>. QED BY <2>1 DEF N
  <2>. HIDE DEF f, N
  <2>. QED BY <2>2, <2>3, SoundFlatten
<1>3. Chunk(ms, h, p, n) = OnChunk(a \o b \o c, n) \o d
  <2>1. DOMAIN ms = 1 .. Len(ms)
    OBVIOUS
  <2>. QED BY <2>1 DEF Chunk
<1>. HIDE DEF a, b, c, d, f
<1>4. Sound(a \o b \o c, E)
  <2>1. Calm(a \o b)
    BY <1>1, CalmConcat
  <2>. DEFINE M == E \cup Events(a \o b)
  <2>2. Sound(c, M)
    BY <1>2, SoundMore
  <2>. QED BY <2>1, <2>2, CalmIsSound, SoundConcat
<1>. QED BY <1>1, <1>3, <1>4, OnChunkSound, SoundThenCalm
-----------------------------------------------------------------------------
(* The operations of one stream.                                           *)

(* The recursion of OfStream: those among the first i operations.          *)
Selects(f, ops, s, n) == f = [i \in 0 .. n |-> IF i = 0 THEN <<>> ELSE f[i - 1] \o When(ops[i].stream = s, <<ops[i]>>)]

(* It has a solution.                                                      *)
LEMMA SelectsExists ==
    ASSUME NEW S, NEW ops \in Seq(S), NEW s
    PROVE  \A n \in Nat : n <= Len(ops) => \E f \in [0 .. n -> Seq(S)] : Selects(f, ops, s, n)
<1>. DEFINE T == {n \in Nat : n <= Len(ops) => \E f \in [0 .. n -> Seq(S)] : Selects(f, ops, s, n)}
            one(i) == When(ops[i].stream = s, <<ops[i]>>)
<1>0. ASSUME NEW i \in 1 .. Len(ops) PROVE one(i) \in Seq(S)
  <2>. DEFINE x == ops[i]
              t == <<x>>
              e == <<>>
  <2>1. x \in S
    OBVIOUS
  <2>. HIDE DEF x
  <2>2. t \in Seq(S) /\ e \in Seq(S)
    BY <2>1
  <2>. HIDE DEF t, e
  <2>. QED BY <2>2 DEF When, t, e, x
<1>1. 0 \in T
  <2>. DEFINE f == [i \in 0 .. 0 |-> <<>>]
  <2>1. f \in [0 .. 0 -> Seq(S)] /\ Selects(f, ops, s, 0)
    BY DEF Selects
  <2>. QED BY <2>1
<1>2. ASSUME NEW n \in Nat, n \in T PROVE n + 1 \in T
  <2>. SUFFICES ASSUME n + 1 <= Len(ops) PROVE \E f \in [0 .. n + 1 -> Seq(S)] : Selects(f, ops, s, n + 1)
    OBVIOUS
  <2>1. PICK f \in [0 .. n -> Seq(S)] : Selects(f, ops, s, n)
    BY <1>2
  <2>0. \A i \in 0 .. n : f[i] = IF i = 0 THEN <<>> ELSE f[i - 1] \o one(i)
    BY <2>1 DEF Selects
  <2>. DEFINE g == [i \in 0 .. n + 1 |-> IF i = n + 1 THEN f[n] \o one(i) ELSE f[i]]
  <2>2. ASSUME NEW i \in 0 .. n + 1 PROVE g[i] \in Seq(S)
    <3>1. CASE i = n + 1
      <4>1. one(i) \in Seq(S) /\ f[n] \in Seq(S) /\ g[i] = f[n] \o one(i)
        BY <1>0, <3>1
      <4>. HIDE DEF one, g
      <4>. QED BY <4>1, ConcatProperties
    <3>2. CASE i \in 0 .. n
      BY <3>2
    <3>. QED BY <3>1, <3>2
  <2>3. ASSUME NEW i \in 0 .. n + 1 PROVE g[i] = IF i = 0 THEN <<>> ELSE g[i - 1] \o one(i)
    <3>1. CASE i = n + 1
      <4>1. g[i] = f[n] \o one(i) /\ g[i - 1] = f[n] /\ i # 0
        BY <3>1
      <4>. QED BY <4>1
    <3>2. CASE i \in 0 .. n
      <4>1. g[i] = f[i]
        BY <3>2
      <4>2. ASSUME i # 0 PROVE g[i - 1] = f[i - 1]
        <5>1. i - 1 \in 0 .. n + 1 /\ i - 1 # n + 1
          BY <3>2, <4>2
        <5>. QED BY <5>1
      <4>. HIDE DEF g, one
      <4>. QED BY <2>0, <3>2, <4>1, <4>2
    <3>. QED BY <3>1, <3>2
  <2>4. g \in [0 .. n + 1 -> Seq(S)]
    BY <2>2
  <2>5. Selects(g, ops, s, n + 1)
    BY <2>3 DEF Selects
  <2>. QED BY <2>4, <2>5
<1>. HIDE DEF T
<1>3. Nat \subseteq T
  BY <1>1, <1>2, Induction
<1>. QED BY <1>3 DEF T

(* Those among the first 0, 1, 2 ... operations.                           *)
Selected(f, ops, s) ==
    /\ f[0] = <<>>
    /\ \A i \in 1 .. Len(ops) : f[i] = f[i - 1] \o When(ops[i].stream = s, <<ops[i]>>)

(* The same without the IF.                                                *)
LEMMA SelectsSelected ==
    ASSUME NEW f, NEW ops, NEW s, Len(ops) \in Nat, Selects(f, ops, s, Len(ops))
    PROVE  Selected(f, ops, s)
<1>. DEFINE n == Len(ops)
            one(i) == When(ops[i].stream = s, <<ops[i]>>)
<1>1. f = [i \in 0 .. n |-> IF i = 0 THEN <<>> ELSE f[i - 1] \o one(i)]
  BY Zenon DEF Selects
<1>. HIDE DEF one
<1>2. 0 \in 0 .. n
  OBVIOUS
<1>3. f[0] = <<>>
  BY <1>1, <1>2
<1>4. ASSUME NEW i \in 1 .. n PROVE f[i] = f[i - 1] \o one(i)
  <2>1. i \in 0 .. n /\ i # 0
    OBVIOUS
  <2>. QED BY <1>1, <2>1
<1>. QED BY <1>3, <1>4 DEF Selected, one

(* OfStream is the last of them.                                           *)
LEMMA StreamSelected ==
    ASSUME NEW S, NEW ops \in Seq(S), NEW s
    PROVE  \E f \in [0 .. Len(ops) -> Seq(S)] : Selected(f, ops, s) /\ OfStream(ops, s) = f[Len(ops)]
<1>. DEFINE n == Len(ops)
            f == CHOOSE f : Selects(f, ops, s, n)
<1>1. OfStream(ops, s) = f[n] /\ n \in Nat
  BY DEF OfStream, Selects
<1>0. n <= Len(ops) /\ n = Len(ops)
  OBVIOUS
<1>. HIDE DEF n
<1>2. PICK g : g \in [0 .. n -> Seq(S)] /\ Selects(g, ops, s, n)
  BY <1>0, <1>1, SelectsExists
<1>3. Selects(f, ops, s, n)
  BY <1>2
<1>. HIDE DEF f
<1>4. Selected(f, ops, s) /\ Selected(g, ops, s)
  BY <1>0, <1>1, <1>2, <1>3, SelectsSelected
<1>5. \A i \in Nat : i \in 0 .. n => f[i] = g[i]
  <2>. DEFINE T == {i \in Nat : i \in 0 .. n => f[i] = g[i]}
  <2>1. 0 \in T
    BY <1>4 DEF Selected
  <2>2. ASSUME NEW i \in Nat, i \in T PROVE i + 1 \in T
    <3>. SUFFICES ASSUME i + 1 \in 0 .. n PROVE f[i + 1] = g[i + 1]
      OBVIOUS
    <3>. DEFINE j == i + 1
    <3>1. j \in 1 .. n /\ j - 1 = i
      BY <1>1
    <3>2. f[i] = g[i]
      BY <1>1, <2>2
    <3>. HIDE DEF j
    <3>3. f[j] = f[j - 1] \o When(ops[j].stream = s, <<ops[j]>>) /\ g[j] = g[j - 1] \o When(ops[j].stream = s, <<ops[j]>>)
      BY <1>0, <1>4, <3>1, Zenon DEF Selected
    <3>4. f[j] = g[j]
      BY <3>1, <3>2, <3>3, Zenon
    <3>. QED BY <3>4 DEF j
  <2>. HIDE DEF T
  <2>3. Nat \subseteq T
    BY <2>1, <2>2, Induction
  <2>. QED BY <2>3 DEF T
<1>6. n \in 0 .. n
  BY <1>1
<1>. HIDE DEF n
<1>7. f[n] = g[n]
  BY <1>1, <1>5, <1>6
<1>. QED BY <1>1, <1>2, <1>4, <1>7 DEF n

(* They are operations of the sequence.                                    *)
LEMMA StreamIs ==
    ASSUME NEW S, NEW ops \in Seq(S), NEW s
    PROVE  OfStream(ops, s) \in Seq(S)
<1>. DEFINE n == Len(ops)
<1>1. PICK f : f \in [0 .. n -> Seq(S)] /\ OfStream(ops, s) = f[n]
  BY StreamSelected
<1>2. n \in 0 .. n
  OBVIOUS
<1>. HIDE DEF n
<1>. QED BY <1>1, <1>2

(* The operations of a stream in one sequence after another.               *)
LEMMA StreamConcat ==
    ASSUME NEW S, NEW a \in Seq(S), NEW b \in Seq(S), NEW s
    PROVE  OfStream(a \o b, s) = OfStream(a, s) \o OfStream(b, s)
<1>. DEFINE c == a \o b
            n == Len(a)
            m == Len(b)
            one(x, i) == When(x[i].stream = s, <<x[i]>>)
<1>1. c \in Seq(S) /\ Len(c) = n + m /\ n \in Nat /\ m \in Nat
      /\ (\A i \in 1 .. n : c[i] = a[i]) /\ (\A i \in 1 .. m : c[n + i] = b[i])
  <2>1. c \in Seq(S) /\ Len(c) = n + m /\ n \in Nat /\ m \in Nat
        /\ \A i \in 1 .. n + m : c[i] = IF i <= n THEN a[i] ELSE b[i - n]
    BY ConcatProperties
  <2>. HIDE DEF c, n, m
  <2>2. \A i \in 1 .. n : c[i] = a[i]
    BY <2>1
  <2>3. ASSUME NEW i \in 1 .. m PROVE c[n + i] = b[i]
    <3>1. n + i \in 1 .. n + m /\ ~(n + i <= n) /\ n + i - n = i
      BY <2>1
    <3>. QED BY <2>1, <3>1
  <2>. QED BY <2>1, <2>2, <2>3
<1>. HIDE DEF c
<1>2. PICK f \in [0 .. n -> Seq(S)] : Selected(f, a, s) /\ OfStream(a, s) = f[n]
  BY StreamSelected
<1>3. PICK g \in [0 .. m -> Seq(S)] : Selected(g, b, s) /\ OfStream(b, s) = g[m]
  BY StreamSelected
<1>4. PICK h : h \in [0 .. Len(c) -> Seq(S)] /\ Selected(h, c, s) /\ OfStream(c, s) = h[Len(c)]
  <2>1. c \in Seq(S)
    BY <1>1
  <2>. QED BY ONLY <2>1, StreamSelected
<1>5. n \in 1 .. Len(a) \/ n = 0
  BY <1>1
<1>. HIDE DEF n, m
<1>6. f[0] = <<>> /\ \A i \in 1 .. n : f[i] = f[i - 1] \o one(a, i)
  BY <1>2 DEF Selected, n
<1>7. g[0] = <<>> /\ \A i \in 1 .. m : g[i] = g[i - 1] \o one(b, i)
  BY <1>3 DEF Selected, m
<1>8. h[0] = <<>> /\ \A i \in 1 .. n + m : h[i] = h[i - 1] \o one(c, i)
  BY <1>1, <1>4 DEF Selected
<1>9. \A i \in 1 .. n : one(c, i) = one(a, i)
  BY <1>1
<1>10. \A i \in 1 .. m : one(c, n + i) = one(b, i)
  BY <1>1
<1>11. ASSUME NEW i \in 1 .. m PROVE one(b, i) \in Seq(S)
  <2>. DEFINE x == b[i]
              t == <<x>>
              e == <<>>
  <2>1. x \in S
    BY DEF m
  <2>. HIDE DEF x
  <2>2. t \in Seq(S) /\ e \in Seq(S)
    BY <2>1
  <2>. HIDE DEF t, e
  <2>. QED BY <2>2 DEF When, t, e, x
<1>. HIDE DEF one
<1>12. h[n] = f[n]
  <2>. DEFINE T == {i \in Nat : i \in 0 .. n => h[i] = f[i]}
  <2>1. 0 \in T
    BY <1>6, <1>8
  <2>2. ASSUME NEW i \in Nat, i \in T PROVE i + 1 \in T
    <3>. SUFFICES ASSUME i + 1 \in 0 .. n PROVE h[i + 1] = f[i + 1]
      OBVIOUS
    <3>. DEFINE j == i + 1
    <3>1. j \in 1 .. n /\ j - 1 = i /\ j \in 1 .. n + m
      BY <1>1
    <3>2. h[i] = f[i]
      BY <1>1, <2>2
    <3>. HIDE DEF j
    <3>3. h[j] = h[i] \o one(c, j) /\ f[j] = f[i] \o one(a, j) /\ one(c, j) = one(a, j)
      BY <1>6, <1>8, <1>9, <3>1
    <3>4. h[j] = f[j]
      BY <3>2, <3>3
    <3>. QED BY <3>4 DEF j
  <2>. HIDE DEF T
  <2>3. n \in T
    BY <1>1, <2>1, <2>2, Induction
  <2>. QED BY <1>1, <2>3 DEF T
<1>13. h[n + m] = f[n] \o g[m]
  <2>. DEFINE T == {i \in Nat : i \in 0 .. m => h[n + i] = f[n] \o g[i]}
  <2>0. f[n] \in Seq(S)
    BY <1>1
  <2>1. 0 \in T
    <3>1. f[n] \o <<>> = f[n]
      BY <2>0, ConcatEmptySeq
    <3>2. n + 0 = n
      BY <1>1
    <3>. QED BY <1>7, <1>12, <3>1, <3>2
  <2>2. ASSUME NEW i \in Nat, i \in T PROVE i + 1 \in T
    <3>0. i + 1 \in Nat
      OBVIOUS
    <3>. SUFFICES ASSUME i + 1 \in 0 .. m PROVE h[n + (i + 1)] = f[n] \o g[i + 1]
      BY <3>0, Zenon
    <3>. DEFINE j == i + 1
                k == n + j
    <3>1. j \in 1 .. m /\ j - 1 = i /\ k \in 1 .. n + m /\ k - 1 = n + i /\ i \in 0 .. m
      BY <1>1
    <3>2. h[n + i] = f[n] \o g[i]
      BY <2>2, <3>1
    <3>3. one(c, k) = one(b, j)
      BY <1>10, <3>1
    <3>. HIDE DEF k, j
    <3>4. h[k] = h[n + i] \o one(c, k) /\ g[j] = g[i] \o one(b, j)
      BY <1>7, <1>8, <3>1
    <3>5. f[n] \in Seq(S) /\ g[i] \in Seq(S) /\ one(b, j) \in Seq(S)
      BY <1>11, <2>0, <3>1
    <3>6. (f[n] \o g[i]) \o one(b, j) = f[n] \o (g[i] \o one(b, j))
      <4>. DEFINE x == f[n]
                  y == g[i]
                  z == one(b, j)
      <4>1. x \in Seq(S) /\ y \in Seq(S) /\ z \in Seq(S)
        BY <3>5
      <4>. HIDE DEF x, y, z
      <4>2. (x \o y) \o z = x \o (y \o z)
        BY <4>1, ConcatAssociative
      <4>. QED BY <4>2 DEF x, y, z
    <3>7. h[k] = f[n] \o g[j]
      BY <3>2, <3>3, <3>4, <3>6
    <3>. QED BY <3>7 DEF k, j
  <2>. HIDE DEF T
  <2>3. m \in T
    BY <1>1, <2>1, <2>2, Induction
  <2>. QED BY <1>1, <2>3 DEF T
<1>. QED BY <1>1, <1>2, <1>3, <1>4, <1>13 DEF c

(* None of nothing.                                                        *)
LEMMA StreamNone ==
    ASSUME NEW s
    PROVE  OfStream(<<>>, s) = <<>>
<1>. DEFINE e == <<>>
            S == {}
<1>1. e \in Seq(S) /\ Len(e) = 0
  OBVIOUS
<1>. HIDE DEF e, S
<1>2. PICK f : Selected(f, e, s) /\ OfStream(e, s) = f[Len(e)]
  BY <1>1, StreamSelected
<1>3. f[0] = <<>>
  BY <1>2 DEF Selected
<1>. QED BY <1>1, <1>2, <1>3 DEF e

(* An operation alone.                                                     *)
LEMMA StreamOne ==
    ASSUME NEW x, NEW s
    PROVE  OfStream(<<x>>, s) = When(x.stream = s, <<x>>)
<1>. DEFINE e == <<x>>
            S == {x}
            w == When(x.stream = s, <<x>>)
<1>1. e \in Seq(S) /\ Len(e) = 1 /\ e[1] = x
  OBVIOUS
<1>2. w \in Seq(S)
  <2>. DEFINE z == <<>>
  <2>1. e \in Seq(S) /\ z \in Seq(S)
    OBVIOUS
  <2>. HIDE DEF S, z, e
  <2>. QED BY <2>1 DEF When, e, z
<1>. HIDE DEF e, S
<1>3. PICK f : Selected(f, e, s) /\ OfStream(e, s) = f[Len(e)]
  BY <1>1, StreamSelected
<1>4. f[0] = <<>> /\ f[1] = f[0] \o When(e[1].stream = s, <<e[1]>>)
  <2>1. 1 \in 1 .. Len(e) /\ 1 - 1 = 0
    BY <1>1
  <2>. QED BY <1>3, <2>1 DEF Selected
<1>5. f[1] = <<>> \o w
  BY <1>1, <1>4
<1>. HIDE DEF w
<1>6. <<>> \o w = w
  BY <1>2, ConcatEmptySeq
<1>. QED BY <1>1, <1>3, <1>5, <1>6 DEF e, w

(* None when no operation is of the stream.                                *)
LEMMA StreamSkips ==
    ASSUME NEW S, NEW ops \in Seq(S), NEW s, \A i \in 1 .. Len(ops) : ops[i].stream # s
    PROVE  OfStream(ops, s) = <<>>
<1>. DEFINE n == Len(ops)
<1>1. PICK f : f \in [0 .. n -> Seq(S)] /\ Selected(f, ops, s) /\ OfStream(ops, s) = f[n]
  BY StreamSelected
<1>2. n \in Nat
  OBVIOUS
<1>3. f[0] = <<>> /\ \A i \in 1 .. n : f[i] = f[i - 1] \o <<>>
  BY <1>1 DEF Selected, When
<1>. HIDE DEF n
<1>. DEFINE T == {i \in Nat : i \in 0 .. n => f[i] = <<>>}
<1>4. 0 \in T
  BY <1>3
<1>5. ASSUME NEW i \in Nat, i \in T PROVE i + 1 \in T
  <2>. SUFFICES ASSUME i + 1 \in 0 .. n PROVE f[i + 1] = <<>>
    OBVIOUS
  <2>. DEFINE j == i + 1
              e == <<>>
  <2>1. j \in 1 .. n /\ j - 1 = i /\ i \in 0 .. n
    BY <1>2
  <2>2. f[i] = e /\ f[i] \in Seq(S)
    BY <1>1, <1>5, <2>1
  <2>. HIDE DEF j
  <2>3. f[j] = f[i] \o <<>>
    BY <1>3, <2>1
  <2>4. f[i] \o <<>> = f[i]
    BY <2>2, ConcatEmptySeq
  <2>. QED BY <2>2, <2>3, <2>4 DEF j
<1>. HIDE DEF T
<1>6. n \in T
  BY <1>2, <1>4, <1>5, Induction
<1>. QED BY <1>1, <1>2, <1>6 DEF T
(* The first operation of a stream, and the operations around it.          *)
Splits(M, s, a, x, b) ==
    /\ M = (a \o <<x>>) \o b
    /\ x.stream = s
    /\ OfStream(a, s) = <<>>

(* A stream that is not empty has one.                                     *)
LEMMA FirstOfStream ==
    ASSUME NEW S, NEW M \in Seq(S), NEW s, OfStream(M, s) # <<>>
    PROVE  \E a \in Seq(S), x \in S, b \in Seq(S) : Splits(M, s, a, x, b)
<1>. DEFINE N == Len(M)
            stops == {i \in 1 .. N : M[i].stream = s}
<1>1. stops # {}
  BY StreamSkips
<1>2. PICK i \in stops : \A j \in stops : i <= j
  <2>1. stops \subseteq Nat
    OBVIOUS
  <2>. HIDE DEF stops
  <2>. QED BY <1>1, <2>1, LeastNat
<1>3. N \in Nat /\ i \in 1 .. N
  OBVIOUS
<1>. DEFINE a == SubSeq(M, 1, i - 1)
            b == SubSeq(M, i + 1, N)
            x == M[i]
<1>4. x \in S /\ x.stream = s
  OBVIOUS
<1>5. a \in Seq(S) /\ Len(a) = i - 1 /\ \A j \in 1 .. i - 1 : a[j] = M[j]
  <2>1. \A j \in 1 .. i - 1 : M[j] \in S
    BY <1>3
  <2>2. /\ a \in Seq(S) /\ Len(a) = IF 1 <= i - 1 THEN i - 1 - 1 + 1 ELSE 0
        /\ \A j \in 1 .. i - 1 - 1 + 1 : a[j] = M[1 + j - 1]
    BY <1>3, <2>1, SubSeqProperties
  <2>. HIDE DEF a, stops
  <2>. QED BY <1>3, <2>2
<1>6. b \in Seq(S)
  <2>1. \A j \in i + 1 .. N : M[j] \in S
    BY <1>3
  <2>. QED BY <1>3, <2>1, SubSeqProperties
<1>7. OfStream(a, s) = <<>>
  <2>1. \A j \in 1 .. Len(a) : a[j].stream # s
    <3>. SUFFICES ASSUME NEW j \in 1 .. Len(a) PROVE a[j].stream # s
      OBVIOUS
    <3>1. j \in 1 .. N /\ ~(i <= j) /\ a[j] = M[j]
      <4>. HIDE DEF a, stops
      <4>. QED BY <1>3, <1>5
    <3>2. j \notin stops
      BY <1>2, <3>1
    <3>. QED BY <3>1, <3>2
  <2>. QED BY <1>5, <2>1, StreamSkips
<1>8. M = a \o SubSeq(M, i, N)
  <2>1. 1 \in 1 .. Len(M) + 1 /\ i - 1 \in 1 - 1 .. Len(M) /\ N \in i - 1 .. Len(M) /\ i - 1 + 1 = i
    BY <1>3
  <2>2. a \o SubSeq(M, i - 1 + 1, N) = SubSeq(M, 1, N)
    BY <2>1, ConcatAdjacentSubSeq
  <2>. QED BY <2>1, <2>2, SubSeqFull
<1>9. SubSeq(M, i, N) = <<x>> \o b
  <2>1. i \in 1 .. Len(M) /\ N \in i .. Len(M)
    BY <1>3
  <2>. QED BY <2>1, SubSeqRecursiveFirst
<1>. DEFINE t == <<x>>
<1>10. t \in Seq(S)
  <2>. HIDE DEF x
  <2>. QED BY <1>4
<1>. HIDE DEF a, b, x, t
<1>11. (a \o t) \o b = a \o (t \o b)
  BY <1>5, <1>6, <1>10, ConcatAssociative
<1>12. M = (a \o t) \o b
  BY <1>8, <1>9, <1>11 DEF t
<1>13. Splits(M, s, a, x, b)
  BY <1>4, <1>7, <1>12 DEF Splits, t
<1>. QED BY <1>4, <1>5, <1>6, <1>13

(* An operation and those behind it.                                       *)
LEMMA HeadIs ==
    ASSUME NEW ops, Program(ops), ops # <<>>
    PROVE  /\ ops = <<Head(ops)>> \o Tail(ops)
           /\ Program(<<Head(ops)>>) /\ Program(Tail(ops))
           /\ Head(ops) = ops[1] /\ Good(Head(ops)) /\ 1 \in DOMAIN ops
<1>1. PICK S : ops \in Seq(S) /\ \A x \in S : Good(x)
  BY DEF Program
<1>2. Len(ops) \in Nat /\ 1 \in 1 .. Len(ops) /\ Len(ops) \in 1 .. Len(ops) /\ DOMAIN ops = 1 .. Len(ops)
  BY <1>1
<1>3. Head(ops) = ops[1]
  BY <1>1
<1>4. Tail(ops) = SubSeq(ops, 2, Len(ops)) /\ Tail(ops) \in Seq(S) /\ Head(ops) \in S
  BY <1>1, TailIsSubSeq, HeadTailProperties
<1>5. ops = <<ops[1]>> \o SubSeq(ops, 1 + 1, Len(ops))
  BY <1>1, <1>2, SubSeqRecursiveFirst, SubSeqFull
<1>6. Program(Tail(ops))
  BY <1>1, <1>4 DEF Program
<1>. QED BY <1>1, <1>2, <1>3, <1>4, <1>5, <1>6, ProgramOne

(* Those behind an operation of the host wait for no event of it.          *)
LEMMA SoundTail ==
    ASSUME NEW ops, NEW E, Sound(ops, E), ops # <<>>, Head(ops).kind \in OfHosts
    PROVE  Sound(Tail(ops), E) /\ Events(Tail(ops)) = Events(ops)
<1>. DEFINE x == Head(ops)
            t == Tail(ops)
            a == <<x>>
<1>1. ops = a \o t /\ Program(a) /\ Program(t)
  BY HeadIs, SoundIsProgram
<1>2. Events(a) = {}
  <2>1. ~Fires(x)
    BY DEF Fires, OfHosts
  <2>. HIDE DEF x
  <2>. QED BY <2>1, EventsOne
<1>. HIDE DEF x, t, a
<1>3. Sound(t, E \cup Events(a))
  BY <1>1, SoundParts
<1>4. Events(ops) = Events(a) \cup Events(t)
  BY <1>1, EventsConcat
<1>5. Sound(t, E) /\ Events(t) = Events(ops)
  BY <1>2, <1>3, <1>4
<1>. QED BY <1>5 DEF t

(* What is behind an operation that needs neither host nor event.          *)
LEMMA CalmTail ==
    ASSUME NEW ops, Calm(ops), ops # <<>>
    PROVE  Calm(Tail(ops)) /\ Quiet(Head(ops))
<1>1. PICK S : ops \in Seq(S) /\ \A x \in S : Quiet(x)
  BY DEF Calm
<1>2. Tail(ops) \in Seq(S) /\ Head(ops) \in S
  BY <1>1, HeadTailProperties
<1>. QED BY <1>1, <1>2 DEF Calm

(* An operation is taken out of a sound program: its event is known.       *)
LEMMA SoundWithout ==
    ASSUME NEW a, NEW x, NEW b, NEW E, Program(a), Good(x), Program(b), Sound((a \o <<x>>) \o b, E)
    PROVE  /\ Sound(a \o b, E \cup Events(<<x>>))
           /\ Events((a \o <<x>>) \o b) = Events(a \o b) \cup Events(<<x>>)
<1>. DEFINE t == <<x>>
<1>1. Program(t)
  BY ProgramOne
<1>. HIDE DEF t
<1>2. Program(a \o t)
  BY <1>1, ProgramConcat
<1>3. Sound(a \o t, E) /\ Sound(b, E \cup Events(a \o t))
  BY <1>2, SoundParts DEF t
<1>4. Sound(a, E)
  BY <1>1, <1>3, SoundParts
<1>5. Events(a \o t) = Events(a) \cup Events(t)
  BY <1>1, EventsConcat
<1>. DEFINE L == E \cup Events(t)
<1>6. Sound(b, L \cup Events(a))
  <2>1. E \cup Events(a \o t) = L \cup Events(a)
    BY <1>5
  <2>. HIDE DEF L
  <2>. QED BY <1>3, <2>1
<1>7. Sound(a, L)
  BY <1>4, SoundMore
<1>8. Sound(a \o b, L)
  <2>. HIDE DEF L
  <2>. QED BY <1>6, <1>7, SoundConcat
<1>9. Events((a \o t) \o b) = Events(a \o b) \cup Events(t)
  BY <1>2, <1>5, EventsConcat
<1>. QED BY <1>8, <1>9 DEF t

-----------------------------------------------------------------------------
(* What the host issues at a time.                                         *)

(* Up to the first operation of the host.                                  *)
LEMMA SegmentIs ==
    ASSUME Program(todo)
    PROVE  LET rest == SubSeq(todo, Len(Segment) + 1, Len(todo))
           IN  /\ todo = Segment \o rest
               /\ Program(Segment) /\ Program(rest)
               /\ \A i \in DOMAIN Segment : Segment[i].stream \in Streams
               /\ Calm(todo) => Calm(rest)
<1>. DEFINE stops == {i \in DOMAIN todo : todo[i].stream = "host"}
            N == Len(todo)
            i0 == CHOOSE i \in stops : \A j \in stops : i <= j
            n == IF stops = {} THEN N ELSE i0 - 1
            seg == SubSeq(todo, 1, n)
            rest == SubSeq(todo, n + 1, N)
<1>1. N \in Nat /\ DOMAIN todo = 1 .. N /\ \A i \in 1 .. N : Good(todo[i])
  BY ProgramIs
<1>2. stops # {} => i0 \in stops /\ \A j \in stops : i0 <= j
  <2>. SUFFICES ASSUME stops # {} PROVE i0 \in stops /\ \A j \in stops : i0 <= j
    OBVIOUS
  <2>1. stops \subseteq Nat
    BY <1>1
  <2>2. \E i \in stops : \A j \in stops : i <= j
    <3>. HIDE DEF stops
    <3>. QED BY <2>1, LeastNat
  <2>. HIDE DEF stops
  <2>. QED BY <2>2
<1>. HIDE DEF i0
<1>3. n \in 0 .. N /\ \A j \in stops : n < j
  <2>1. CASE stops = {}
    BY <1>1, <2>1
  <2>2. CASE stops # {}
    <3>1. i0 \in 1 .. N /\ \A j \in stops : j \in 1 .. N /\ i0 <= j
      BY <1>1, <1>2, <2>2
    <3>2. n = i0 - 1
      BY <2>2
    <3>. HIDE DEF stops, n
    <3>. QED BY <1>1, <3>1, <3>2
  <2>. QED BY <2>1, <2>2
<1>4. \A S : todo \in Seq(S) => seg \in Seq(S) /\ rest \in Seq(S) /\ todo = seg \o rest /\ Len(seg) = n
                               /\ \A j \in 1 .. n : seg[j] = todo[j]
  <2>. SUFFICES ASSUME NEW S, todo \in Seq(S)
                PROVE  seg \in Seq(S) /\ rest \in Seq(S) /\ todo = seg \o rest /\ Len(seg) = n
                       /\ \A j \in 1 .. n : seg[j] = todo[j]
    OBVIOUS
  <2>. HIDE DEF n, stops
  <2>1. (\A j \in 1 .. n : todo[j] \in S) /\ (\A j \in n + 1 .. N : todo[j] \in S)
    BY <1>1, <1>3
  <2>2. /\ seg \in Seq(S) /\ Len(seg) = IF 1 <= n THEN n - 1 + 1 ELSE 0
        /\ \A j \in 1 .. n - 1 + 1 : seg[j] = todo[1 + j - 1]
    BY <1>1, <1>3, <2>1, SubSeqProperties
  <2>3. rest \in Seq(S)
    BY <1>1, <1>3, <2>1, SubSeqProperties
  <2>4. seg \o rest = SubSeq(todo, 1, N)
    <3>1. 1 \in 1 .. Len(todo) + 1 /\ n \in 1 - 1 .. Len(todo) /\ N \in n .. Len(todo)
      BY <1>1, <1>3
    <3>. QED BY <3>1, ConcatAdjacentSubSeq
  <2>5. SubSeq(todo, 1, N) = todo
    BY SubSeqFull
  <2>. HIDE DEF seg, rest
  <2>6. Len(seg) = n /\ \A j \in 1 .. n : seg[j] = todo[j]
    BY <1>1, <1>3, <2>2
  <2>. QED BY <2>2, <2>3, <2>4, <2>5, <2>6, Zenon
<1>5. PICK S : todo \in Seq(S) /\ \A x \in S : Good(x)
  BY DEF Program
<1>6. Segment = seg
  <2>0. Segment = IF stops = {} THEN todo ELSE SubSeq(todo, 1, i0 - 1)
    BY Zenon DEF Segment, i0
  <2>1. CASE stops = {}
    <3>1. n = N /\ Segment = todo
      BY <2>0, <2>1
    <3>2. SubSeq(todo, 1, N) = todo
      BY <1>5, SubSeqFull
    <3>. QED BY <3>1, <3>2
  <2>2. CASE stops # {}
    <3>1. n = i0 - 1 /\ Segment = SubSeq(todo, 1, i0 - 1)
      BY <2>0, <2>2
    <3>. HIDE DEF n
    <3>. QED BY <3>1
  <2>. QED BY <2>1, <2>2
<1>7. Program(seg) /\ Program(rest)
  <2>. HIDE DEF seg, rest
  <2>. QED BY <1>4, <1>5 DEF Program
<1>8. ASSUME NEW i \in DOMAIN seg PROVE seg[i].stream \in Streams
  <2>1. i \in 1 .. n /\ seg[i] = todo[i]
    <3>. HIDE DEF seg, rest, n
    <3>. QED BY <1>4, <1>5, <1>7, ProgramIs
  <2>2. i \in 1 .. N /\ i \notin stops
    <3>. HIDE DEF stops, n, seg
    <3>. QED BY <1>1, <1>3, <2>1
  <2>3. Good(todo[i]) /\ todo[i].stream # "host"
    BY <1>1, <2>2
  <2>. QED BY <2>1, <2>3 DEF Good
<1>9. Calm(todo) => Calm(rest)
  <2>. SUFFICES ASSUME Calm(todo) PROVE Calm(rest)
    OBVIOUS
  <2>1. PICK Q : todo \in Seq(Q) /\ \A x \in Q : Quiet(x)
    BY DEF Calm
  <2>2. rest \in Seq(Q)
    <3>. HIDE DEF seg, rest
    <3>. QED BY <1>4, <2>1
  <2>. HIDE DEF rest
  <2>. QED BY <2>1, <2>2 DEF Calm
<1>10. todo = seg \o rest /\ Len(seg) = n
  <2>. HIDE DEF seg, rest, n
  <2>. QED BY <1>4, <1>5
<1>. HIDE DEF seg, n
<1>. QED BY <1>6, <1>7, <1>8, <1>9, <1>10

(* With the arguments that the host fixes.                                 *)
LEMMA ResolveAlike ==
    ASSUME NEW op, Good(op)
    PROVE  Alike(Resolve(op), op)
<1>. DEFINE j == [op EXCEPT !.name = "junk"]
<1>1. DOMAIN j = DOMAIN op /\ j.kind = op.kind /\ j.stream = op.stream /\ j.id = op.id
  BY DEF Good
<1>2. Resolve(op) \in {op, j}
  BY Zenon DEF Resolve
<1>. HIDE DEF j
<1>3. Alike(j, op) /\ Alike(op, op)
  BY <1>1, SameKind
<1>. QED BY <1>2, <1>3
-----------------------------------------------------------------------------
(* The inductive invariant.                                                *)

(* All operations are of streams, none of the host.                        *)
OnDevice(ops) == \A i \in DOMAIN ops : ops[i].stream \in Streams

(* The request and where the host is in it.                                *)
Placed ==
    /\ model \in Seq(LayerType)
    /\ position \in Nat /\ prompt \in Nat /\ chunk \in Nat \ {0}
    /\ sampler \in {"greedy", "gpu", "host"}
    /\ capturing \in BOOLEAN
    /\ step = "chunks" => Chunked /\ position <= prompt
    /\ step = "chunk" => Chunked /\ position < prompt

(* M has what is in the queues, in the order in which it was issued.       *)
Queued(M) ==
    /\ queue = [s \in {"compute", "transfer"} |-> OfStream(M, s)]
    /\ OnDevice(M)
Known(M) == fired \cup Events(M)

(* No operation was issued, recorded or is yet to be issued ahead of the   *)
(* event that it waits for.                                                *)
Ordered(M) ==
    /\ Sound(M, fired)
    /\ Sound(graph, Known(M)) /\ OnDevice(graph)
    /\ Sound(recorded, Known(M)) /\ OnDevice(recorded)
    /\ ~capturing => recorded = <<>>
    /\ Sound(todo, Known(M) \cup Events(recorded))

(* The copies of a step are fired or issued when the next one looks for    *)
(* them; no layer whose experts are copied is captured.                    *)
CopiesKnown(M) ==
    /\ position > FirstStep =>
          \A l \in 1 .. Len(model) : ByCopy(model[l]) => Copies(l, position - 1) \in Known(M)
    /\ step \in {"hidden", "next", "replay"} =>
          \A l \in 1 .. Len(model) : ByCopy(model[l]) => Copies(l, position) \in Known(M) \cup Events(todo)
    /\ capturing \/ graph # <<>> => \A l \in 1 .. Len(model) : ~ByCopy(model[l])

(* With all experts in VRAM driven by the device nothing disturbs a        *)
(* capture, and it is over before the step ends.                           *)
NoneInVram == ~\E l \in DOMAIN model : model[l].moe = "each" /\ ~model[l].hostWeights
Undisturbed ==
    NoneInVram => /\ capturing => step = "next" /\ Calm(todo)
                  /\ step # "failed"

DInv == Placed /\ Undisturbed /\ \E M : Queued(M) /\ Ordered(M) /\ CopiesKnown(M)

(* Of two sequences.                                                       *)
LEMMA DeviceConcat ==
    ASSUME NEW a, NEW b, Program(a), Program(b)
    PROVE  OnDevice(a \o b) <=> OnDevice(a) /\ OnDevice(b)
<1>. DEFINE c == a \o b
<1>1. /\ Program(c)
      /\ Len(a) \in Nat /\ Len(b) \in Nat /\ Len(c) = Len(a) + Len(b)
      /\ \A i \in 1 .. Len(a) : c[i] = a[i]
      /\ \A i \in 1 .. Len(b) : c[Len(a) + i] = b[i]
  BY ProgramConcat
<1>. HIDE DEF c
<1>2. DOMAIN a = 1 .. Len(a) /\ DOMAIN b = 1 .. Len(b) /\ DOMAIN c = 1 .. Len(a) + Len(b)
  BY <1>1, ProgramIs
<1>3. ASSUME OnDevice(c) PROVE OnDevice(a) /\ OnDevice(b)
  <2>1. \A i \in 1 .. Len(a) : i \in DOMAIN c
    BY <1>1, <1>2
  <2>2. \A i \in 1 .. Len(b) : Len(a) + i \in DOMAIN c
    BY <1>1, <1>2
  <2>. QED BY <1>1, <1>2, <1>3, <2>1, <2>2 DEF OnDevice
<1>4. ASSUME OnDevice(a), OnDevice(b), NEW i \in DOMAIN c PROVE c[i].stream \in Streams
  <2>1. CASE i \in DOMAIN a
    BY <1>1, <1>2, <1>4, <2>1 DEF OnDevice
  <2>2. CASE i \notin DOMAIN a
    <3>. DEFINE j == i - Len(a)
    <3>1. j \in DOMAIN b /\ i = Len(a) + j
      BY <1>1, <1>2, <1>4, <2>2
    <3>. HIDE DEF j
    <3>2. c[i] = b[j]
      BY <1>1, <1>2, <3>1
    <3>. QED BY <1>4, <3>1, <3>2 DEF OnDevice
  <2>. QED BY <2>1, <2>2
<1>. QED BY <1>3, <1>4 DEF OnDevice, c

(* One program issued after another, stream by stream.                     *)
LEMMA StreamsConcat ==
    ASSUME NEW a, NEW b, NEW s, Program(a), Program(b)
    PROVE  OfStream(a \o b, s) = OfStream(a, s) \o OfStream(b, s)
<1>1. PICK S : a \in Seq(S)
  BY DEF Program
<1>2. PICK T : b \in Seq(T)
  BY DEF Program
<1>. DEFINE V == S \cup T
<1>3. a \in Seq(V) /\ b \in Seq(V)
  <2>1. S \subseteq V /\ T \subseteq V
    OBVIOUS
  <2>. HIDE DEF V
  <2>. QED BY <1>1, <1>2, <2>1, SeqMonotonic
<1>. HIDE DEF V
<1>. QED BY <1>3, StreamConcat, SMTT(30)

(* The head and the rest of an operation followed by others.               *)
LEMMA HeadTailConcatOne ==
    ASSUME NEW S, NEW x \in S, NEW r \in Seq(S)
    PROVE  <<x>> \o r # <<>> /\ Head(<<x>> \o r) = x /\ Tail(<<x>> \o r) = r
<1>. DEFINE t == <<x>>
            c == t \o r
            d == Tail(c)
<1>1. t \in Seq(S) /\ Len(t) = 1 /\ t[1] = x
  OBVIOUS
<1>. HIDE DEF t
<1>2. c \in Seq(S) /\ Len(c) = 1 + Len(r) /\ \A i \in 1 .. 1 + Len(r) : c[i] = IF i <= 1 THEN t[i] ELSE r[i - 1]
  <2>1. c \in Seq(S) /\ Len(c) = Len(t) + Len(r)
        /\ \A i \in 1 .. Len(t) + Len(r) : c[i] = IF i <= Len(t) THEN t[i] ELSE r[i - Len(t)]
    BY <1>1, ConcatProperties
  <2>. HIDE DEF c
  <2>. QED BY <1>1, <2>1
<1>3. Len(r) \in Nat
  OBVIOUS
<1>. HIDE DEF c
<1>4. c # <<>> /\ c[1] = x
  <2>1. 1 \in 1 .. 1 + Len(r) /\ 1 + Len(r) # 0
    BY <1>3
  <2>2. c[1] = t[1]
    BY <1>2, <2>1
  <2>. QED BY <1>1, <1>2, <2>1, <2>2
<1>5. Head(c) = x
  BY <1>2, <1>4
<1>6. d \in Seq(S) /\ Len(d) = Len(c) - 1 /\ \A i \in 1 .. Len(d) : d[i] = c[i + 1]
  BY <1>2, <1>4, HeadTailProperties
<1>. HIDE DEF d
<1>7. Len(d) = Len(r)
  BY <1>2, <1>3, <1>6
<1>8. ASSUME NEW i \in 1 .. Len(r) PROVE d[i] = r[i]
  <2>1. i + 1 \in 1 .. 1 + Len(r) /\ ~(i + 1 <= 1) /\ i + 1 - 1 = i
    BY <1>3
  <2>2. c[i + 1] = r[i]
    BY <1>2, <2>1
  <2>. QED BY <1>6, <1>7, <2>2
<1>9. d = r
  BY <1>6, <1>7, <1>8, SeqEqual
<1>. QED BY <1>4, <1>5, <1>9 DEF c, d, t

(* The streams once the first operation of one of them is taken out.       *)
LEMMA StreamWithout ==
    ASSUME NEW S, NEW a \in Seq(S), NEW x \in S, NEW b \in Seq(S), NEW M, NEW s,
           Splits(M, s, a, x, b)
    PROVE  /\ OfStream(M, s) # <<>>
           /\ Head(OfStream(M, s)) = x
           /\ Tail(OfStream(M, s)) = OfStream(a \o b, s)
           /\ \A u : u # s => OfStream(M, u) = OfStream(a \o b, u)
<1>. DEFINE t == <<x>>
            e == <<>>
            O(ops, u) == OfStream(ops, u)
<1>1. t \in Seq(S) /\ e \in Seq(S)
  OBVIOUS
<1>0. M = (a \o t) \o b
  BY DEF Splits
<1>2. O(t, s) = t /\ \A u : u # s => O(t, u) = e
  BY StreamOne DEF When, Splits
<1>. HIDE DEF t, e
<1>3. \A u : O(M, u) = (O(a, u) \o O(t, u)) \o O(b, u) /\ O(a \o b, u) = O(a, u) \o O(b, u)
            /\ O(a, u) \in Seq(S) /\ O(b, u) \in Seq(S)
  <2>. TAKE u
  <2>. DEFINE y == a \o t
  <2>1. y \in Seq(S)
    BY <1>1, ConcatProperties
  <2>2. OfStream(y, u) = OfStream(a, u) \o OfStream(t, u)
    <3>1. a \in Seq(S) /\ t \in Seq(S)
      BY <1>1
    <3>2. OfStream(a \o t, u) = OfStream(a, u) \o OfStream(t, u)
      BY ONLY <3>1, StreamConcat, SMTT(30)
    <3>. QED BY <3>2
  <2>. HIDE DEF y
  <2>3. OfStream(y \o b, u) = OfStream(y, u) \o OfStream(b, u)
    <3>1. y \in Seq(S) /\ b \in Seq(S)
      BY <2>1
    <3>. QED BY ONLY <3>1, StreamConcat, SMTT(30)
  <2>4. OfStream(a \o b, u) = OfStream(a, u) \o OfStream(b, u)
    BY StreamConcat
  <2>5. OfStream(a, u) \in Seq(S) /\ OfStream(b, u) \in Seq(S)
    BY StreamIs
  <2>. QED BY <1>0, <2>2, <2>3, <2>4, <2>5 DEF y
<1>4. O(a, s) = e
  BY DEF e, Splits
<1>. HIDE DEF O
<1>. DEFINE r == O(b, s)
<1>5. \A w : w \in Seq(S) => w \o e = w /\ e \o w = w
  BY ConcatEmptySeq DEF e
<1>6. O(M, s) = t \o r /\ O(a \o b, s) = r /\ r \in Seq(S)
  <2>1. e \o t = t /\ e \o r = r
    BY <1>1, <1>3, <1>5
  <2>. QED BY <1>2, <1>3, <1>4, <2>1
<1>7. ASSUME NEW u, u # s PROVE O(M, u) = O(a \o b, u)
  <2>1. O(a, u) \o e = O(a, u)
    BY <1>3, <1>5
  <2>. QED BY <1>2, <1>3, <1>7, <2>1
<1>8. t \o r # <<>> /\ Head(t \o r) = x /\ Tail(t \o r) = r
  <2>. HIDE DEF r
  <2>. QED BY <1>6, HeadTailConcatOne DEF t
<1>. QED BY <1>6, <1>7, <1>8 DEF O, t
(* It holds at first.                                                      *)
LEMMA InitDInv == Init => DInv
<1>. SUFFICES ASSUME Init PROVE DInv
  OBVIOUS
<1>. DEFINE e == <<>>
<1>1. Placed
  <2>1. PICK r \in Requests : model = r.model /\ sampler = r.sampler /\ prompt = r.prompt /\ chunk = r.chunk
    BY DEF Init
  <2>2. model \in Seq(LayerType) /\ sampler \in {"greedy", "gpu", "host"} /\ prompt \in Nat /\ chunk \in Nat \ {0}
    BY <2>1, DecodeAssumption
  <2>. QED BY <2>2 DEF Init, Placed
<1>2. Undisturbed
  BY DEF Init, Undisturbed
<1>3. OnDevice(e)
  BY DEF OnDevice
<1>4. \A L : Sound(e, L)
  BY SoundNone
<1>5. Queued(e)
  <2>1. \A s : OfStream(e, s) = <<>>
    BY StreamNone
  <2>. HIDE DEF e
  <2>. QED BY <1>3, <2>1 DEF Init, Queued
<1>6. Ordered(e)
  <2>1. graph = e /\ recorded = e /\ todo = e /\ recorded = <<>>
    BY DEF Init
  <2>. HIDE DEF e
  <2>. QED BY <1>3, <1>4, <2>1 DEF Ordered
<1>7. CopiesKnown(e)
  <2>1. FirstStep \in Nat
    BY <1>1 DEF FirstStep, Placed
  <2>. QED BY <2>1 DEF Init, CopiesKnown
<1>. HIDE DEF e
<1>. QED BY <1>1, <1>2, <1>5, <1>6, <1>7 DEF DInv

(* A stream executes its first operation: what was issued before it stays  *)
(* before what waits for it, and its event is fired.                       *)
LEMMA ExecuteKeeps ==
    ASSUME DInv, NEW s \in Streams, Execute(s)
    PROVE  DInv'
<1>1. PICK M : Queued(M) /\ Ordered(M) /\ CopiesKnown(M)
  BY DEF DInv
<1>2. PICK S : M \in Seq(S) /\ \A x \in S : Good(x)
  BY <1>1, SoundIsProgram DEF Ordered, Program
<1>3. \A u \in Streams : queue[u] = OfStream(M, u)
  BY <1>1 DEF Queued, Streams
<1>4. PICK a \in Seq(S), x \in S, b \in Seq(S) : Splits(M, s, a, x, b)
  <2>1. OfStream(M, s) # <<>>
    BY <1>3 DEF Execute
  <2>. QED BY <1>2, <2>1, FirstOfStream
<1>. DEFINE N == a \o b
            t == <<x>>
<1>0. M = (a \o t) \o b /\ x.stream = s
  BY <1>4 DEF Splits
<1>5. /\ Head(OfStream(M, s)) = x
      /\ Tail(OfStream(M, s)) = OfStream(N, s)
      /\ \A u : u # s => OfStream(M, u) = OfStream(N, u)
  BY <1>4, StreamWithout
<1>6. Program(a) /\ Program(b) /\ Good(x) /\ Program(t)
  BY <1>2, <1>4, ProgramOne DEF Program
<1>7. Sound(N, fired \cup Events(t)) /\ Events(M) = Events(N) \cup Events(t)
  BY <1>0, <1>1, <1>6, SoundWithout DEF Ordered
<1>8. OnDevice(N)
  <2>1. OnDevice(a \o t) /\ OnDevice(b)
    BY <1>0, <1>1, <1>6, ProgramConcat, DeviceConcat DEF Queued
  <2>. QED BY <1>6, <2>1, DeviceConcat
<1>9. fired' = fired \cup Events(t)
  <2>1. Events(t) = IF Fires(x) THEN {x.id} ELSE {}
    BY EventsOne
  <2>2. fired' = IF Fires(x) THEN fired \cup {x.id} ELSE fired
    BY <1>3, <1>5 DEF Execute
  <2>. HIDE DEF t
  <2>. QED BY <2>1, <2>2
<1>10. queue' = [u \in {"compute", "transfer"} |-> OfStream(N, u)]
  <2>1. queue = [u \in {"compute", "transfer"} |-> OfStream(M, u)]
    BY <1>1 DEF Queued
  <2>2. queue' = [queue EXCEPT ![s] = Tail(queue[s])]
    BY DEF Execute
  <2>. HIDE DEF N
  <2>. QED BY <1>3, <1>5, <2>1, <2>2 DEF Streams
<1>. HIDE DEF N, t
<1>11. Queued(N)'
  BY <1>8, <1>10 DEF Queued
<1>12. Known(N)' = Known(M)
  BY <1>7, <1>9 DEF Known
<1>13. /\ UNCHANGED <<model, sampler, prompt, chunk, position, graph, recorded, todo, capturing, step>>
  BY DEF Execute, chosen
<1>14. Ordered(N)'
  BY <1>1, <1>7, <1>9, <1>12, <1>13 DEF Ordered
<1>15. CopiesKnown(N)'
  BY <1>1, <1>12, <1>13 DEF CopiesKnown, FirstStep, Chunked
<1>16. Placed' /\ Undisturbed'
  BY <1>13 DEF DInv, Placed, Undisturbed, Chunked, NoneInVram
<1>. QED BY <1>11, <1>14, <1>15, <1>16 DEF DInv

(* The host goes past an operation of its own.                             *)
LEMMA TailKeeps ==
    ASSUME DInv, HostReads \/ HostWaits \/ HostExperts
    PROVE  DInv'
<1>1. PICK M : Queued(M) /\ Ordered(M) /\ CopiesKnown(M)
  BY DEF DInv
<1>2. todo # <<>> /\ Head(todo).kind \in OfHosts
  BY DEF HostReads, HostWaits, HostExperts, AtHost, OfHosts
<1>3. todo' = Tail(todo) /\ UNCHANGED <<model, sampler, prompt, chunk, queue, fired, position, graph, recorded, capturing, step>>
  BY DEF HostReads, HostWaits, HostExperts, chosen
<1>4. Sound(todo', Known(M) \cup Events(recorded)) /\ Events(todo') = Events(todo)
  BY <1>1, <1>2, <1>3, SoundTail DEF Ordered
<1>5. Known(M)' = Known(M)
  BY <1>3 DEF Known
<1>6. Queued(M)' /\ Ordered(M)'
  BY <1>1, <1>3, <1>4, <1>5 DEF Queued, Ordered
<1>7. CopiesKnown(M)'
  BY <1>1, <1>3, <1>4, <1>5 DEF CopiesKnown, FirstStep, Chunked
<1>8. Placed'
  BY <1>3 DEF DInv, Placed, Chunked
<1>9. Undisturbed'
  <2>1. Calm(todo) => Calm(todo')
    BY <1>2, <1>3, CalmTail
  <2>. QED BY <1>3, <2>1 DEF DInv, Undisturbed, NoneInVram
<1>. QED BY <1>6, <1>7, <1>8, <1>9 DEF DInv

(* A call ends, with its answer or an error.                               *)
LEMMA EndKeeps ==
    ASSUME DInv, Fail \/ Refuse \/ Return
    PROVE  DInv'
<1>1. PICK M : Queued(M) /\ Ordered(M) /\ CopiesKnown(M)
  BY DEF DInv
<1>2. todo' = <<>> /\ UNCHANGED <<model, sampler, prompt, chunk, queue, fired, position, graph, recorded, capturing>>
  BY DEF Fail, Refuse, Return, chosen
<1>3. step' \in {"failed", "refused", "idle"} /\ (step' = "failed" => capturing)
  BY DEF Fail, Refuse, Return
<1>4. todo # <<>> /\ Head(todo).kind \in Interfering
  BY DEF Fail, Refuse, Return, AtHost, Interfering
<1>5. ~Calm(todo)
  BY <1>4, CalmTail DEF Quiet
<1>6. Known(M)' = Known(M)
  BY <1>2 DEF Known
<1>7. Sound(todo', Known(M) \cup Events(recorded))
  BY <1>2, SoundNone
<1>8. Queued(M)' /\ Ordered(M)'
  BY <1>1, <1>2, <1>6, <1>7 DEF Queued, Ordered
<1>9. CopiesKnown(M)'
  BY <1>1, <1>2, <1>3, <1>6 DEF CopiesKnown, FirstStep, Chunked
<1>10. Placed'
  BY <1>2, <1>3 DEF DInv, Placed
<1>11. Undisturbed'
  BY <1>2, <1>3, <1>5 DEF DInv, Undisturbed, NoneInVram
<1>. QED BY <1>8, <1>9, <1>10, <1>11 DEF DInv

(* The host issues what it can without doing anything itself.              *)
LEMMA IssueKeeps ==
    ASSUME DInv, Issue
    PROVE  DInv'
<1>1. PICK M : Queued(M) /\ Ordered(M) /\ CopiesKnown(M)
  BY DEF DInv
<1>. DEFINE seg == Segment
            ops == [i \in DOMAIN seg |-> Resolve(seg[i])]
            rest == SubSeq(todo, Len(seg) + 1, Len(todo))
            E == Known(M) \cup Events(recorded)
<1>2. /\ IF capturing
         THEN recorded' = recorded \o ops /\ UNCHANGED queue
         ELSE Enqueue(ops) /\ UNCHANGED recorded
      /\ todo' = rest
      /\ UNCHANGED <<model, sampler, prompt, chunk, fired, position, graph, capturing, step>>
  BY DEF Issue, chosen
<1>3. /\ todo = seg \o rest
      /\ Program(seg) /\ Program(rest)
      /\ \A i \in DOMAIN seg : seg[i].stream \in Streams
      /\ Calm(todo) => Calm(rest)
  <2>1. Program(todo)
    BY <1>1, SoundIsProgram DEF Ordered
  <2>. QED BY <2>1, SegmentIs
<1>. HIDE DEF seg, rest
<1>4. Sound(seg, E) /\ Sound(rest, E \cup Events(seg))
  <2>1. Sound(seg \o rest, E)
    BY <1>1, <1>3 DEF Ordered
  <2>. HIDE DEF E
  <2>. QED BY <1>3, <2>1, SoundParts
<1>5. /\ DOMAIN ops = DOMAIN seg
      /\ ops = [i \in DOMAIN seg |-> ops[i]]
      /\ \A i \in DOMAIN seg : Alike(ops[i], seg[i])
  BY <1>3, ResolveAlike, ProgramIs
<1>. HIDE DEF ops
<1>6. Sound(ops, E) /\ Events(ops) = Events(seg) /\ OnDevice(ops)
  <2>. HIDE DEF E
  <2>1. Sound(ops, E) /\ Events(ops) = Events(seg)
    BY <1>4, <1>5, SoundAlike
  <2>2. OnDevice(ops)
    BY <1>3, <1>5 DEF OnDevice, Alike
  <2>. QED BY <2>1, <2>2
<1>7. Events(todo) = Events(seg) \cup Events(rest)
  BY <1>3, EventsConcat
<1>8. Placed' /\ Undisturbed'
  BY <1>2, <1>3 DEF DInv, Placed, Undisturbed, Chunked, NoneInVram
<1>9. CASE capturing
  <2>1. recorded' = recorded \o ops /\ UNCHANGED queue
    BY <1>2, <1>9
  <2>2. Program(recorded) /\ Program(ops)
    BY <1>1, <1>6, SoundIsProgram DEF Ordered
  <2>3. Sound(recorded', Known(M)) /\ Events(recorded') = Events(recorded) \cup Events(ops) /\ OnDevice(recorded')
    BY <1>1, <1>6, <2>1, <2>2, SoundConcat, EventsConcat, DeviceConcat DEF Ordered
  <2>4. Known(M)' = Known(M)
    BY <1>2 DEF Known
  <2>5. Sound(todo', Known(M) \cup Events(recorded'))
    <3>1. E \cup Events(seg) = Known(M) \cup Events(recorded')
      BY <1>6, <2>3
    <3>. HIDE DEF E
    <3>. QED BY <1>2, <1>4, <3>1
  <2>6. Queued(M)' /\ Ordered(M)'
    BY <1>1, <1>2, <1>9, <2>1, <2>3, <2>4, <2>5 DEF Queued, Ordered
  <2>7. CopiesKnown(M)'
    BY <1>1, <1>2, <1>9, <2>4 DEF CopiesKnown, FirstStep, Chunked
  <2>. QED BY <1>8, <2>6, <2>7 DEF DInv
<1>10. CASE ~capturing
  <2>0. PICK N : N = M \o ops
    OBVIOUS
  <2>1. queue' = [s \in {"compute", "transfer"} |-> queue[s] \o OfStream(ops, s)] /\ recorded' = recorded
    BY <1>2, <1>10 DEF Enqueue
  <2>2. recorded = <<>> /\ E = Known(M)
    BY <1>1, <1>10, EventsNone DEF Ordered
  <2>3. Program(M) /\ Program(ops)
    BY <1>1, <1>6, SoundIsProgram DEF Ordered
  <2>4. Sound(N, fired) /\ Events(N) = Events(M) \cup Events(ops) /\ OnDevice(N)
    <3>1. Sound(ops, fired \cup Events(M))
      BY <1>6, <2>2 DEF Known
    <3>. QED BY <1>1, <1>6, <2>0, <2>3, <3>1, SoundConcat, EventsConcat, DeviceConcat DEF Ordered, Queued
  <2>5. queue' = [s \in {"compute", "transfer"} |-> OfStream(N, s)]
    <3>1. \A s \in {"compute", "transfer"} : queue[s] \o OfStream(ops, s) = OfStream(N, s)
      <4>1. \A s : OfStream(N, s) = OfStream(M, s) \o OfStream(ops, s)
        BY ONLY <2>0, <2>3, StreamsConcat
      <4>2. \A s \in {"compute", "transfer"} : queue[s] = OfStream(M, s)
        BY <1>1 DEF Queued
      <4>. QED BY <4>1, <4>2
    <3>. QED BY <2>1, <3>1
  <2>6. Known(N)' = Known(M) \cup Events(ops)
    BY <1>2, <2>4 DEF Known
  <2>7. /\ Sound(graph, Known(N)') /\ Sound(recorded, Known(N)')
        /\ Sound(todo', Known(N)' \cup Events(recorded))
    <3>1. Known(M) \subseteq Known(N)'
      BY <2>6
    <3>2. E \cup Events(seg) = Known(N)' \cup Events(recorded)
      BY <1>6, <2>6
    <3>. HIDE DEF E
    <3>. QED BY <1>1, <1>2, <1>4, <3>1, <3>2, SoundMore DEF Ordered
  <2>8. Queued(N)'
    BY <2>4, <2>5 DEF Queued
  <2>9. Ordered(N)'
    BY <1>1, <1>2, <2>1, <2>4, <2>7 DEF Ordered
  <2>10. CopiesKnown(N)'
    <3>1. Known(M) \subseteq Known(N)' /\ Known(M) \cup Events(todo) \subseteq Known(N)' \cup Events(todo')
      BY <1>2, <1>6, <1>7, <2>6
    <3>. QED BY <1>1, <1>2, <3>1 DEF CopiesKnown, FirstStep, Chunked
  <2>. QED BY <1>8, <2>8, <2>9, <2>10 DEF DInv
<1>. QED BY <1>8, <1>9, <1>10 DEF DInv, Placed
-----------------------------------------------------------------------------
(* Calls and their parts.                                                  *)

(* What inhibits a capture: copied experts do, and so does everything that *)
(* needs the host or an event, but for experts in VRAM that the device does*)
(* not drive.                                                              *)
LEMMA CanCaptureIs ==
    ASSUME Placed, CanCapture, NEW l \in 1 .. Len(model)
    PROVE  ~ByCopy(model[l]) /\ (NoneInVram => InDevice(model[l]))
<1>. DEFINE m == model[l]
<1>1. l \in DOMAIN model /\ m \in LayerType
  BY DEF Placed
<1>2. m.hostWeights => GpuDriven(m)
  BY <1>1 DEF CanCapture, HasStagedLayers, Graphable
<1>3. ~m.hostKv
  BY <1>1 DEF CanCapture, HasStagedKv
<1>4. NoneInVram => ~(m.moe = "each" /\ ~m.hostWeights)
  BY <1>1 DEF NoneInVram
<1>. HIDE DEF m
<1>5. m.moe \in {"none", "gpu", "slots", "cpu", "staged", "bulk", "each"}
  BY <1>1 DEF LayerType
<1>6. m.moe \in {"cpu", "staged", "bulk"} => m.hostWeights
  BY <1>1 DEF LayerType
<1>7. ~ByCopy(m)
  BY <1>2, <1>6 DEF ByCopy, GpuDriven
<1>8. NoneInVram => InDevice(m)
  BY <1>2, <1>3, <1>4, <1>5, <1>6 DEF GpuDriven, InDevice
<1>. QED BY <1>7, <1>8 DEF m

(* What follows the layers.                                                *)
LEMMA AfterwardsMild ==
    ASSUME Placed
    PROVE  Calm(AfterLayers) /\ Mild(AfterStep) /\ Mild(FirstToken)
<1>1. Mild(Download)
  <2>1. Gentle(OnHost("return", "answer", "", 0, {}))
    BY OnHostIs DEF OfHosts, Awaiting, Gentle
  <2>. QED BY <2>1, MildOne DEF Download
<1>2. Calm(AfterLayers)
  BY FinalCalm, CalmConcat DEF AfterLayers
<1>3. Mild(AfterStep)
  BY <1>1, FinalCalm, CalmWhen, CalmIsMild, MildConcat DEF AfterStep
<1>4. Mild(FirstToken)
  <2>. DEFINE c == CASE sampler = "gpu" -> Sampler(model)
                     [] sampler = "greedy" -> Argmax(model)
                     [] sampler = "host" -> <<>>
  <2>1. Calm(c)
    BY FinalCalm, CalmNone DEF Placed
  <2>2. FirstToken = FinalLogits(model, hidden) \o c \o Download
    BY DEF FirstToken
  <2>. HIDE DEF c
  <2>. QED BY <1>1, <2>1, <2>2, FinalCalm, CalmIsMild, MildConcat
<1>. QED BY <1>2, <1>3, <1>4

(* A chunk goes on to the next one or to the end of the prompt.            *)
LEMMA RowsOfChunkIs ==
    ASSUME Placed, step = "chunk"
    PROVE  position + RowsOfChunk \in Nat /\ position + RowsOfChunk <= prompt
BY DEF Placed, RowsOfChunk

(* The host advances without issuing anything.                             *)
LEMMA DoneKeeps ==
    ASSUME DInv, HiddenDone \/ ChunkDone \/ PrefillPrompt
    PROVE  DInv'
<1>1. PICK M : Queued(M) /\ Ordered(M) /\ CopiesKnown(M)
  BY DEF DInv
<1>2. UNCHANGED <<model, sampler, prompt, chunk, queue, fired, graph, capturing, recorded, todo>>
  BY DEF HiddenDone, ChunkDone, PrefillPrompt, chosen
<1>3. Known(M)' = Known(M)
  BY <1>2 DEF Known
<1>4. Queued(M)' /\ Ordered(M)'
  BY <1>1, <1>2, <1>3 DEF Queued, Ordered
<1>5. step' \in {"idle", "chunks"} /\ todo = <<>> /\ step # "next"
  BY DEF HiddenDone, ChunkDone, PrefillPrompt, Idle
<1>6. Undisturbed'
  BY <1>2, <1>5 DEF DInv, Undisturbed, NoneInVram
<1>7. CASE HiddenDone
  <2>1. step = "hidden" /\ step' = "idle" /\ position' = position + 1
    BY <1>7 DEF HiddenDone
  <2>2. Placed'
    BY <1>2, <2>1 DEF DInv, Placed
  <2>3. \A l \in 1 .. Len(model) : ByCopy(model[l]) => Copies(l, position) \in Known(M)
    BY <1>1, <1>5, <2>1, EventsNone DEF CopiesKnown
  <2>4. position' - 1 = position
    BY <2>1 DEF DInv, Placed
  <2>5. CopiesKnown(M)'
    BY <1>1, <1>2, <1>3, <2>1, <2>3, <2>4 DEF CopiesKnown
  <2>. QED BY <1>4, <1>6, <2>2, <2>5 DEF DInv
<1>8. CASE ChunkDone
  <2>1. step = "chunk" /\ step' = "chunks" /\ position' = position + RowsOfChunk
    BY <1>8 DEF ChunkDone
  <2>2. position' \in Nat /\ position' <= prompt /\ Chunked
    BY <2>1, RowsOfChunkIs DEF DInv, Placed
  <2>3. Placed'
    BY <1>2, <2>1, <2>2 DEF DInv, Placed, Chunked
  <2>4. FirstStep' = prompt
    BY <1>2, <2>2 DEF FirstStep, Chunked
  <2>5. CopiesKnown(M)'
    BY <1>1, <1>2, <1>3, <2>1, <2>2, <2>4 DEF CopiesKnown, DInv, Placed
  <2>. QED BY <1>4, <1>6, <2>3, <2>5 DEF DInv
<1>9. CASE PrefillPrompt
  <2>1. step' = "chunks" /\ position' = position /\ Chunked /\ position < prompt
    BY <1>9 DEF PrefillPrompt, LeftToPrefill
  <2>2. Placed'
    BY <1>2, <2>1 DEF DInv, Placed, Chunked
  <2>3. CopiesKnown(M)'
    BY <1>1, <1>2, <1>3, <2>1 DEF CopiesKnown, FirstStep, Chunked
  <2>. QED BY <1>4, <1>6, <2>2, <2>3 DEF DInv
<1>. QED BY <1>7, <1>8, <1>9

(* The host begins with something that waits only for what is known.       *)
LEMMA BeginKeeps ==
    ASSUME DInv, ForwardHidden \/ BeginChunk \/ SampleFirst \/ ForwardNextToken
    PROVE  DInv'
<1>1. PICK M : Queued(M) /\ Ordered(M) /\ CopiesKnown(M)
  BY DEF DInv
<1>2. UNCHANGED <<model, sampler, prompt, chunk, queue, fired, graph, capturing, recorded, position>>
  BY DEF ForwardHidden, BeginChunk, SampleFirst, ForwardNextToken, chosen
<1>3. Known(M)' = Known(M)
  BY <1>2 DEF Known
<1>4. Queued(M)'
  BY <1>1, <1>2 DEF Queued
<1>5. Undisturbed'
  <2>1. step # "next" /\ step' \in {"hidden", "chunk", "first", "layers", "replay"}
    BY DEF ForwardHidden, BeginChunk, SampleFirst, ForwardNextToken, Idle
  <2>. QED BY <1>2, <2>1 DEF DInv, Undisturbed, NoneInVram
<1>. DEFINE E == Known(M) \cup Events(recorded)
<1>6. SUFFICES Sound(todo', E) /\ Placed' /\ CopiesKnown(M)'
  <2>. HIDE DEF E
  <2>1. ASSUME Sound(todo', E) PROVE Ordered(M)'
    BY <1>1, <1>2, <1>3, <2>1 DEF Ordered, E
  <2>. QED BY <1>4, <1>5, <2>1 DEF DInv
<1>7. CASE ForwardHidden
  <2>1. step' = "hidden" /\ todo' = Prologue(model, hidden, position) \o Layers(model, hidden, position, FirstStep)
    BY <1>7 DEF ForwardHidden
  <2>. DEFINE a == Prologue(model, hidden, position)
              b == Layers(model, hidden, position, FirstStep)
              F == E \cup Events(a)
  <2>2. Calm(a)
    BY PrologueCalm
  <2>3. /\ Sound(b, F)
        /\ \A k \in 1 .. Len(model) : ByCopy(model[k]) => Copies(k, position) \in Events(b)
    <3>1. model \in Seq(LayerType) /\ position \in Nat /\ FirstStep \in Nat
      BY DEF DInv, Placed, FirstStep
    <3>2. position > FirstStep => \A k \in 1 .. Len(model) : ByCopy(model[k]) => Copies(k, position - 1) \in F
      BY <1>1 DEF CopiesKnown
    <3>. HIDE DEF F
    <3>. QED BY <3>1, <3>2, LayersSound
  <2>4. Sound(a \o b, E) /\ Events(b) \subseteq Events(a \o b)
    <3>. HIDE DEF a, b
    <3>. QED BY <2>2, <2>3, CalmIsSound, SoundConcat, CalmIsProgram, SoundIsProgram, EventsConcat
  <2>5. Placed'
    BY <1>2, <2>1 DEF DInv, Placed
  <2>6. CopiesKnown(M)'
    BY <1>1, <1>2, <1>3, <2>1, <2>3, <2>4 DEF CopiesKnown, FirstStep, Chunked
  <2>. QED BY <2>1, <2>4, <2>5, <2>6
<1>8. CASE BeginChunk
  <2>1. step = "chunks" /\ position < prompt /\ step' = "chunk"
        /\ todo' = Chunk(model, hidden, position + RowsOfChunk - 1, RowsOfChunk)
    BY <1>8 DEF BeginChunk
  <2>2. Sound(todo', E)
    BY <2>1, ChunkSound DEF DInv, Placed
  <2>3. Placed'
    BY <1>2, <2>1 DEF DInv, Placed, Chunked
  <2>4. CopiesKnown(M)'
    BY <1>1, <1>2, <1>3, <2>1 DEF CopiesKnown, FirstStep, Chunked
  <2>. QED BY <2>2, <2>3, <2>4
<1>9. CASE SampleFirst
  <2>1. step' = "first" /\ todo' = FirstToken
    BY <1>9 DEF SampleFirst
  <2>2. Sound(todo', E)
    BY <2>1, AfterwardsMild, MildIsSound DEF DInv
  <2>3. Placed'
    BY <1>2, <2>1 DEF DInv, Placed
  <2>4. CopiesKnown(M)'
    BY <1>1, <1>2, <1>3, <2>1 DEF CopiesKnown, FirstStep, Chunked
  <2>. QED BY <2>2, <2>3, <2>4
<1>10. CASE ForwardNextToken
  <2>1. \/ graph # <<>> /\ step' = "replay" /\ todo' = Prologue(model, hidden, position) \o graph
        \/ step' = "layers" /\ todo' = Prologue(model, hidden, position)
    BY <1>10 DEF ForwardNextToken
  <2>2. Sound(todo', E)
    <3>. DEFINE a == Prologue(model, hidden, position)
    <3>1. Calm(a)
      BY PrologueCalm
    <3>2. Sound(graph, E \cup Events(a))
      <4>1. Known(M) \subseteq E \cup Events(a)
        OBVIOUS
      <4>. HIDE DEF E, a
      <4>. QED BY <1>1, <4>1, SoundMore DEF Ordered
    <3>. HIDE DEF a, E
    <3>3. Sound(a, E) /\ Sound(a \o graph, E)
      BY <3>1, <3>2, CalmIsSound, SoundConcat
    <3>. QED BY <2>1, <3>3 DEF a
  <2>3. Placed'
    BY <1>2, <2>1 DEF DInv, Placed
  <2>4. CopiesKnown(M)'
    BY <1>1, <1>2, <1>3, <2>1 DEF CopiesKnown, FirstStep, Chunked
  <2>. QED BY <2>2, <2>3, <2>4
<1>. QED BY <1>7, <1>8, <1>9, <1>10

(* The layers of a step, captured or not.                                  *)
LEMMA BeginLayersKeeps ==
    ASSUME DInv, BeginLayers
    PROVE  DInv'
<1>1. PICK M : Queued(M) /\ Ordered(M) /\ CopiesKnown(M)
  BY DEF DInv
<1>2. /\ step' = "next" /\ capturing' = CanCapture /\ recorded' = <<>>
      /\ todo' = Layers(model, hidden, position, FirstStep) \o AfterLayers
      /\ UNCHANGED <<model, sampler, prompt, chunk, queue, fired, graph, position>>
  BY DEF BeginLayers, chosen
<1>3. Known(M)' = Known(M)
  BY <1>2 DEF Known
<1>. DEFINE a == Layers(model, hidden, position, FirstStep)
            b == AfterLayers
            E == Known(M) \cup Events(recorded')
<1>4. Placed /\ model \in Seq(LayerType) /\ position \in Nat /\ FirstStep \in Nat
  BY DEF DInv, Placed, FirstStep
<1>5. Calm(b)
  BY <1>4, AfterwardsMild
<1>6. /\ Sound(a, E)
      /\ \A k \in 1 .. Len(model) : ByCopy(model[k]) => Copies(k, position) \in Events(a)
  <2>1. position > FirstStep => \A k \in 1 .. Len(model) : ByCopy(model[k]) => Copies(k, position - 1) \in E
    BY <1>1 DEF CopiesKnown
  <2>. HIDE DEF E
  <2>. QED BY <1>4, <2>1, LayersSound
<1>7. CanCapture /\ NoneInVram => Calm(a)
  BY <1>4, CanCaptureIs, LayersCalm
<1>. HIDE DEF a, b
<1>8. Sound(todo', E)
  <2>. HIDE DEF E
  <2>. QED BY <1>2, <1>5, <1>6, SoundThenCalm DEF a, b
<1>9. Events(a) \subseteq Events(todo')
  BY <1>2, <1>5, <1>6, CalmIsProgram, SoundIsProgram, EventsConcat DEF a, b
<1>10. CanCapture /\ NoneInVram => Calm(todo')
  BY <1>2, <1>5, <1>7, CalmConcat DEF a, b
<1>11. Queued(M)'
  BY <1>1, <1>2 DEF Queued
<1>12. Ordered(M)'
  <2>1. Sound(recorded', Known(M)) /\ OnDevice(recorded')
    BY <1>2, SoundNone DEF OnDevice
  <2>. QED BY <1>1, <1>2, <1>3, <1>8, <2>1 DEF Ordered
<1>13. CopiesKnown(M)'
  <2>1. CanCapture => \A l \in 1 .. Len(model) : ~ByCopy(model[l])
    BY <1>4, CanCaptureIs
  <2>. QED BY <1>1, <1>2, <1>3, <1>6, <1>9, <2>1 DEF CopiesKnown, FirstStep, Chunked
<1>14. Placed'
  BY <1>2, <1>4 DEF Placed, CanCapture
<1>15. Undisturbed'
  BY <1>2, <1>10 DEF Undisturbed, NoneInVram
<1>. QED BY <1>11, <1>12, <1>13, <1>14, <1>15 DEF DInv

(* A capture becomes the graph and is issued as a whole.                   *)
LEMMA EndLayersKeeps ==
    ASSUME DInv, EndLayers
    PROVE  DInv'
<1>1. PICK M : Queued(M) /\ Ordered(M) /\ CopiesKnown(M)
  BY DEF DInv
<1>2. /\ step = "next" /\ todo = <<>> /\ step' = "replay" /\ capturing' = FALSE /\ recorded' = <<>>
      /\ IF capturing THEN graph' = recorded /\ Enqueue(recorded) ELSE UNCHANGED <<graph, queue>>
      /\ UNCHANGED <<model, sampler, prompt, chunk, fired, position, todo>>
  BY DEF EndLayers, chosen
<1>3. Placed' /\ Undisturbed'
  BY <1>2 DEF DInv, Placed, Undisturbed
<1>4. Events(todo) = {} /\ \A L : Sound(todo, L) /\ Sound(recorded', L)
  BY <1>2, EventsNone, SoundNone
<1>5. OnDevice(recorded')
  BY <1>2 DEF OnDevice
<1>6. CASE ~capturing
  <2>1. UNCHANGED <<graph, queue>> /\ Known(M)' = Known(M)
    BY <1>2, <1>6 DEF Known
  <2>2. Queued(M)' /\ Ordered(M)' /\ CopiesKnown(M)'
    BY <1>1, <1>2, <1>4, <1>5, <1>6, <2>1 DEF Queued, Ordered, CopiesKnown, FirstStep, Chunked
  <2>. QED BY <1>3, <2>2 DEF DInv
<1>7. CASE capturing
  <2>0. PICK N : N = M \o recorded
    OBVIOUS
  <2>1. queue' = [s \in {"compute", "transfer"} |-> queue[s] \o OfStream(recorded, s)] /\ graph' = recorded
    BY <1>2, <1>7 DEF Enqueue
  <2>2. Program(M) /\ Program(recorded) /\ Sound(recorded, fired \cup Events(M))
    BY <1>1, SoundIsProgram DEF Ordered, Known
  <2>3. Sound(N, fired) /\ Events(N) = Events(M) \cup Events(recorded) /\ OnDevice(N)
    BY <1>1, <2>0, <2>2, SoundConcat, EventsConcat, DeviceConcat DEF Ordered, Queued
  <2>4. queue' = [s \in {"compute", "transfer"} |-> OfStream(N, s)]
    <3>1. \A s : OfStream(N, s) = OfStream(M, s) \o OfStream(recorded, s)
      BY ONLY <2>0, <2>2, StreamsConcat
    <3>2. \A s \in {"compute", "transfer"} : queue[s] = OfStream(M, s)
      BY <1>1 DEF Queued
    <3>. QED BY <2>1, <3>1, <3>2
  <2>5. Known(N)' = Known(M) \cup Events(recorded) /\ Known(M) \subseteq Known(N)'
    BY <1>2, <2>3 DEF Known
  <2>6. Sound(recorded, Known(N)')
    BY <1>1, <2>5, SoundMore DEF Ordered
  <2>7. Queued(N)'
    BY <2>3, <2>4 DEF Queued
  <2>8. Ordered(N)'
    BY <1>1, <1>2, <1>4, <1>5, <2>1, <2>3, <2>6 DEF Ordered
  <2>9. CopiesKnown(N)'
    BY <1>1, <1>2, <1>7, <2>5 DEF CopiesKnown, FirstStep, Chunked
  <2>. QED BY <1>3, <2>7, <2>8, <2>9 DEF DInv
<1>. QED BY <1>6, <1>7 DEF DInv, Placed

(* The step ends; its token is next.                                       *)
LEMMA AfterReplayKeeps ==
    ASSUME DInv, AfterReplay
    PROVE  DInv'
<1>1. PICK M : Queued(M) /\ Ordered(M) /\ CopiesKnown(M)
  BY DEF DInv
<1>2. /\ step = "replay" /\ todo = <<>> /\ position' = position + 1 /\ step' = "first" /\ todo' = AfterStep
      /\ UNCHANGED <<model, sampler, prompt, chunk, queue, fired, graph, capturing, recorded>>
  BY DEF AfterReplay, chosen
<1>3. Known(M)' = Known(M)
  BY <1>2 DEF Known
<1>4. Sound(todo', Known(M) \cup Events(recorded))
  BY <1>2, AfterwardsMild, MildIsSound DEF DInv
<1>5. Queued(M)' /\ Ordered(M)'
  BY <1>1, <1>2, <1>3, <1>4 DEF Queued, Ordered
<1>6. Placed'
  BY <1>2 DEF DInv, Placed
<1>7. Undisturbed'
  BY <1>2 DEF DInv, Undisturbed, NoneInVram
<1>8. CopiesKnown(M)'
  <2>1. \A l \in 1 .. Len(model) : ByCopy(model[l]) => Copies(l, position) \in Known(M)
    BY <1>1, <1>2, EventsNone DEF CopiesKnown
  <2>2. position' - 1 = position
    BY <1>2 DEF DInv, Placed
  <2>. QED BY <1>1, <1>2, <1>3, <2>1, <2>2 DEF CopiesKnown
<1>. QED BY <1>5, <1>6, <1>7, <1>8 DEF DInv

-----------------------------------------------------------------------------
(* The theorems.                                                           *)

(* Of every stream no operation is issued, recorded or left to the host    *)
(* ahead of the one that fires the event it waits for.                     *)
THEOREM DecodeInvariant == Spec => []DInv
<1>1. ASSUME DInv, [Next]_vars PROVE DInv'
  <2>1. CASE UNCHANGED vars
    <3>1. PICK M : Queued(M) /\ Ordered(M) /\ CopiesKnown(M)
      BY <1>1 DEF DInv
    <3>2. UNCHANGED <<model, sampler, prompt, chunk, queue, fired, graph, capturing, recorded, position, todo, step>>
      BY <2>1 DEF vars
    <3>3. Known(M)' = Known(M)
      BY <3>2 DEF Known
    <3>4. Queued(M)' /\ Ordered(M)'
      BY <3>1, <3>2, <3>3 DEF Queued, Ordered
    <3>5. CopiesKnown(M)'
      BY <3>1, <3>2, <3>3 DEF CopiesKnown, FirstStep, Chunked
    <3>6. Placed' /\ Undisturbed'
      BY <1>1, <3>2 DEF DInv, Placed, Undisturbed, Chunked, NoneInVram
    <3>. QED BY <3>4, <3>5, <3>6 DEF DInv
  <2>2. CASE Issue
    BY <1>1, <2>2, IssueKeeps
  <2>3. CASE Fail \/ Refuse \/ Return
    BY <1>1, <2>3, EndKeeps
  <2>4. CASE HostReads \/ HostWaits \/ HostExperts
    BY <1>1, <2>4, TailKeeps
  <2>5. CASE HiddenDone \/ ChunkDone \/ PrefillPrompt
    BY <1>1, <2>5, DoneKeeps
  <2>6. CASE ForwardHidden \/ BeginChunk \/ SampleFirst \/ ForwardNextToken
    BY <1>1, <2>6, BeginKeeps
  <2>7. CASE BeginLayers
    BY <1>1, <2>7, BeginLayersKeeps
  <2>8. CASE EndLayers
    BY <1>1, <2>8, EndLayersKeeps
  <2>9. CASE AfterReplay
    BY <1>1, <2>9, AfterReplayKeeps
  <2>10. CASE Compute \/ Transfer
    <3>1. Execute("compute") \/ Execute("transfer")
      BY <2>10 DEF Compute, Transfer
    <3>2. "compute" \in Streams /\ "transfer" \in Streams
      BY DEF Streams
    <3>. QED BY <1>1, <3>1, <3>2, ExecuteKeeps
  <2>. QED BY <1>1, <2>1, <2>2, <2>3, <2>4, <2>5, <2>6, <2>7, <2>8, <2>9, <2>10, Zenon DEF Next, Host
<1>. QED BY InitDInv, <1>1, PTL DEF Spec

(* What was issued first of all that is left is the head of its queue.     *)
LEMMA HeadOfQueue ==
    ASSUME NEW M, Program(M), OnDevice(M), M # <<>>
    PROVE  /\ Head(M) = M[1] /\ 1 \in DOMAIN M /\ Head(M).stream \in Streams
           /\ OfStream(M, Head(M).stream) # <<>>
           /\ Head(OfStream(M, Head(M).stream)) = Head(M)
<1>. DEFINE x == Head(M)
            b == Tail(M)
            s == x.stream
            e == <<>>
<1>1. M = <<x>> \o b /\ x = M[1] /\ 1 \in DOMAIN M
  BY HeadIs
<1>2. s \in Streams
  BY <1>1 DEF OnDevice
<1>3. PICK S : M \in Seq(S) /\ \A y \in S : Good(y)
  BY DEF Program
<1>4. x \in S /\ b \in Seq(S) /\ e \in Seq(S)
  BY <1>3, HeadTailProperties
<1>5. OfStream(e, s) = e
  BY StreamNone
<1>6. Splits(M, s, e, x, b)
  <2>. DEFINE t == <<x>>
  <2>1. t \in Seq(S)
    BY <1>4
  <2>. HIDE DEF t, x, b
  <2>2. e \o t = t
    BY <2>1, ConcatEmptySeq
  <2>. QED BY <1>1, <1>5, <2>2 DEF Splits, t
<1>. HIDE DEF x, b, e
<1>7. OfStream(M, s) # <<>> /\ Head(OfStream(M, s)) = x
  BY <1>3, <1>4, <1>6, StreamWithout
<1>. QED BY <1>1, <1>2, <1>7 DEF x

(* While anything is left to run one of the streams can go on, and the     *)
(* host never waits for what nothing will fire.                            *)
LEMMA DInvAdvances ==
    ASSUME DInv
    PROVE  StreamsAdvance
<1>1. PICK M : Queued(M) /\ Ordered(M) /\ CopiesKnown(M)
  BY DEF DInv
<1>2. Program(M) /\ OnDevice(M) /\ \A i \in DOMAIN M : Ready(M, fired, i)
  BY <1>1 DEF Ordered, Queued, Sound
<1>3. DOMAIN queue = Streams /\ \A s \in Streams : queue[s] = OfStream(M, s)
  BY <1>1 DEF Queued, Streams
<1>4. ASSUME M # <<>>
      PROVE  \E u \in DOMAIN queue :
                queue[u] # <<>> /\ (Head(queue[u]).kind = "wait" => Head(queue[u]).id \in fired)
  <2>. DEFINE u == Head(M).stream
  <2>1. /\ Head(M) = M[1] /\ 1 \in DOMAIN M
        /\ u \in Streams /\ queue[u] # <<>> /\ Head(queue[u]) = Head(M)
    BY <1>2, <1>3, <1>4, HeadOfQueue
  <2>2. ASSUME Head(M).kind = "wait" PROVE Head(M).id \in fired
    <3>1. Ready(M, fired, 1) /\ M[1].kind \in Awaiting
      BY <1>2, <2>1, <2>2 DEF Awaiting
    <3>2. DOMAIN M = 1 .. Len(M)
      BY <1>2, ProgramIs
    <3>3. \A j \in DOMAIN M : ~(j < 1)
      BY <3>2
    <3>. QED BY <2>1, <3>1, <3>3 DEF Ready
  <2>. HIDE DEF u
  <2>. QED BY <1>3, <2>1, <2>2
<1>5. ASSUME NEW s \in DOMAIN queue, queue[s] # <<>> PROVE M # <<>>
  BY <1>3, <1>5, StreamNone
<1>6. ASSUME ~capturing, AtHost("read"), Head(todo).id \notin fired PROVE M # <<>>
  <2>1. Sound(todo, Known(M) \cup Events(recorded)) /\ recorded = <<>>
    BY <1>1, <1>6 DEF Ordered
  <2>2. todo # <<>> /\ Head(todo).kind = "read"
    BY <1>6 DEF AtHost
  <2>3. Head(todo) = todo[1] /\ 1 \in DOMAIN todo /\ DOMAIN todo = 1 .. Len(todo) /\ Len(todo) \in Nat
    BY <2>1, <2>2, HeadIs, ProgramIs, SoundIsProgram
  <2>4. Ready(todo, Known(M) \cup Events(recorded), 1) /\ \A j \in DOMAIN todo : ~(j < 1)
    <3>1. \A i \in DOMAIN todo : Ready(todo, Known(M) \cup Events(recorded), i)
      BY <2>1 DEF Sound
    <3>2. Ready(todo, Known(M) \cup Events(recorded), 1)
      BY <2>3, <3>1, Zenon
    <3>3. \A j \in 1 .. Len(todo) : ~(j < 1)
      BY <2>3
    <3>. QED BY <2>3, <3>2, <3>3, Zenon
  <2>5. todo[1].id \in Known(M) \cup Events(recorded)
    BY <2>2, <2>3, <2>4 DEF Ready, Awaiting
  <2>6. Events(recorded) = {}
    BY <2>1, EventsNone
  <2>7. Head(todo).id \in Events(M)
    BY <1>6, <2>3, <2>5, <2>6 DEF Known
  <2>. QED BY <2>7, EventsNone
<1>7. ASSUME M # <<>> PROVE \E s \in DOMAIN queue : queue[s] # <<>>
  BY <1>4, <1>7
<1>. QED BY <1>4, <1>5, <1>6, <1>7 DEF StreamsAdvance

(* The streams and the host never wait for each other, with layers of any  *)
(* kinds in any order, eagerly, in a capture or in its replay.             *)
THEOREM StreamsAdvanceSafe == Spec => []StreamsAdvance
BY DecodeInvariant, DInvAdvances, PTL

(* A capture is disturbed only by a layer whose experts stay in VRAM and   *)
(* are not driven by the device.                                           *)
THEOREM CaptureFailsInVramSafe == Spec => []CaptureFailsInVram
<1>1. DInv => CaptureFailsInVram
  BY DEF DInv, Undisturbed, NoneInVram, CaptureFailsInVram
<1>. QED BY <1>1, DecodeInvariant, PTL
-----------------------------------------------------------------------------
(* What the operations of a program are made of.                           *)

Fields   == {"kind", "stream", "out", "name", "form", "layer", "slot", "in", "host", "id", "at"}
Yielding == {"kernel", "put", "upload", "zero", "attend"}

(* An operation yields a quantity of the network, for a position of the    *)
(* context that the host has fixed or that it finds in its inputs.         *)
Typed(op) ==
    /\ DOMAIN op = Fields
    /\ op.kind \in Yielding => op.name \in Names \cup {"junk"} /\ op.form \in Forms
    /\ op.layer \in Nat /\ op.slot \in Nat /\ op.at \in Nat
    /\ op.at < Context \/ (op.kind = "attend" /\ op.host = {} /\ op.in # {})

(* It stores or moves one row, and leaves the positions of a chunk alone.  *)
Steady(op) ==
    /\ Typed(op)
    /\ op.kind \in {"store", "save"} => op.slot = 0
    /\ op.out[1] # "batch"

(* Or it belongs to a chunk of at most w rows before its last: what it     *)
(* stores it stores where the positions of the chunk say, and those are    *)
(* never below w.                                                          *)
Fit(op, w, c) ==
    /\ Typed(op)
    /\ op.kind = "store" /\ op.slot # 0 =>
          /\ op.slot <= w /\ op.stream = "compute"
          /\ \E x \in op.in : x.name = "position"
          /\ \A x \in op.in : "name" \in DOMAIN x /\ "buf" \in DOMAIN x
          /\ \A x \in op.in : x.name = "position" => x.buf = <<"batch", c>>
    /\ op.kind = "save" => op.slot <= op.at
    /\ op.out[1] = "batch" =>
          /\ op.out = <<"batch", c>> /\ op.kind = "put" /\ op.stream = "compute" /\ op.name = "position"
          /\ op.in = {} /\ op.host = {} /\ op.at >= w

Regular(ops)      == \E S : ops \in Seq(S) /\ \A x \in S : Steady(x)
Within(ops, w, c) == \E S : ops \in Seq(S) /\ \A x \in S : Fit(x, w, c)

(* What is steady fits every chunk.                                        *)
LEMMA SteadyFits ==
    ASSUME NEW op, NEW w, NEW c, Steady(op)
    PROVE  Fit(op, w, c)
BY DEF Steady, Fit, Typed

(* So do sequences.                                                        *)
LEMMA RegularIsWithin ==
    ASSUME NEW ops, NEW w, NEW c, Regular(ops)
    PROVE  Within(ops, w, c)
<1>1. PICK S : ops \in Seq(S) /\ \A x \in S : Steady(x)
  BY DEF Regular
<1>. QED BY <1>1, SteadyFits DEF Within

(* Sequences that are written out: of nothing,                             *)
LEMMA RegularNone == Regular(<<>>)
<1>. DEFINE s == <<>>
            S == {}
<1>1. s \in Seq(S) /\ \A x \in S : Steady(x)
  OBVIOUS
<1>. HIDE DEF s, S
<1>2. Regular(s)
  BY <1>1 DEF Regular
<1>. QED BY <1>2 DEF s

(* of one operation,                                                       *)
LEMMA RegularOne ==
    ASSUME NEW a, Steady(a)
    PROVE  Regular(<<a>>)
<1>. DEFINE s == <<a>>
            S == {a}
<1>1. s \in Seq(S) /\ \A x \in S : Steady(x)
  OBVIOUS
<1>. HIDE DEF s, S
<1>2. Regular(s)
  BY <1>1 DEF Regular
<1>. QED BY <1>2 DEF s

(* One sequence after another,                                             *)
LEMMA RegularConcat ==
    ASSUME NEW a, NEW b, Regular(a), Regular(b)
    PROVE  Regular(a \o b)
<1>1. PICK S : a \in Seq(S) /\ \A x \in S : Steady(x)
  BY DEF Regular
<1>2. PICK T : b \in Seq(T) /\ \A x \in T : Steady(x)
  BY DEF Regular
<1>3. a \in Seq(S \cup T) /\ b \in Seq(S \cup T)
  BY <1>1, <1>2, SeqMonotonic
<1>4. a \o b \in Seq(S \cup T)
  BY <1>3, ConcatProperties
<1>. QED BY <1>1, <1>2, <1>4 DEF Regular

(* of two operations,                                                      *)
LEMMA RegularTwo ==
    ASSUME NEW a, NEW b, Steady(a), Steady(b)
    PROVE  Regular(<<a, b>>)
<1>. DEFINE s == <<a, b>>
            S == {a, b}
<1>1. s \in Seq(S) /\ \A x \in S : Steady(x)
  OBVIOUS
<1>. HIDE DEF s, S
<1>2. Regular(s)
  BY <1>1 DEF Regular
<1>. QED BY <1>2 DEF s

(* of three,                                                               *)
LEMMA RegularThree ==
    ASSUME NEW a, NEW b, NEW c, Steady(a), Steady(b), Steady(c)
    PROVE  Regular(<<a, b, c>>)
<1>. DEFINE s == <<a, b, c>>
            S == {a, b, c}
<1>1. s \in Seq(S) /\ \A x \in S : Steady(x)
  OBVIOUS
<1>. HIDE DEF s, S
<1>2. Regular(s)
  BY <1>1 DEF Regular
<1>. QED BY <1>2 DEF s

(* of four,                                                                *)
LEMMA RegularFour ==
    ASSUME NEW a, NEW b, NEW c, NEW d, Steady(a), Steady(b), Steady(c), Steady(d)
    PROVE  Regular(<<a, b, c, d>>)
<1>. DEFINE s == <<a, b, c, d>>
            S == {a, b, c, d}
<1>1. s \in Seq(S) /\ \A x \in S : Steady(x)
  OBVIOUS
<1>. HIDE DEF s, S
<1>2. Regular(s)
  BY <1>1 DEF Regular
<1>. QED BY <1>2 DEF s

(* of five                                                                 *)
LEMMA RegularFive ==
    ASSUME NEW a, NEW b, NEW c, NEW d, NEW e, Steady(a), Steady(b), Steady(c), Steady(d), Steady(e)
    PROVE  Regular(<<a, b, c, d, e>>)
<1>. DEFINE s == <<a, b, c, d, e>>
            S == {a, b, c, d, e}
<1>1. s \in Seq(S) /\ \A x \in S : Steady(x)
  OBVIOUS
<1>. HIDE DEF s, S
<1>2. Regular(s)
  BY <1>1 DEF Regular
<1>. QED BY <1>2 DEF s

(* and of seven.                                                           *)
LEMMA RegularSeven ==
    ASSUME NEW a, NEW b, NEW c, NEW d, NEW e, NEW f, NEW g,
           Steady(a), Steady(b), Steady(c), Steady(d), Steady(e), Steady(f), Steady(g)
    PROVE  Regular(<<a, b, c, d, e, f, g>>)
<1>. DEFINE s == <<a, b, c, d, e, f, g>>
            S == {a, b, c, d, e, f, g}
<1>1. s \in Seq(S) /\ \A x \in S : Steady(x)
  OBVIOUS
<1>. HIDE DEF s, S
<1>2. Regular(s)
  BY <1>1 DEF Regular
<1>. QED BY <1>2 DEF s

(* A sequence or nothing.                                                  *)
LEMMA RegularWhen ==
    ASSUME NEW c, NEW a, Regular(a)
    PROVE  Regular(When(c, a))
BY RegularNone DEF When

(* Op puts an operation together.                                          *)
LEMMA SteadyOp ==
    ASSUME NEW kind, NEW stream, NEW out, NEW n, NEW f, NEW l \in Nat, NEW k \in Nat, NEW in,
           kind \in Yielding => n \in Names /\ f \in Forms,
           kind \in {"store", "save"} => k = 0,
           out # "batch"
    PROVE  Steady(Op(kind, stream, out, n, f, l, k, in))
<1>. DEFINE op == Op(kind, stream, out, n, f, l, k, in)
<1>1. op.kind = kind /\ op.name = n /\ op.form = f /\ op.layer = l /\ op.slot = k /\ op.at = 0 /\ op.out = <<out, 0>>
      /\ DOMAIN op = Fields
  BY DEF Op, Fields
<1>2. 0 < Context
  BY DecodeAssumption
<1>. HIDE DEF op
<1>3. op.out[1] = out
  BY <1>1
<1>4. Steady(op)
  BY <1>1, <1>2, <1>3 DEF Steady, Typed
<1>. QED BY <1>4 DEF op

(* A kernel.                                                               *)
LEMMA KernelSteady ==
    ASSUME NEW out, NEW n \in Names, NEW f \in Forms, NEW l \in Nat, NEW k \in Nat, NEW in, out # "batch"
    PROVE  Steady(Op("kernel", "compute", out, n, f, l, k, in))
BY SteadyOp DEF Yielding

(* A kernel of a layer ...                                                 *)
LEMMA KSteady ==
    ASSUME NEW l \in Nat, NEW out, NEW n \in Names, NEW in, out # "batch"
    PROVE  Steady(K(l, out, n, in))
<1>1. "f32" \in Forms
  BY DEF Forms
<1>. QED BY <1>1, KernelSteady DEF K

(* ... and of a slot.                                                      *)
LEMMA KSSteady ==
    ASSUME NEW l \in Nat, NEW k \in Nat, NEW out, NEW n \in Names, NEW in, out # "batch"
    PROVE  Steady(KS(l, k, out, n, in))
<1>1. "f32" \in Forms
  BY DEF Forms
<1>. QED BY <1>1, KernelSteady DEF KS

(* A buffer set to zero.                                                   *)
LEMMA ZeroSteady ==
    ASSUME NEW out, out # "batch"
    PROVE  Steady(Zero(out))
<1>1. "f32" \in Forms /\ "zero" \in Names
  BY DEF Forms, Names, ExpertNames
<1>. QED BY <1>1, SteadyOp DEF Zero

(* Further inputs,                                                         *)
LEMMA SteadyAlso ==
    ASSUME NEW op, NEW in, Steady(op)
    PROVE  Steady(Also(op, in))
<1>. DEFINE b == Also(op, in)
<1>1. DOMAIN b = DOMAIN op /\ b.kind = op.kind /\ b.name = op.name /\ b.form = op.form /\ b.layer = op.layer
      /\ b.slot = op.slot /\ b.at = op.at /\ b.host = op.host /\ b.out = op.out /\ b.in = op.in \cup in
  BY DEF Also, Steady, Typed, Fields
<1>. HIDE DEF b
<1>2. Steady(b)
  BY <1>1 DEF Steady, Typed
<1>. QED BY <1>2 DEF b

(* an event,                                                               *)
LEMMA SteadyId ==
    ASSUME NEW op, NEW id, Steady(op)
    PROVE  Steady([op EXCEPT !.id = id])
<1>. DEFINE b == [op EXCEPT !.id = id]
<1>1. DOMAIN b = DOMAIN op /\ b.kind = op.kind /\ b.name = op.name /\ b.form = op.form /\ b.layer = op.layer
      /\ b.slot = op.slot /\ b.at = op.at /\ b.host = op.host /\ b.out = op.out /\ b.in = op.in
  BY DEF Steady, Typed, Fields
<1>. HIDE DEF b
<1>2. Steady(b)
  BY <1>1 DEF Steady, Typed
<1>. QED BY <1>2 DEF b

(* another buffer to write,                                                *)
LEMMA SteadyOut ==
    ASSUME NEW op, NEW out, Steady(op), out[1] # "batch"
    PROVE  Steady([op EXCEPT !.out = out])
<1>. DEFINE b == [op EXCEPT !.out = out]
<1>1. DOMAIN b = DOMAIN op /\ b.kind = op.kind /\ b.name = op.name /\ b.form = op.form /\ b.layer = op.layer
      /\ b.slot = op.slot /\ b.at = op.at /\ b.host = op.host /\ b.out = out /\ b.in = op.in
  BY DEF Steady, Typed, Fields
<1>. HIDE DEF b
<1>2. Steady(b)
  BY <1>1 DEF Steady, Typed
<1>. QED BY <1>2 DEF b

(* a position                                                              *)
LEMMA SteadyAt ==
    ASSUME NEW op, NEW p \in 0 .. Context - 1, Steady(op)
    PROVE  Steady(At(op, p))
<1>. DEFINE b == At(op, p)
<1>1. DOMAIN b = DOMAIN op /\ b.kind = op.kind /\ b.name = op.name /\ b.form = op.form /\ b.layer = op.layer
      /\ b.slot = op.slot /\ b.at = p /\ b.host = op.host /\ b.out = op.out /\ b.in = op.in
  BY DEF At, Steady, Typed, Fields
<1>2. p \in Nat /\ p < Context
  BY DecodeAssumption
<1>. HIDE DEF b
<1>3. Steady(b)
  BY <1>1, <1>2 DEF Steady, Typed
<1>. QED BY <1>3 DEF b

(* or a position and an argument of the host.                              *)
LEMMA SteadyGivenAt ==
    ASSUME NEW op, NEW p \in 0 .. Context - 1, NEW v, NEW n, Steady(op)
    PROVE  Steady(At(Given(op, v, n), p)) /\ Steady(Given(At(op, p), v, n))
<1>. DEFINE b == At(Given(op, v, n), p)
<1>1. DOMAIN b = DOMAIN op /\ b.kind = op.kind /\ b.name = op.name /\ b.form = op.form /\ b.layer = op.layer
      /\ b.slot = op.slot /\ b.at = p /\ b.out = op.out
  BY DEF At, Given, Steady, Typed, Fields
<1>2. p \in Nat /\ p < Context
  BY DecodeAssumption
<1>. DEFINE c == Given(At(op, p), v, n)
<1>3. DOMAIN c = DOMAIN op /\ c.kind = op.kind /\ c.name = op.name /\ c.form = op.form /\ c.layer = op.layer
      /\ c.slot = op.slot /\ c.at = p /\ c.out = op.out
  BY DEF At, Given, Steady, Typed, Fields
<1>. HIDE DEF b, c
<1>4. Steady(b) /\ Steady(c)
  BY <1>1, <1>2, <1>3 DEF Steady, Typed
<1>. QED BY <1>4 DEF b, c

(* Events.                                                                 *)
LEMMA EventSteady ==
    ASSUME NEW s, NEW e
    PROVE  Steady(Record(s, e)) /\ Steady(Wait(s, e))
<1>1. Steady(Op("record", s, "", "", "", 0, 0, {})) /\ Steady(Op("wait", s, "", "", "", 0, 0, {}))
  BY SteadyOp DEF Yielding
<1>. QED BY <1>1, SteadyId DEF Record, Wait

(* What the host does.                                                     *)
LEMMA OnHostSteady ==
    ASSUME NEW kind \in OfHosts, NEW out, NEW n, NEW l \in Nat, NEW in, out # "batch"
    PROVE  Steady(OnHost(kind, out, n, l, in))
BY SteadyOp DEF OnHost, OfHosts, Yielding

-----------------------------------------------------------------------------
(* Linear layers.                                                          *)

(* The activation quantised.                                               *)
LEMMA QuantiseRegular ==
    ASSUME NEW l \in Nat, NEW k \in Nat, NEW x, NEW xn \in Names, NEW buf, NEW f \in Forms, buf # "batch"
    PROVE  Regular(Quantise(l, k, x, xn, buf, f))
BY KernelSteady, RegularOne DEF Quantise

(* The scales are forms.                                                   *)
LEMMA ScaleIs ==
    ASSUME NEW m, NEW first
    PROVE  Scale(m, first) \in Forms
BY DEF Scale, Forms

(* Its preparation for a product.                                          *)
LEMMA PrepareRegular ==
    ASSUME NEW l \in Nat, NEW x, NEW xn \in Names, NEW have, NEW want \in Forms, NEW buf, buf # "batch"
    PROVE  Regular(Prepare(l, x, xn, have, want, buf))
BY QuantiseRegular, RegularWhen DEF Prepare

(* A product that takes what was quantised ...                             *)
LEMMA MatvecReuseRegular ==
    ASSUME NEW l \in Nat, NEW fmt, NEW x, NEW xn \in Names, NEW q, NEW f, NEW mx, NEW valid, NEW out, NEW n \in Names,
           mx # "batch", out # "batch"
    PROVE  Regular(MatvecReuse(l, fmt, x, xn, q, f, mx, valid, out, n))
<1>1. "f32" \in Forms /\ "mxfp4" \in Forms
  BY DEF Forms
<1>. QED BY <1>1, QuantiseRegular, KernelSteady, RegularOne, RegularWhen, RegularConcat DEF MatvecReuse

(* ... and one that quantises.                                             *)
LEMMA MatvecRegular ==
    ASSUME NEW l \in Nat, NEW k \in Nat, NEW fmt \in Formats, NEW x, NEW xn \in Names, NEW q, NEW mx, NEW out,
           NEW n \in Names, q # "batch", mx # "batch", out # "batch"
    PROVE  Regular(Matvec(l, k, fmt, x, xn, q, mx, out, n))
<1>1. {"f32", "mxfp4", "cutlass", "scaleA"} \subseteq Forms
  BY DEF Forms
<1>. QED BY <1>1, QuantiseRegular, KernelSteady, KSSteady, RegularOne, RegularConcat DEF Matvec, Formats

-----------------------------------------------------------------------------
(* Attention.                                                              *)

(* Query, key and value from NVFP4 weights ...                             *)
LEMMA ProjectQkvNvfp4Regular ==
    ASSUME NEW l \in Nat, NEW m, NEW h
    PROVE  Regular(ProjectQkvNvfp4(l, m, h))
<1>1. {"normed", "qg", "q", "k", "v", "gate"} \subseteq Names
  BY DEF Names, AttentionNames
<1>. QED BY <1>1, ScaleIs, QuantiseRegular, PrepareRegular, MatvecReuseRegular, KSteady, RegularOne, RegularTwo,
            RegularConcat DEF ProjectQkvNvfp4

(* ... and from others,                                                    *)
LEMMA ProjectQkvPlainRegular ==
    ASSUME NEW l \in Nat, NEW m, NEW h
    PROVE  Regular(ProjectQkvPlain(l, m, h))
<1>1. {"normed", "qg", "q", "k", "v", "gate"} \subseteq Names
  BY DEF Names, AttentionNames
<1>. QED BY <1>1, KSteady, RegularOne, RegularTwo, RegularThree, RegularWhen, RegularConcat DEF ProjectQkvPlain

(* their norms                                                             *)
LEMMA NormQkvRegular ==
    ASSUME NEW l \in Nat, NEW m
    PROVE  Regular(NormQkv(l, m))
<1>1. {"qn", "kn", "vn"} \subseteq Names
  BY DEF Names, AttentionNames
<1>. QED BY <1>1, KSteady, RegularTwo, RegularWhen, RegularConcat DEF NormQkv, NormOne

(* and their rotation.                                                     *)
LEMMA RotateRegular ==
    ASSUME NEW l \in Nat, NEW m
    PROVE  Regular(Rotate(l, m))
<1>1. {"qr", "kr", "qs"} \subseteq Names
  BY DEF Names, AttentionNames
<1>. QED BY <1>1, KSteady, SteadyAlso, RegularOne, RegularWhen, RegularConcat DEF Rotate

(* The row of a token stored,                                              *)
LEMMA StoreSteady ==
    ASSUME NEW l \in Nat, NEW m
    PROVE  Steady(Store(l, m))
<1>. DEFINE a == Also(K(l, "", "kv", {<<"k", "kr">>, <<"v", ValueName(m)>>}), Position)
            b == [a EXCEPT !.kind = "store", !.out = KvBuffer(l, m)]
<1>1. "kv" \in Names
  BY DEF Names, AttentionNames
<1>2. Steady(a) /\ a.slot = 0 /\ a.at = 0
  BY <1>1, KSteady, SteadyAlso DEF K, Op, Also
<1>3. KvBuffer(l, m)[1] # "batch"
  BY DEF KvBuffer, StagingSlot
<1>. HIDE DEF a
<1>4. DOMAIN b = DOMAIN a /\ b.kind = "store" /\ b.name = a.name /\ b.form = a.form /\ b.layer = a.layer
      /\ b.slot = a.slot /\ b.at = a.at /\ b.host = a.host /\ b.out = KvBuffer(l, m) /\ b.in = a.in
  BY <1>2 DEF Steady, Typed, Fields
<1>5. Store(l, m) = b
  BY DEF Store, a
<1>6. 0 < Context
  BY DecodeAssumption
<1>. HIDE DEF b
<1>. QED BY <1>2, <1>3, <1>4, <1>5, <1>6 DEF Steady, Typed, Yielding

(* the rows attended to,                                                   *)
LEMMA AttendSteady ==
    ASSUME NEW l \in Nat, NEW m \in LayerType, NEW p \in Nat
    PROVE  Steady(Attend(l, m, p))
<1>. DEFINE in == {<<"q", QueryName(m)>>}
            a == Also(K(l, "attn_context", "ctx", in), Length)
            s == IF m.parent = 0 THEN l ELSE m.parent
            b == [a EXCEPT !.kind = "attend", !.id = KvBuffer(l, m), !.slot = s, !.at = p + 1]
<1>1. "ctx" \in Names
  BY DEF Names, AttentionNames
<1>2. Steady(a) /\ a.host = {} /\ a.in # {} /\ a.name = "ctx" /\ a.form = "f32"
  BY <1>1, KSteady, SteadyAlso DEF K, Op, Also, Length
<1>3. s \in Nat
  BY DEF LayerType
<1>. HIDE DEF a, s
<1>4. DOMAIN b = DOMAIN a /\ b.kind = "attend" /\ b.name = a.name /\ b.form = a.form /\ b.layer = a.layer
      /\ b.slot = s /\ b.at = p + 1 /\ b.host = a.host /\ b.out = a.out /\ b.in = a.in
  BY <1>2 DEF Steady, Typed, Fields
<1>5. Attend(l, m, p) = b
  BY DEF Attend, a, s
<1>6. "f32" \in Forms
  BY DEF Forms
<1>. HIDE DEF b
<1>. QED BY <1>1, <1>2, <1>3, <1>4, <1>5, <1>6 DEF Steady, Typed

(* and the attention of a layer.                                           *)
LEMMA AttentionRegular ==
    ASSUME NEW l \in Nat, NEW m \in LayerType, NEW h, NEW p \in Nat
    PROVE  Regular(Attention(l, m, h, p))
<1>1. m.oproj \in Formats
  BY DEF LayerType
<1>2. {"ctx", "gctx", "o", "on", "residual"} \subseteq Names
  BY DEF Names, AttentionNames
<1>. QED BY <1>1, <1>2, ProjectQkvNvfp4Regular, ProjectQkvPlainRegular, NormQkvRegular, RotateRegular, StoreSteady,
            AttendSteady, MatvecRegular, KSteady, RegularOne, RegularTwo, RegularWhen, RegularConcat DEF Attention

-----------------------------------------------------------------------------
(* Gated delta net and dense MLP.                                          *)

(* A state of the delta net carried on ...                                 *)
LEMMA StepStateRegular ==
    ASSUME NEW l \in Nat, NEW b \in Names, NEW out, NEW nn \in Names, NEW in, b # "batch", out # "batch"
    PROVE  Regular(StepState(l, b, out, nn, in))
<1>. DEFINE y == Also(K(l, b, b, in), Carried(l, b))
            x == [y EXCEPT !.out = <<b, l>>]
<1>1. Steady(y)
  BY KSteady, SteadyAlso
<1>. HIDE DEF y
<1>2. Steady(x)
  BY <1>1, SteadyOut
<1>. HIDE DEF x
<1>3. Steady(Also(K(l, out, nn, in), Carried(l, b)))
  BY KSteady, SteadyAlso
<1>. QED BY <1>2, <1>3, RegularTwo DEF StepState, x, y

(* ... and the delta net of a layer.                                       *)
LEMMA GatedDeltaNetRegular ==
    ASSUME NEW l \in Nat, NEW m \in LayerType, NEW h
    PROVE  Regular(GatedDeltaNet(l, m, h))
<1>1. m.proj \in Formats
  BY DEF LayerType
<1>2. {"normed", "q", "k", "v", "o", "on", "residual", "qkv", "z", "b", "a", "conv_state", "qkvc", "gates", "recurrent",
       "mixed"} \subseteq Names
  BY DEF Names, AttentionNames, DeltaNetNames
<1>. QED BY <1>1, <1>2, MatvecRegular, StepStateRegular, KSteady, RegularOne, RegularFour, RegularConcat DEF GatedDeltaNet

(* Gate and up projection of the dense MLP ...                             *)
LEMMA GateUpRegular ==
    ASSUME NEW l \in Nat, NEW m \in LayerType
    PROVE  Regular(GateUp(l, m))
<1>1. m.gateup \in {"native", "prequant", "plain", "cutlass"}
  BY DEF LayerType, Formats
<1>2. {"normed2", "g", "u"} \subseteq Names /\ {"f32", "cutlass"} \subseteq Forms
  BY DEF Names, MlpNames, Forms
<1>. QED BY <1>1, <1>2, ScaleIs, MatvecReuseRegular, PrepareRegular, QuantiseRegular, KSteady, KernelSteady, RegularOne,
            RegularTwo, RegularConcat DEF GateUp

(* ... and down.                                                           *)
LEMMA DownRegular ==
    ASSUME NEW l \in Nat, NEW m \in LayerType
    PROVE  Regular(Down(l, m))
<1>1. m.down \in Formats
  BY DEF LayerType
<1>2. {"act", "mlp"} \subseteq Names /\ {"f32", "cutlass"} \subseteq Forms
  BY DEF Names, MlpNames, Forms
<1>. QED BY <1>1, <1>2, MatvecRegular, KSteady, KernelSteady, RegularOne, RegularTwo, RegularConcat DEF Down

(* The inputs of every layer ...                                           *)
LEMMA PerLayerInputsRegular ==
    ASSUME NEW h, NEW upload, Regular(upload)
    PROVE  Regular(PerLayerInputs(h, upload))
<1>1. {"row", "proj", "projn", "inputs", "x"} \subseteq Names /\ {"f32", "bf16"} \subseteq Forms
  BY DEF Names, AttentionNames, PleNames, Forms
<1>. QED BY <1>1, KSteady, KernelSteady, RegularFive, RegularConcat DEF PerLayerInputs

(* ... and what a layer makes of its own.                                  *)
LEMMA PleContributionRegular ==
    ASSUME NEW l \in Nat, NEW o, o # "batch"
    PROVE  Regular(PleContribution(l, o))
<1>1. {"y", "yp", "pg", "pgi", "pc", "pcn"} \subseteq Names /\ {"f32", "bf16"} \subseteq Forms
  BY DEF Names, MlpNames, PleNames, Forms
<1>. QED BY <1>1, KSteady, KernelSteady, SteadyAlso, RegularSeven DEF PleContribution

(* The output of a layer with them.                                        *)
LEMMA OutputRegular ==
    ASSUME NEW l \in Nat, NEW o, NEW n, o # "batch"
    PROVE  Regular(Output(l, o, n))
<1>1. "x" \in Names /\ "f32" \in Forms /\ l + 1 \in Nat
  BY DEF Names, AttentionNames, Forms
<1>. QED BY <1>1, KernelSteady, RegularOne DEF Output

(* The dense MLP.                                                          *)
LEMMA DenseMlpRegular ==
    ASSUME NEW l \in Nat, NEW m \in LayerType, NEW o, o # "batch"
    PROVE  Regular(DenseMlp(l, m, o))
<1>1. {"mlpn", "y"} \subseteq Names
  BY DEF Names, MlpNames
<1>. QED BY <1>1, GateUpRegular, DownRegular, PleContributionRegular, OutputRegular, KSteady, RegularOne, RegularTwo,
            RegularWhen, RegularConcat DEF DenseMlp

-----------------------------------------------------------------------------
(* Mixture of experts.                                                     *)

(* The router,                                                             *)
LEMMA RouterRegular ==
    ASSUME NEW l \in Nat, NEW m, NEW p
    PROVE  Regular(Router(l, m, p))
<1>1. {"normed2", "rin", "rl", "topk"} \subseteq Names
  BY DEF Names, MlpNames, ExpertNames
<1>. QED BY <1>1, KSteady, RegularOne, RegularTwo, RegularConcat DEF Router

(* its choice on the way to the host,                                      *)
LEMMA ReadBackRegular ==
    ASSUME NEW l \in Nat, NEW p
    PROVE  Regular(ReadBack(l, p))
<1>. DEFINE a == Op("kernel", "transfer", "packed_topk_pinned", "topk", "f32", l, 0,
                    {Want("packed_topk_device", "topk", "f32", l, 0)})
<1>1. "topk" \in Names /\ "f32" \in Forms
  BY DEF Names, ExpertNames, Forms
<1>2. Steady(a)
  BY <1>1, SteadyOp DEF Yielding
<1>. HIDE DEF a
<1>. QED BY <1>2, SteadyId, EventSteady, RegularThree DEF ReadBack, a

(* the input of the experts,                                               *)
LEMMA ExpertInputRegular ==
    ASSUME NEW l \in Nat, NEW m, NEW o, o # "batch"
    PROVE  Regular(ExpertInput(l, m, o))
<1>1. "ein" \in Names
  BY DEF Names, ExpertNames
<1>. QED BY <1>1, KSteady, RegularOne DEF ExpertInput

(* the shared expert                                                       *)
LEMMA SharedExpertRegular ==
    ASSUME NEW l \in Nat, NEW m, m.gateup \in Formats
    PROVE  Regular(SharedExpert(l, m))
<1>1. {"normed2", "sg", "su", "sact", "sdown", "slog", "shared"} \subseteq Names
  BY DEF Names, MlpNames, ExpertNames
<1>. QED BY <1>1, MatvecRegular, ZeroSteady, KSteady, RegularOne, RegularTwo, RegularConcat DEF SharedExpert

(* and its norm.                                                           *)
LEMMA SharedNormRegular ==
    ASSUME NEW l \in Nat, NEW m
    PROVE  Regular(SharedNorm(l, m))
<1>. DEFINE z == Zero("post_normed")
            in == {Want("moe_acc", "zero", "f32", l, 0)}
            x == [z EXCEPT !.in = in]
<1>1. "sn" \in Names
  BY DEF Names, ExpertNames
<1>2. Steady(z) /\ z.kind = "zero"
  BY ZeroSteady DEF Zero, Op
<1>3. Steady(x)
  <2>. HIDE DEF z, in
  <2>1. DOMAIN x = DOMAIN z /\ x.kind = z.kind /\ x.name = z.name /\ x.form = z.form /\ x.layer = z.layer
        /\ x.slot = z.slot /\ x.at = z.at /\ x.out = z.out
    BY <1>2 DEF Steady, Typed, Fields
  <2>. HIDE DEF x
  <2>. QED BY <1>2, <2>1 DEF Steady, Typed
<1>. HIDE DEF x
<1>. QED BY <1>1, <1>3, KSteady, RegularOne DEF SharedNorm, x

(* All experts of a token at once,                                         *)
LEMMA AllSlotsRegular ==
    ASSUME NEW l \in Nat, NEW o
    PROVE  Regular(AllSlots(l, o))
<1>1. {"ein", "eg", "eu", "eact", "eo", "acc"} \subseteq Names /\ {"f32", "gate", "up", "down"} \subseteq Forms
      /\ TopK \in Nat
  BY DEF Names, ExpertNames, Forms, TopK
<1>. QED BY <1>1, QuantiseRegular, KSteady, KernelSteady, RegularOne, RegularConcat DEF AllSlots, Accumulate

(* one of them,                                                            *)
LEMMA SlotRegular ==
    ASSUME NEW l \in Nat, NEW k \in Nat, NEW o, NEW w, NEW last
    PROVE  Regular(Slot(l, k, o, w, last))
<1>1. {"ein", "eg", "eu", "eact", "eo", "acc"} \subseteq Names /\ {"f32", "gate", "up", "down"} \subseteq Forms
  BY DEF Names, ExpertNames, Forms
<1>. QED BY <1>1, KSSteady, KernelSteady, RegularOne, RegularConcat DEF Slot, Accumulate

(* and their sum.                                                          *)
LEMMA CombineRegular ==
    ASSUME NEW l \in Nat, NEW m, NEW o, o # "batch"
    PROVE  Regular(Combine(l, m, o))
<1>1. {"rn", "sum", "mn", "y"} \subseteq Names /\ "f32" \in Forms
  BY DEF Names, MlpNames, ExpertNames, Forms
<1>. QED BY <1>1, KSteady, KernelSteady, RegularFour DEF Combine

(* A sequence changed operation by operation.                              *)
LEMMA RegularAlike ==
    ASSUME NEW a, NEW b, Regular(a), b = [i \in DOMAIN a |-> b[i]], \A i \in DOMAIN a : Steady(a[i]) => Steady(b[i])
    PROVE  Regular(b)
<1>0. PICK S : a \in Seq(S) /\ \A x \in S : Steady(x)
  BY DEF Regular
<1>1. Len(a) \in Nat /\ DOMAIN a = 1 .. Len(a)
  BY <1>0
<1>. DEFINE T == {b[i] : i \in 1 .. Len(a)}
<1>2. b \in [1 .. Len(a) -> T]
  BY <1>1
<1>3. ASSUME NEW i \in DOMAIN a PROVE Steady(b[i])
  <2>1. a[i] \in S
    BY <1>0
  <2>. QED BY <1>0, <2>1
<1>4. \A x \in T : Steady(x)
  BY <1>1, <1>3
<1>. HIDE DEF T
<1>5. b \in Seq(T)
  BY <1>1, <1>2
<1>. QED BY <1>4, <1>5 DEF Regular

(* Each operation is given an argument of the host.                        *)
LEMMA GivenRegular ==
    ASSUME NEW ops, NEW v, NEW n, NEW p \in 0 .. Context - 1, Regular(ops)
    PROVE  Regular([i \in DOMAIN ops |-> At(Given(ops[i], v, n), p)])
<1>. DEFINE b == [i \in DOMAIN ops |-> At(Given(ops[i], v, n), p)]
<1>1. \A i \in DOMAIN ops : Steady(ops[i]) => Steady(b[i])
  BY SteadyGivenAt
<1>2. b = [i \in DOMAIN ops |-> b[i]]
  OBVIOUS
<1>. HIDE DEF b
<1>3. Regular(b)
  BY <1>1, <1>2, RegularAlike
<1>. QED BY <1>3 DEF b

(* An expert of which each product is a kernel of its own.                 *)
LEMMA OneByOneRegular ==
    ASSUME NEW l \in Nat, NEW m, NEW k \in Nat, NEW o, NEW p \in 0 .. Context - 1
    PROVE  Regular(OneByOne(l, m, k, o, p))
<1>. DEFINE once == m.hostWeights /\ m.sameScale
            Quant(x, n, sl, f) == <<Op("kernel", "compute", "quant_expert", n, f, l, k, {Want(x, n, "f32", l, sl)})>>
            Product(out, nn, in) == <<Op("kernel", "compute", out, nn, "f32", l, k, {in})>>
            Input(f) == IF once THEN Want("quant_gate_up", "ein", "shared", l, 0) ELSE Want("quant_expert", "ein", f, l, k)
            ops == When(~once, Quant(o, "ein", 0, "gate")) \o Product("expert_gate", "eg", Input("gate"))
                   \o When(~once, Quant(o, "ein", 0, "up")) \o Product("expert_up", "eu", Input("up"))
                   \o <<KS(l, k, "expert_swiglu", "eact", {<<"expert_gate", "eg">>, <<"expert_up", "eu">>})>>
                   \o Quant("expert_swiglu", "eact", k, "down")
                   \o Product("expert_out", "eo", Want("quant_expert", "eact", "down", l, k))
                   \o <<Accumulate(l, k, {Before(l, k), Want("expert_out", "eo", "f32", l, k)})>>
<1>0. {"ein", "eg", "eu", "eact", "eo", "acc"} \subseteq Names /\ {"f32", "gate", "up", "down"} \subseteq Forms
  BY DEF Names, ExpertNames, Forms
<1>1. Regular(ops)
  BY <1>0, KSSteady, KernelSteady, RegularOne, RegularWhen, RegularConcat DEF Accumulate
<1>2. OneByOne(l, m, k, o, p) = [i \in DOMAIN ops |-> At(Given(ops[i], "topk", "topk"), p)]
  BY DEF OneByOne
<1>. HIDE DEF ops
<1>. QED BY <1>1, <1>2, GivenRegular

(* An upload of the host's choice.                                         *)
LEMMA UploadSteady ==
    ASSUME NEW kind \in {"upload", "put"}, NEW s, NEW out, NEW n \in Names, NEW l \in Nat, NEW k \in Nat, out # "batch",
           NEW p \in 0 .. Context - 1, NEW v, NEW nn
    PROVE  Steady(Given(At(Op(kind, s, out, n, "f32", l, k, {}), p), v, nn))
<1>1. "f32" \in Forms
  BY DEF Forms
<1>2. Steady(Op(kind, s, out, n, "f32", l, k, {}))
  BY <1>1, SteadyOp
<1>. QED BY <1>2, SteadyGivenAt

(* The experts copied,                                                     *)
LEMMA CopiedRegular ==
    ASSUME NEW l \in Nat, NEW p \in 0 .. Context - 1, NEW primed, NEW kernels, Regular(kernels)
    PROVE  Regular(Copied(l, p, primed, kernels))
<1>1. "experts" \in Names
  BY DEF Names, ExpertNames
<1>2. Steady(Given(At(Op("upload", "transfer", "bulk_expert", "experts", "f32", l, 0, {}), p), "topk", "topk"))
  BY <1>1, UploadSteady
<1>. QED BY <1>2, EventSteady, RegularOne, RegularThree, RegularWhen, RegularConcat DEF Copied

(* or however they run.                                                    *)
LEMMA RoutedRegular ==
    ASSUME NEW l \in Nat, NEW m \in LayerType, NEW o, NEW p \in 0 .. Context - 1, NEW primed, m.moe # "none"
    PROVE  Regular(Routed(l, m, o, p, primed))
<1>. DEFINE Slots(last) == Slot(l, 1, o, Weights(l), last) \o Slot(l, 2, o, Weights(l), last)
            OfHost(ops) == [i \in DOMAIN ops |-> At(Given(ops[i], "topk", "topk"), p)]
<1>0. m.moe \in {"gpu", "slots", "cpu", "staged", "bulk", "each"}
  BY DEF LayerType
<1>n. {"experts", "acc", "ein"} \subseteq Names /\ "shared" \in Forms /\ TopK \in Nat
  BY DEF Names, ExpertNames, Forms, TopK
<1>1. CASE m.moe \in {"gpu", "slots"}
  BY <1>n, <1>1, KSteady, RegularOne, AllSlotsRegular, SlotRegular, RegularConcat DEF Routed
<1>2. CASE m.moe = "staged"
  BY <1>2, AllSlotsRegular, CopiedRegular DEF Routed
<1>3. CASE m.moe = "bulk"
  <2>1. Routed(l, m, o, p, primed) = Copied(l, p, primed, OfHost(Slots({})))
    BY <1>3 DEF Routed
  <2>2. Regular(Slots({}))
    BY SlotRegular, RegularConcat
  <2>. HIDE DEF Slots
  <2>3. Regular(OfHost(Slots({})))
    BY <2>2, GivenRegular
  <2>. HIDE DEF OfHost
  <2>. QED BY <2>1, <2>3, CopiedRegular
<1>4. CASE m.moe = "each"
  BY <1>n, <1>4, QuantiseRegular, RegularWhen, OneByOneRegular, RegularConcat DEF Routed
<1>5. CASE m.moe = "cpu"
  <2>1. Steady(OnHost("experts", "acc", "acc", l, {}))
    BY OnHostSteady DEF OfHosts
  <2>2. Steady(Given(At(Op("upload", "compute", "routed_acc", "acc", "f32", l, TopK, {}), p), "acc", "acc"))
    BY <1>n, UploadSteady
  <2>. QED BY <1>5, <2>1, <2>2, RegularTwo DEF Routed
<1>. QED BY <1>0, <1>1, <1>2, <1>3, <1>4, <1>5

(* The MLP of experts.                                                     *)
LEMMA MoeMlpRegular ==
    ASSUME NEW l \in Nat, NEW m \in LayerType, NEW o, NEW p \in 0 .. Context - 1, NEW primed, m.moe # "none", o # "batch"
    PROVE  Regular(MoeMlp(l, m, o, p, primed))
<1>. DEFINE d == OnHost("download", "input", "ein", l, {Want(o, "ein", "f32", l, 0)})
            g == OnHost("read", "topk", "topk", l, {Want("packed_topk_pinned", "topk", "f32", l, 0)})
            h == [g EXCEPT !.id = <<"pinned", l, p>>]
<1>1. m.gateup \in Formats
  BY DEF LayerType
<1>2. Steady(d) /\ Steady(g)
  BY OnHostSteady DEF OfHosts
<1>. HIDE DEF d, g
<1>3. Steady(h)
  BY <1>2, SteadyId
<1>. HIDE DEF h
<1>. QED BY <1>1, <1>2, <1>3, RouterRegular, ReadBackRegular, ExpertInputRegular, SharedExpertRegular, SharedNormRegular,
            ZeroSteady, RoutedRegular, CombineRegular, OutputRegular, RegularOne, RegularWhen, RegularConcat
         DEF MoeMlp, d, g, h

-----------------------------------------------------------------------------
(* Layers.                                                                 *)

(* Rows moved to and from host memory,                                     *)
LEMMA MoveSteady ==
    ASSUME NEW kind \in {"load", "save"}, NEW l \in Nat, NEW p \in 0 .. Context - 1, NEW from, NEW to, to[1] # "batch"
    PROVE  Steady(Move(kind, l, p, from, to))
<1>. DEFINE a == At(Op(kind, "transfer", "", "", "", l, 0, {}), p)
            b == [a EXCEPT !.id = from, !.out = to]
<1>1. Steady(a)
  BY SteadyOp, SteadyAt DEF Yielding
<1>. HIDE DEF a
<1>2. DOMAIN b = DOMAIN a /\ b.kind = a.kind /\ b.name = a.name /\ b.form = a.form /\ b.layer = a.layer
      /\ b.slot = a.slot /\ b.at = a.at /\ b.host = a.host /\ b.out = to /\ b.in = a.in
  BY <1>1 DEF Steady, Typed, Fields
<1>3. Move(kind, l, p, from, to) = b
  BY DEF Move, a
<1>. HIDE DEF b
<1>. QED BY <1>1, <1>2, <1>3 DEF Steady, Typed

(* ahead of a layer and after it.                                          *)
LEMMA MovesRegular ==
    ASSUME NEW ms, NEW m, NEW l \in Nat, NEW p \in 0 .. Context - 1
    PROVE  Regular(Prefetch(ms, l, p)) /\ Regular(AwaitStaged(m, l, p)) /\ Regular(WriteBack(m, l, p))
<1>1. StagingSlot(l)[1] # "batch" /\ <<"host", l>>[1] # "batch"
  BY DEF StagingSlot
<1>2. /\ Steady(Move("load", l, p, <<"host", l>>, StagingSlot(l)))
      /\ Steady(Move("save", l, p, StagingSlot(l), <<"host", l>>))
  BY <1>1, MoveSteady
<1>. QED BY <1>2, EventSteady, RegularOne, RegularThree, RegularWhen, RegularConcat DEF Prefetch, AwaitStaged, WriteBack

(* The two buffers of the layers.                                          *)
LEMMA HiddenIs ==
    ASSUME NEW h \in {"bufA", "bufB"}, NEW l
    PROVE  HiddenOf(h, l) \in {"bufA", "bufB"} /\ Other(HiddenOf(h, l)) \in {"bufA", "bufB"}
BY DEF HiddenOf, Other

(* A layer.                                                                *)
LEMMA LayerRegular ==
    ASSUME NEW ms \in Seq(LayerType), NEW l \in 1 .. Len(ms), NEW h \in {"bufA", "bufB"}, NEW p \in 0 .. Context - 1,
           NEW first
    PROVE  Regular(Layer(ms, l, h, p, first))
<1>. DEFINE m == ms[l]
            x == HiddenOf(h, l)
            o == Other(x)
            mixer == IF m.mixer = "gdn" THEN GatedDeltaNet(l, m, x) ELSE Attention(l, m, x, p)
            last == LastCopy(ms, l, p, first)
            mlp == IF m.moe = "none" THEN DenseMlp(l, m, o) ELSE MoeMlp(l, m, o, p, last)
<1>0. m \in LayerType /\ l \in Nat /\ l + 1 \in Nat /\ p \in Nat
  BY DecodeAssumption
<1>1. Layer(ms, l, h, p, first) = Prefetch(ms, l + 1, p) \o AwaitStaged(m, l, p) \o mixer \o mlp \o WriteBack(m, l, p)
  BY DEF Layer
<1>2. o # "batch"
  BY HiddenIs
<1>. HIDE DEF m, x, o, last
<1>3. Regular(mixer)
  BY <1>0, GatedDeltaNetRegular, AttentionRegular
<1>4. Regular(mlp)
  BY <1>0, <1>2, DenseMlpRegular, MoeMlpRegular
<1>. HIDE DEF mixer, mlp
<1>5. Regular(Prefetch(ms, l + 1, p)) /\ Regular(AwaitStaged(m, l, p)) /\ Regular(WriteBack(m, l, p))
  BY <1>0, MovesRegular
<1>. QED BY <1>1, <1>3, <1>4, <1>5, RegularConcat

(* Many sequences, one after the other.                                    *)
LEMMA RegularFlatten ==
    ASSUME NEW n \in Nat, NEW f, DOMAIN f = 1 .. n, f = [i \in 1 .. n |-> f[i]], \A i \in 1 .. n : Regular(f[i])
    PROVE  Regular(FlattenSeq(f))
<1>. DEFINE Of(i) == CHOOSE S : f[i] \in Seq(S) /\ \A x \in S : Steady(x)
            S == UNION {Of(i) : i \in 1 .. n}
<1>1. ASSUME NEW i \in 1 .. n PROVE f[i] \in Seq(Of(i)) /\ \A x \in Of(i) : Steady(x)
  BY <1>1 DEF Regular
<1>. HIDE DEF Of
<1>2. ASSUME NEW i \in 1 .. n PROVE f[i] \in Seq(S)
  <2>1. Of(i) \subseteq S
    OBVIOUS
  <2>. HIDE DEF S
  <2>. QED BY <1>1, <2>1, SeqMonotonic
<1>3. \A x \in S : Steady(x)
  BY <1>1
<1>. HIDE DEF S
<1>4. f \in Seq(Seq(S))
  <2>1. f \in [1 .. n -> Seq(S)]
    BY <1>2
  <2>. QED BY <2>1
<1>5. FlattenSeq(f) \in Seq(S)
  BY <1>4, FlattenIs
<1>. QED BY <1>3, <1>5 DEF Regular

(* All layers.                                                             *)
LEMMA LayersRegular ==
    ASSUME NEW ms \in Seq(LayerType), NEW h \in {"bufA", "bufB"}, NEW p \in 0 .. Context - 1, NEW first
    PROVE  Regular(Layers(ms, h, p, first))
<1>. DEFINE N == Len(ms)
            L(l) == Layer(ms, l, h, p, first)
            f == [l \in 1 .. N |-> L(l)]
<1>1. ASSUME NEW l \in 1 .. N PROVE Regular(L(l))
  BY LayerRegular
<1>2. N \in Nat
  OBVIOUS
<1>. HIDE DEF L, N
<1>3. DOMAIN f = 1 .. N /\ f = [i \in 1 .. N |-> f[i]] /\ \A i \in 1 .. N : Regular(f[i])
  BY <1>1
<1>4. Layers(ms, h, p, first) = Prefetch(ms, 1, p) \o FlattenSeq(f)
  BY DEF Layers, L, N
<1>. HIDE DEF f
<1>5. Regular(FlattenSeq(f))
  BY <1>2, <1>3, RegularFlatten
<1>6. Regular(Prefetch(ms, 1, p))
  BY MovesRegular
<1>. QED BY <1>4, <1>5, <1>6, RegularConcat

(* What the host writes.                                                   *)
LEMMA PutSteady ==
    ASSUME NEW out, NEW n \in Names, NEW f \in Forms, NEW l \in Nat, NEW p \in 0 .. Context - 1, out # "batch"
    PROVE  Steady(Put(out, n, f, l, p))
BY SteadyOp, SteadyAt DEF Put

(* What a step begins with ...                                             *)
LEMMA PrologueRegular ==
    ASSUME NEW ms, NEW h \in {"bufA", "bufB"}, NEW p \in 0 .. Context - 1
    PROVE  Regular(Prologue(ms, h, p))
<1>1. {"x", "position", "length", "rowbf16"} \subseteq Names /\ "f32" \in Forms
  BY DEF Names, AttentionNames, PleNames, Forms
<1>. QED BY <1>1, PutSteady, PerLayerInputsRegular, RegularOne, RegularTwo, RegularWhen, RegularConcat DEF Prologue

(* ... and what it ends with.                                              *)
LEMMA FinalRegular ==
    ASSUME NEW ms, NEW h, Len(ms) \in Nat
    PROVE  Regular(FinalLogits(ms, h)) /\ Regular(Argmax(ms)) /\ Regular(Sampler(ms))
<1>1. {"fh", "logits", "token", "sampled"} \subseteq Names /\ Len(ms) + 1 \in Nat
  BY DEF Names, FinalNames
<1>. QED BY <1>1, KSteady, RegularOne, RegularTwo DEF FinalLogits, Argmax, Sampler

-----------------------------------------------------------------------------
(* Chunks of a prompt.                                                     *)

(* Query, key and value of a chunk,                                        *)
LEMMA ChunkQkvRegular ==
    ASSUME NEW l \in Nat, NEW m \in LayerType
    PROVE  Regular(ChunkQkv(l, m))
<1>1. m.proj \in {"native", "prequant", "plain", "cutlass"}
  BY DEF LayerType, Formats
<1>2. {"normed", "q", "k", "v"} \subseteq Names /\ {"f32", "mxfp4", "cutlass"} \subseteq Forms
  BY DEF Names, AttentionNames, Forms
<1>. QED BY <1>1, <1>2, ScaleIs, KSteady, KernelSteady, QuantiseRegular, PrepareRegular, RegularOne, RegularThree,
            RegularConcat DEF ChunkQkv, From

(* their norms                                                             *)
LEMMA ChunkNormsRegular ==
    ASSUME NEW l \in Nat, NEW m
    PROVE  Regular(ChunkNorms(l, m))
<1>1. {"qn", "kn", "vn", "qns"} \subseteq Names
  BY DEF Names, AttentionNames
<1>. QED BY <1>1, KSteady, RegularOne, RegularTwo, RegularWhen, RegularConcat DEF ChunkNorms, ChunkNormOne

(* and the rotation.                                                       *)
LEMMA RotatedKeySteady ==
    ASSUME NEW l \in Nat, NEW m
    PROVE  Steady(RotatedKey(l, m))
<1>1. "kr" \in Names
  BY DEF Names, AttentionNames
<1>. QED BY <1>1, KSteady, SteadyAlso DEF RotatedKey

(* Sequences of operations of a chunk, written out: of one,                *)
LEMMA WithinOne ==
    ASSUME NEW a, NEW w, NEW c, Fit(a, w, c)
    PROVE  Within(<<a>>, w, c)
<1>. DEFINE s == <<a>>
            S == {a}
<1>1. s \in Seq(S) /\ \A x \in S : Fit(x, w, c)
  OBVIOUS
<1>. HIDE DEF s, S
<1>2. Within(s, w, c)
  BY <1>1 DEF Within
<1>. QED BY <1>2 DEF s

(* of two                                                                  *)
LEMMA WithinTwo ==
    ASSUME NEW a, NEW b, NEW w, NEW c, Fit(a, w, c), Fit(b, w, c)
    PROVE  Within(<<a, b>>, w, c)
<1>. DEFINE s == <<a, b>>
            S == {a, b}
<1>1. s \in Seq(S) /\ \A x \in S : Fit(x, w, c)
  OBVIOUS
<1>. HIDE DEF s, S
<1>2. Within(s, w, c)
  BY <1>1 DEF Within
<1>. QED BY <1>2 DEF s

(* and of six.                                                             *)
LEMMA WithinSix ==
    ASSUME NEW a, NEW b, NEW d, NEW e, NEW f, NEW g, NEW w, NEW c,
           Fit(a, w, c), Fit(b, w, c), Fit(d, w, c), Fit(e, w, c), Fit(f, w, c), Fit(g, w, c)
    PROVE  Within(<<a, b, d, e, f, g>>, w, c)
<1>. DEFINE s == <<a, b, d, e, f, g>>
            S == {a, b, d, e, f, g}
<1>1. s \in Seq(S) /\ \A x \in S : Fit(x, w, c)
  OBVIOUS
<1>. HIDE DEF s, S
<1>2. Within(s, w, c)
  BY <1>1 DEF Within
<1>. QED BY <1>2 DEF s

(* One after another.                                                      *)
LEMMA WithinConcat ==
    ASSUME NEW a, NEW b, NEW w, NEW c, Within(a, w, c), Within(b, w, c)
    PROVE  Within(a \o b, w, c)
<1>1. PICK S : a \in Seq(S) /\ \A x \in S : Fit(x, w, c)
  BY DEF Within
<1>2. PICK T : b \in Seq(T) /\ \A x \in T : Fit(x, w, c)
  BY DEF Within
<1>3. a \in Seq(S \cup T) /\ b \in Seq(S \cup T)
  BY <1>1, <1>2, SeqMonotonic
<1>4. a \o b \in Seq(S \cup T)
  BY <1>3, ConcatProperties
<1>. QED BY <1>1, <1>2, <1>4 DEF Within

(* The rows of a chunk stored: where its positions say,                    *)
LEMMA ChunkStoreFits ==
    ASSUME NEW l \in Nat, NEW m, NEW buf, NEW n \in Nat \ {0}, NEW w \in Nat, n - 1 <= w, buf[1] # "batch"
    PROVE  Fit(ChunkStore(l, m, buf, n), w, 0)
<1>. DEFINE in == {<<"up", "kr">>, <<"v", ValueName(m)>>}
            a == Also(K(l, "", "kv", in), Batch)
            b == [a EXCEPT !.kind = "store", !.out = buf, !.slot = n - 1]
            i == Want("batch", "position", "f32", 0, 0)
<1>1. "kv" \in Names
  BY DEF Names, AttentionNames
<1>2. Steady(a) /\ a.at = 0 /\ a.stream = "compute" /\ a.in = {Want(j[1], j[2], "f32", l, 0) : j \in in} \cup {i}
  <2>. DEFINE k == K(l, "", "kv", in)
  <2>1. Steady(k)
    BY <1>1, KSteady
  <2>2. DOMAIN k = Fields /\ k.at = 0 /\ k.stream = "compute" /\ k.in = {Want(j[1], j[2], "f32", l, 0) : j \in in}
    BY DEF K, Op, Fields
  <2>. HIDE DEF k
  <2>3. a = Also(k, Batch)
    BY DEF k
  <2>. QED BY <2>1, <2>2, <2>3, SteadyAlso DEF Also, Batch, Fields
<1>3. \A j \in in : j[2] # "position"
  BY DEF ValueName
<1>4. i.name = "position" /\ i.buf = <<"batch", 0>> /\ i \in a.in
      /\ \A x \in a.in : "name" \in DOMAIN x /\ "buf" \in DOMAIN x
      /\ \A y \in a.in : y.name = "position" => y.buf = <<"batch", 0>>
  <2>1. i.name = "position" /\ i.buf = <<"batch", 0>> /\ "name" \in DOMAIN i /\ "buf" \in DOMAIN i
    BY DEF Want
  <2>. DEFINE W(j) == Want(j[1], j[2], "f32", l, 0)
  <2>2. ASSUME NEW j \in in PROVE W(j).name # "position" /\ "name" \in DOMAIN W(j) /\ "buf" \in DOMAIN W(j)
    BY <1>3, <2>2 DEF Want
  <2>3. a.in = {W(j) : j \in in} \cup {i}
    BY <1>2
  <2>. HIDE DEF i, in, a, W
  <2>. QED BY <2>1, <2>2, <2>3
<1>. HIDE DEF a, i
<1>5. DOMAIN b = DOMAIN a /\ b.kind = "store" /\ b.name = a.name /\ b.form = a.form /\ b.layer = a.layer
      /\ b.slot = n - 1 /\ b.at = a.at /\ b.host = a.host /\ b.out = buf /\ b.in = a.in /\ b.stream = a.stream
  BY <1>2 DEF Steady, Typed, Fields
<1>6. ChunkStore(l, m, buf, n) = b
  BY DEF ChunkStore, a
<1>7. n - 1 \in Nat /\ 0 < Context
  BY DecodeAssumption
<1>. HIDE DEF b
<1>8. Typed(b)
  BY <1>2, <1>5, <1>7 DEF Steady, Typed, Yielding
<1>9. Fit(b, w, 0)
  <2>1. b.slot <= w /\ b.stream = "compute"
    BY <1>2, <1>5
  <2>2. b.in = a.in
    BY <1>5
  <2>. QED BY <1>4, <1>5, <1>8, <2>1, <2>2 DEF Fit
<1>. QED BY <1>6, <1>9

(* attended to,                                                            *)
LEMMA ChunkAttendSteady ==
    ASSUME NEW l \in Nat, NEW m \in LayerType, NEW query, NEW buf, NEW p \in Nat
    PROVE  Steady(ChunkAttend(l, m, query, buf, p))
<1>. DEFINE in == {<<query, QueryName(m)>>}
            a == Also(K(l, "qkv", "ctx", in), Batch)
            s == IF m.parent = 0 THEN l ELSE m.parent
            b == [a EXCEPT !.kind = "attend", !.id = buf, !.slot = s, !.at = p + 1]
<1>1. "ctx" \in Names
  BY DEF Names, AttentionNames
<1>2. Steady(a) /\ a.host = {} /\ a.in # {} /\ a.name = "ctx" /\ a.form = "f32"
  BY <1>1, KSteady, SteadyAlso DEF K, Op, Also, Batch
<1>3. s \in Nat
  BY DEF LayerType
<1>. HIDE DEF a, s
<1>4. DOMAIN b = DOMAIN a /\ b.kind = "attend" /\ b.name = a.name /\ b.form = a.form /\ b.layer = a.layer
      /\ b.slot = s /\ b.at = p + 1 /\ b.host = a.host /\ b.out = a.out /\ b.in = a.in
  BY <1>2 DEF Steady, Typed, Fields
<1>5. ChunkAttend(l, m, query, buf, p) = b
  BY DEF ChunkAttend, a, s
<1>6. "f32" \in Forms
  BY DEF Forms
<1>. HIDE DEF b
<1>. QED BY <1>1, <1>2, <1>3, <1>4, <1>5, <1>6 DEF Steady, Typed

(* in VRAM                                                                 *)
LEMMA InVramWithin ==
    ASSUME NEW l \in Nat, NEW m \in LayerType, NEW p \in Nat, NEW n \in Nat \ {0}, NEW query, NEW w \in Nat, n - 1 <= w
    PROVE  Within(InVram(l, m, p, n, query), w, 0)
<1>1. Fit(ChunkStore(l, m, <<"kv", l>>, n), w, 0)
  <2>. DEFINE buf == <<"kv", l>>
  <2>1. buf[1] # "batch"
    OBVIOUS
  <2>. HIDE DEF buf
  <2>. QED BY <2>1, ChunkStoreFits DEF buf
<1>2. Fit(ChunkAttend(l, m, query, <<"kv", IF m.parent = 0 THEN l ELSE m.parent>>, p), w, 0)
  BY ChunkAttendSteady, SteadyFits
<1>. QED BY <1>1, <1>2, WithinTwo DEF InVram

(* or in host memory.                                                      *)
LEMMA ThroughHostWithin ==
    ASSUME NEW l \in Nat, NEW m \in LayerType, NEW p \in 0 .. Context - 1, NEW n \in 1 .. p + 1, NEW query, NEW w \in Nat,
           n - 1 <= w
    PROVE  Within(ThroughHost(l, m, p, n, query), w, 0)
<1>. DEFINE staging == <<"staging", 0>>
            from == <<"host", l>>
            Moved(kind, k, q, x, to) == [At(Op(kind, "compute", "", "", "", l, k, {}), q) EXCEPT !.id = x, !.out = to]
            a == Moved("load", 0, p + 1 - n, from, staging)
            e == Moved("save", n - 1, p, staging, from)
            f == OnHost("sync", "", "", l, {})
<1>0. staging[1] # "batch" /\ from[1] # "batch" /\ p \in Nat /\ n - 1 \in Nat /\ n \in Nat \ {0} /\ p + 1 - n \in 0 .. Context - 1
      /\ Context \in Nat /\ p < Context /\ n - 1 <= p
  BY DecodeAssumption
<1>1. Fit(a, w, 0)
  <2>1. DOMAIN a = Fields /\ a.kind = "load" /\ a.layer = l /\ a.slot = 0 /\ a.at = p + 1 - n /\ a.out = staging
    BY DEF At, Op, Fields
  <2>. HIDE DEF a, staging
  <2>. QED BY <1>0, <2>1 DEF Fit, Typed, Yielding
<1>2. Fit(e, w, 0)
  <2>1. DOMAIN e = Fields /\ e.kind = "save" /\ e.layer = l /\ e.slot = n - 1 /\ e.at = p /\ e.out = from
    BY DEF At, Op, Fields
  <2>. HIDE DEF e, from
  <2>. QED BY <1>0, <2>1 DEF Fit, Typed, Yielding
<1>3. Steady(f)
  BY OnHostSteady DEF OfHosts
<1>4. ThroughHost(l, m, p, n, query) =
        <<a, RotatedKey(l, m), ChunkStore(l, m, staging, n), ChunkAttend(l, m, query, staging, p), e, f>>
  BY DEF ThroughHost
<1>. HIDE DEF a, e, f, staging, from
<1>5. Fit(RotatedKey(l, m), w, 0) /\ Fit(ChunkAttend(l, m, query, staging, p), w, 0) /\ Fit(f, w, 0)
  BY <1>0, <1>3, RotatedKeySteady, ChunkAttendSteady, SteadyFits
<1>6. Fit(ChunkStore(l, m, staging, n), w, 0)
  BY <1>0, ChunkStoreFits
<1>. QED BY <1>1, <1>2, <1>4, <1>5, <1>6, WithinSix

(* A refusal.                                                              *)
LEMMA RefusalRegular == Regular(Refusal)
BY OnHostSteady, RegularOne DEF Refusal, OfHosts

(* The attention of a chunk,                                               *)
LEMMA ChunkAttentionWithin ==
    ASSUME NEW l \in Nat, NEW m \in LayerType, NEW p \in 0 .. Context - 1, NEW n \in 1 .. p + 1, NEW w \in Nat, n - 1 <= w
    PROVE  Within(ChunkAttention(l, m, p, n), w, 0)
<1>. DEFINE q == <<Also(K(l, "q_half", QueryName(m), {<<"gate", IF m.qnorm THEN "qns" ELSE "q">>}), Batch)>>
            cache == CASE m.hostKv /\ m.parent # 0 -> Refusal
                       [] m.hostKv /\ m.parent = 0 -> ThroughHost(l, m, p, n, "q_half")
                       [] ~m.hostKv                -> <<RotatedKey(l, m)>> \o InVram(l, m, p, n, "q_half")
            o == Matvec(l, 0, m.oproj, "qkv", "ctx", "quant_hidden", "mxfp4_hidden", "input_normed", "o")
            norm == When(m.post, <<K(l, "qkv", "on", {<<"input_normed", "o">>})>>)
            sum == <<K(l, "hidden", "residual", {<<"hidden", "x">>, IF m.post THEN <<"qkv", "on">> ELSE <<"input_normed", "o">>})>>
<1>0. {"ctx", "o", "on", "residual", "qr", "qs"} \subseteq Names /\ p \in Nat /\ n \in Nat \ {0}
  BY DecodeAssumption DEF Names, AttentionNames
<1>1. Within(cache, w, 0)
  <2>1. Within(<<RotatedKey(l, m)>> \o InVram(l, m, p, n, "q_half"), w, 0)
    BY <1>0, RotatedKeySteady, RegularOne, RegularIsWithin, InVramWithin, WithinConcat
  <2>2. m.hostKv \in BOOLEAN
    BY DEF LayerType
  <2>. QED BY <2>1, <2>2, RefusalRegular, RegularIsWithin, ThroughHostWithin
<1>2. Regular(q) /\ Regular(norm) /\ Regular(sum)
  <2>1. QueryName(m) \in Names
    BY <1>0 DEF QueryName
  <2>. QED BY <1>0, <2>1, KSteady, SteadyAlso, RegularOne, RegularWhen
<1>3. Regular(o)
  <2>1. m.oproj \in Formats
    BY DEF LayerType
  <2>. QED BY <1>0, <2>1, MatvecRegular
<1>4. ChunkAttention(l, m, p, n) = ChunkQkv(l, m) \o ChunkNorms(l, m) \o q \o cache \o o \o norm \o sum
  BY DEF ChunkAttention
<1>. HIDE DEF q, cache, o, norm, sum
<1>. QED BY <1>1, <1>2, <1>3, <1>4, ChunkQkvRegular, ChunkNormsRegular, RegularIsWithin, WithinConcat

(* the one with a gate                                                     *)
LEMMA ChunkGatedAttentionWithin ==
    ASSUME NEW l \in Nat, NEW m \in LayerType, NEW p \in 0 .. Context - 1, NEW n \in 1 .. p + 1, NEW w \in Nat, n - 1 <= w
    PROVE  Within(ChunkGatedAttention(l, m, p, n), w, 0)
<1>. DEFINE Linear(fmt, x, xn, out, nn) == Matvec(l, 0, Unfused(fmt), x, xn, "quant_hidden", "mxfp4_hidden", out, nn)
            x == "input_normed"
            a == <<K(l, x, "normed", {<<"hidden", "x">>})>>
                 \o Linear(m.proj, x, "normed", "q_full", "qg")
                 \o <<K(l, "gate", "q", {<<"q_full", "qg">>}), K(l, "attn_gate", "gate", {<<"q_full", "qg">>})>>
                 \o Linear(m.proj, x, "normed", "up", "k") \o Linear(m.proj, x, "normed", "v", "v")
                 \o When(m.qnorm, ChunkNormOne(l, "gate", "q", "qn") \o ChunkNormOne(l, "up", "k", "kn"))
                 \o <<Also(K(l, "gate", "qr", {<<"gate", IF m.qnorm THEN "qn" ELSE "q">>}), Batch)>>
                 \o When(m.parent = 0, <<RotatedKey(l, m)>>)
            g == <<K(l, "qkv", "gctx", {<<"qkv", "ctx">>, <<"attn_gate", "gate">>})>>
            o == Linear(m.oproj, "qkv", "gctx", x, "o")
            s == <<K(l, "hidden", "residual", {<<"hidden", "x">>, <<x, IF m.post THEN "on" ELSE "o">>})>>
<1>0. {"normed", "qg", "q", "gate", "k", "v", "qn", "kn", "qr", "gctx", "o", "residual"} \subseteq Names
      /\ p \in Nat /\ n \in Nat \ {0}
  BY DecodeAssumption DEF Names, AttentionNames
<1>1. Unfused(m.proj) \in Formats /\ Unfused(m.oproj) \in Formats
  BY DEF LayerType, Formats, Unfused
<1>2. Regular(a)
  BY <1>0, <1>1, MatvecRegular, RotatedKeySteady, KSteady, SteadyAlso, RegularOne, RegularTwo, RegularWhen, RegularConcat
     DEF ChunkNormOne
<1>3. Regular(g) /\ Regular(o) /\ Regular(s)
  BY <1>0, <1>1, MatvecRegular, KSteady, RegularOne
<1>4. ChunkGatedAttention(l, m, p, n) = a \o InVram(l, m, p, n, "gate") \o g \o o \o s
  BY DEF ChunkGatedAttention
<1>. HIDE DEF a, g, o, s
<1>5. Within(InVram(l, m, p, n, "gate"), w, 0)
  BY <1>0, InVramWithin
<1>. QED BY <1>2, <1>3, <1>4, <1>5, RegularIsWithin, WithinConcat

(* and the delta net.                                                      *)
LEMMA ChunkDeltaNetRegular ==
    ASSUME NEW l \in Nat, NEW m \in LayerType
    PROVE  Regular(ChunkDeltaNet(l, m))
<1>1. "normed" \in Names
  BY DEF Names, AttentionNames
<1>. QED BY <1>1, GatedDeltaNetRegular, RefusalRegular, KSteady, RegularOne, RegularConcat DEF ChunkDeltaNet

(* The down projection of a chunk                                          *)
LEMMA ChunkDownRegular ==
    ASSUME NEW l \in Nat, NEW m \in LayerType, m.down # "plain"
    PROVE  Regular(ChunkDown(l, m))
<1>1. m.down \in {"cutlass", "native", "prequant"} /\ "prequant" \in Formats
  BY DEF LayerType, Formats
<1>2. {"act", "mlp"} \subseteq Names /\ {"f32", "cutlass", "mxfp4"} \subseteq Forms
  BY DEF Names, MlpNames, Forms
<1>. QED BY <1>1, <1>2, MatvecRegular, KernelSteady, RegularOne, RegularTwo, RegularConcat DEF ChunkDown, From

(* and the sum with it:                                                    *)
LEMMA AddMlpRegular ==
    ASSUME NEW l \in Nat, NEW m, NEW b, NEW normed, normed # "batch"
    PROVE  Regular(AddMlp(l, m, b, normed))
<1>1. {"mlpn", "y"} \subseteq Names
  BY DEF Names, MlpNames
<1>. QED BY <1>1, KSteady, RegularOne, RegularWhen, RegularConcat DEF AddMlp

(* the dense MLP of a chunk.                                               *)
LEMMA ChunkDenseMlpRegular ==
    ASSUME NEW l \in Nat, NEW m \in LayerType
    PROVE  Regular(ChunkDenseMlp(l, m))
<1>1. {"normed2", "act", "mlp"} \subseteq Names
  BY DEF Names, MlpNames
<1>. QED BY <1>1, GateUpRegular, ChunkDownRegular, AddMlpRegular, RefusalRegular, PleContributionRegular, OutputRegular,
            KSteady, RegularOne, RegularWhen, RegularConcat DEF ChunkDenseMlp, IsNvfp4

(* The router of a chunk.                                                  *)
LEMMA ChunkRouterRegular ==
    ASSUME NEW l \in Nat, NEW m
    PROVE  Regular(ChunkRouter(l, m))
<1>1. {"rin", "rl", "topk", "rl of hidden", "counts", "lists"} \subseteq Names
  BY DEF Names, ExpertNames, ChunkNames
<1>2. Steady(OnHost("download", "counts", "counts", l, {Want("expert_counts", "counts", "f32", l, 0)}))
  BY OnHostSteady DEF OfHosts
<1>. QED BY <1>1, <1>2, KSteady, RegularOne, RegularTwo, RegularFour, RegularConcat DEF ChunkRouter

(* The weights of the experts copied,                                      *)
LEMMA StageExpertsRegular ==
    ASSUME NEW l \in Nat, NEW p \in 0 .. Context - 1, NEW which \in {"wgate", "wup", "wdown"}
    PROVE  Regular(StageExperts(l, p, which))
<1>1. which \in Names
  BY DEF Names, ChunkNames
<1>2. Bulk[which] # "batch"
  BY DEF Bulk
<1>3. Steady(OfCounts(Op("upload", "transfer", Bulk[which], which, "f32", l, 0, {}), p))
  BY <1>1, <1>2, UploadSteady DEF OfCounts
<1>. QED BY <1>3, EventSteady, RegularTwo DEF StageExperts

(* their grouped products                                                  *)
LEMMA GroupedExpertsRegular ==
    ASSUME NEW l \in Nat, NEW m, NEW p \in 0 .. Context - 1
    PROVE  Regular(GroupedExperts(l, m, p))
<1>1. {"offsets", "eoffsets", "pin", "eg", "eu", "eact", "eo", "acc"} \subseteq Names /\ TopK \in Nat /\ "f32" \in Forms
  BY DEF Names, ExpertNames, ChunkNames, TopK, Forms
<1>2. Steady(OfCounts(Op("put", "compute", "token_offsets", "offsets", "f32", l, 0, {}), p))
  BY <1>1, UploadSteady DEF OfCounts
<1>3. Regular(StageExperts(l, p, "wgate")) /\ Regular(StageExperts(l, p, "wup")) /\ Regular(StageExperts(l, p, "wdown"))
  BY StageExpertsRegular
<1>4. \A which, x, xn, out, n : n \in Names /\ out # "batch" => Regular(Grouped(l, p, which, x, xn, out, n))
  BY EventSteady, KSteady, RegularTwo DEF Grouped
<1>. QED BY <1>1, <1>2, <1>3, <1>4, KSteady, KernelSteady, SteadyAlso, RegularOne, RegularThree, RegularConcat
         DEF GroupedExperts, Accumulate

(* and one expert on the rows gathered for it.                             *)
LEMMA GatheredExpertRegular ==
    ASSUME NEW l \in Nat, NEW m, NEW k \in Nat, NEW p \in 0 .. Context - 1
    PROVE  Regular(GatheredExpert(l, m, k, p))
<1>. DEFINE fmt == IF m.gateup = "native" THEN "native" ELSE "prequant"
            Gather == Op("kernel", "compute", "gather_input", "gin", "f32", l, k,
                         Lists(l) \cup {Want("expert_input", "ein", "f32", l, 0)})
<1>0. {"gin", "eg", "eu", "eact", "eo", "acc"} \subseteq Names /\ "f32" \in Forms /\ fmt \in Formats
  BY DEF Names, ExpertNames, ChunkNames, Forms, Formats
<1>1. Steady(OfCounts(Gather, p))
  BY <1>0, KernelSteady, SteadyGivenAt DEF OfCounts
<1>. HIDE DEF Gather, fmt
<1>. QED BY <1>0, <1>1, MatvecRegular, KSSteady, KernelSteady, RegularOne, RegularConcat
         DEF GatheredExpert, Accumulate, Gather, fmt

(* The sum of the experts and the residual.                                *)
LEMMA ChunkCombineRegular ==
    ASSUME NEW l \in Nat, NEW m
    PROVE  Regular(ChunkCombine(l, m))
<1>1. {"rn", "sum", "mn", "y"} \subseteq Names /\ "f32" \in Forms
  BY DEF Names, MlpNames, ExpertNames, Forms
<1>. QED BY <1>1, KSteady, KernelSteady, SteadyAlso, RegularTwo, RegularThree, RegularWhen, RegularConcat DEF ChunkCombine

(* The mixture of experts of a chunk.                                      *)
LEMMA ChunkMoeRegular ==
    ASSUME NEW l \in Nat, NEW m \in LayerType, NEW p \in 0 .. Context - 1
    PROVE  Regular(ChunkMoe(l, m, p))
<1>. DEFINE mm == [m EXCEPT !.gateup = Unfused(@)]
            b == IF ~m.shared THEN Refusal ELSE SharedExpert(l, mm)
            f == IF m.hostWeights THEN GroupedExperts(l, m, p)
                 ELSE GatheredExpert(l, m, 1, p) \o GatheredExpert(l, m, 2, p)
<1>0. {"normed2", "sn"} \subseteq Names
  BY DEF Names, MlpNames, ExpertNames
<1>1. mm.gateup \in Formats
  BY DEF LayerType, Formats, Unfused
<1>2. Regular(b)
  <2>. HIDE DEF mm
  <2>. QED BY <1>1, RefusalRegular, SharedExpertRegular
<1>3. Regular(f)
  BY GroupedExpertsRegular, GatheredExpertRegular, RegularConcat
<1>4. ChunkMoe(l, m, p) =
        <<K(l, "post_normed", "normed2", {<<"residual", "residual">>})>> \o b
        \o <<K(l, "stream1", "sn", {<<"moe_acc", "shared">>})>> \o ExpertInput(l, m, "expert_input") \o ChunkRouter(l, m)
        \o <<Zero("routed_acc")>> \o f \o ChunkCombine(l, m) \o Output(l, "hidden", "y")
  BY DEF ChunkMoe
<1>. HIDE DEF b, f
<1>. QED BY <1>0, <1>2, <1>3, <1>4, KSteady, ZeroSteady, ExpertInputRegular, ChunkRouterRegular, ChunkCombineRegular,
            OutputRegular, RegularOne, RegularConcat

(* A layer of a chunk.                                                     *)
LEMMA ChunkLayerWithin ==
    ASSUME NEW ms \in Seq(LayerType), NEW l \in 1 .. Len(ms), NEW p \in 0 .. Context - 1, NEW n \in 1 .. p + 1,
           NEW w \in Nat, n - 1 <= w
    PROVE  Within(ChunkLayer(ms, l, p, n), w, 0)
<1>. DEFINE m == ms[l]
            mixer == CASE m.mixer = "gdn" -> ChunkDeltaNet(l, m)
                       [] m.mixer # "gdn" /\ m.gated  -> ChunkGatedAttention(l, m, p, n)
                       [] m.mixer # "gdn" /\ ~m.gated -> ChunkAttention(l, m, p, n)
            mlp == IF m.moe = "none" THEN ChunkDenseMlp(l, m) ELSE ChunkMoe(l, m, p)
<1>1. m \in LayerType /\ l \in Nat
  OBVIOUS
<1>2. ChunkLayer(ms, l, p, n) = mixer \o mlp
  BY DEF ChunkLayer
<1>. HIDE DEF m
<1>3. Within(mixer, w, 0)
  <2>1. m.gated \in BOOLEAN
    BY <1>1 DEF LayerType
  <2>. QED BY <1>1, <2>1, ChunkDeltaNetRegular, RegularIsWithin, ChunkGatedAttentionWithin, ChunkAttentionWithin
<1>4. Within(mlp, w, 0)
  BY <1>1, ChunkDenseMlpRegular, ChunkMoeRegular, RegularIsWithin
<1>. HIDE DEF mixer, mlp
<1>. QED BY <1>2, <1>3, <1>4, WithinConcat

(* Many sequences, one after the other.                                    *)
LEMMA WithinFlatten ==
    ASSUME NEW n \in Nat, NEW f, NEW w, NEW c, DOMAIN f = 1 .. n, f = [i \in 1 .. n |-> f[i]],
           \A i \in 1 .. n : Within(f[i], w, c)
    PROVE  Within(FlattenSeq(f), w, c)
<1>. DEFINE Of(i) == CHOOSE S : f[i] \in Seq(S) /\ \A x \in S : Fit(x, w, c)
            S == UNION {Of(i) : i \in 1 .. n}
<1>1. ASSUME NEW i \in 1 .. n PROVE f[i] \in Seq(Of(i)) /\ \A x \in Of(i) : Fit(x, w, c)
  BY <1>1 DEF Within
<1>. HIDE DEF Of
<1>2. ASSUME NEW i \in 1 .. n PROVE f[i] \in Seq(S)
  <2>1. Of(i) \subseteq S
    OBVIOUS
  <2>. HIDE DEF S
  <2>. QED BY <1>1, <2>1, SeqMonotonic
<1>3. \A x \in S : Fit(x, w, c)
  BY <1>1
<1>. HIDE DEF S
<1>4. f \in Seq(Seq(S))
  <2>1. f \in [1 .. n -> Seq(S)]
    BY <1>2
  <2>. QED BY <2>1
<1>5. FlattenSeq(f) \in Seq(S)
  BY <1>4, FlattenIs
<1>. QED BY <1>3, <1>5 DEF Within

(* Where the scratch of a chunk is, only the positions of the chunk become *)
(* the positions of the chunk.                                             *)
LEMMA OfChunkIs ==
    ASSUME NEW b
    PROVE  /\ b = <<"batch", 0>> => OfChunk(b) = <<"batch", -1>>
           /\ b[1] # "batch" => OfChunk(b)[1] # "batch"
<1>1. ASSUME b = <<"batch", 0>> PROVE OfChunk(b) = <<"batch", -1>>
  BY <1>1 DEF OfChunk, Shares
<1>2. ASSUME b[1] # "batch" PROVE OfChunk(b)[1] # "batch"
  <2>1. CASE b[1] \in DOMAIN Shares
    <3>1. Shares[b[1]] # "batch"
      BY <2>1 DEF Shares
    <3>. QED BY <1>2, <3>1 DEF OfChunk
  <2>2. CASE b[1] \notin DOMAIN Shares
    BY <1>2, <2>2 DEF OfChunk
  <2>. QED BY <2>1, <2>2
<1>. QED BY <1>1, <1>2

(* In the scratch of a chunk.                                              *)
LEMMA OnChunkFits ==
    ASSUME NEW ops, NEW n, NEW w, NEW i \in DOMAIN ops, Fit(ops[i], w, 0)
    PROVE  Fit(OnChunk(ops, n)[i], w, -1)
<1>. DEFINE a == ops[i]
            to == IF a.stream = "host" THEN a.out ELSE OfChunk(a.out)
            Moved(x) == [x EXCEPT !.buf = OfChunk(@), !.back = @ * n]
            in == {Moved(x) : x \in a.in}
            b == OnChunk(ops, n)[i]
<1>1. DOMAIN b = DOMAIN a /\ b.kind = a.kind /\ b.stream = a.stream /\ b.name = a.name /\ b.form = a.form
      /\ b.layer = a.layer /\ b.slot = a.slot /\ b.at = a.at /\ b.host = a.host /\ b.out = to /\ b.in = in
  BY DEF OnChunk, Fit, Typed, Fields
<1>2. Fit(a, w, 0)
  OBVIOUS
<1>. HIDE DEF a, b
<1>3. Typed(b)
  <2>1. a.in # {} => in # {}
    OBVIOUS
  <2>. HIDE DEF in
  <2>. QED BY <1>1, <1>2, <2>1 DEF Fit, Typed
<1>4. b.kind = "store" /\ b.slot # 0 =>
          /\ b.slot <= w /\ b.stream = "compute"
          /\ \E x \in b.in : x.name = "position"
          /\ \A x \in b.in : "name" \in DOMAIN x /\ "buf" \in DOMAIN x
          /\ \A x \in b.in : x.name = "position" => x.buf = <<"batch", -1>>
  <2>. SUFFICES ASSUME b.kind = "store", b.slot # 0
                PROVE  /\ b.slot <= w /\ b.stream = "compute"
                       /\ \E x \in b.in : x.name = "position"
                       /\ \A x \in b.in : "name" \in DOMAIN x /\ "buf" \in DOMAIN x
                       /\ \A x \in b.in : x.name = "position" => x.buf = <<"batch", -1>>
    OBVIOUS
  <2>1. /\ a.slot <= w /\ a.stream = "compute"
        /\ \E x \in a.in : x.name = "position"
        /\ \A x \in a.in : "name" \in DOMAIN x /\ "buf" \in DOMAIN x
        /\ \A x \in a.in : x.name = "position" => x.buf = <<"batch", 0>>
    BY <1>1, <1>2 DEF Fit
  <2>2. ASSUME NEW x \in a.in
        PROVE  /\ "name" \in DOMAIN Moved(x) /\ "buf" \in DOMAIN Moved(x) /\ Moved(x).name = x.name
               /\ Moved(x).buf = OfChunk(x.buf)
    BY <2>1, <2>2
  <2>3. \A x \in a.in : x.name = "position" => Moved(x).buf = <<"batch", -1>>
    BY <2>1, <2>2, OfChunkIs
  <2>4. b.in = {Moved(x) : x \in a.in} /\ b.slot = a.slot /\ b.stream = a.stream
    BY <1>1
  <2>. HIDE DEF Moved
  <2>. QED BY <2>1, <2>2, <2>3, <2>4
<1>5. b.kind = "save" => b.slot <= b.at
  BY <1>1, <1>2 DEF Fit
<1>6. b.out[1] = "batch" =>
          /\ b.out = <<"batch", -1>> /\ b.kind = "put" /\ b.stream = "compute" /\ b.name = "position"
          /\ b.in = {} /\ b.host = {} /\ b.at >= w
  <2>. SUFFICES ASSUME b.out[1] = "batch"
                PROVE  /\ b.out = <<"batch", -1>> /\ b.kind = "put" /\ b.stream = "compute" /\ b.name = "position"
                       /\ b.in = {} /\ b.host = {} /\ b.at >= w
    OBVIOUS
  <2>1. a.out[1] = "batch"
    BY <1>1, OfChunkIs
  <2>2. /\ a.out = <<"batch", 0>> /\ a.kind = "put" /\ a.stream = "compute" /\ a.name = "position"
        /\ a.in = {} /\ a.host = {} /\ a.at >= w
    BY <1>2, <2>1 DEF Fit
  <2>3. to = <<"batch", -1>>
    BY <2>2, OfChunkIs
  <2>. QED BY <1>1, <2>2, <2>3
<1>7. Fit(b, w, -1)
  BY <1>3, <1>4, <1>5, <1>6 DEF Fit
<1>. QED BY <1>7 DEF b

(* A sequence of a chunk changed operation by operation.                   *)
LEMMA WithinAlike ==
    ASSUME NEW a, NEW b, NEW w, NEW c, NEW d, Within(a, w, c), b = [i \in DOMAIN a |-> b[i]],
           \A i \in DOMAIN a : Fit(a[i], w, c) => Fit(b[i], w, d)
    PROVE  Within(b, w, d)
<1>0. PICK S : a \in Seq(S) /\ \A x \in S : Fit(x, w, c)
  BY DEF Within
<1>1. Len(a) \in Nat /\ DOMAIN a = 1 .. Len(a)
  BY <1>0
<1>. DEFINE T == {b[i] : i \in 1 .. Len(a)}
<1>2. b \in [1 .. Len(a) -> T]
  BY <1>1
<1>3. ASSUME NEW i \in DOMAIN a PROVE Fit(b[i], w, d)
  <2>1. a[i] \in S
    BY <1>0
  <2>. QED BY <1>0, <2>1
<1>4. \A x \in T : Fit(x, w, d)
  BY <1>1, <1>3
<1>. HIDE DEF T
<1>5. b \in Seq(T)
  BY <1>1, <1>2
<1>. QED BY <1>4, <1>5 DEF Within

(* The first operation of two sequences.                                   *)
LEMMA WithinHead ==
    ASSUME NEW y, NEW z, NEW w, NEW c, Within(y, w, c), Within(z, w, c), 1 <= Len(y)
    PROVE  /\ 1 <= Len(y \o z) /\ Len(y \o z) \in Nat
           /\ (y \o z)[1] = y[1]
           /\ DOMAIN (y \o z) = 1 .. Len(y \o z)
<1>1. PICK S : y \in Seq(S)
  BY DEF Within
<1>2. PICK T : z \in Seq(T)
  BY DEF Within
<1>. QED BY <1>1, <1>2

(* Put in the scratch of the chunk.                                        *)
LEMMA OnChunkWithin ==
    ASSUME NEW ops, NEW n, NEW w, Within(ops, w, 0)
    PROVE  Within(OnChunk(ops, n), w, -1)
<1>. DEFINE b == OnChunk(ops, n)
            d == -1
<1>1. b = [i \in DOMAIN ops |-> b[i]]
  BY DEF OnChunk
<1>2. \A i \in DOMAIN ops : Fit(ops[i], w, 0) => Fit(b[i], w, d)
  BY OnChunkFits
<1>. HIDE DEF b, d
<1>3. Within(b, w, d)
  BY <1>1, <1>2, WithinAlike
<1>. QED BY <1>3 DEF b, d

(* The positions of a chunk written: first of all, for the rows that the   *)
(* chunk ends with.                                                        *)
LEMMA BatchFits ==
    ASSUME NEW p \in 0 .. Context - 1, NEW w \in Nat, w <= p
    PROVE  Fit(Put("batch", "position", "f32", 0, p), w, 0)
<1>. DEFINE x == Put("batch", "position", "f32", 0, p)
<1>1. DOMAIN x = Fields /\ x.kind = "put" /\ x.stream = "compute" /\ x.out = <<"batch", 0>> /\ x.name = "position"
      /\ x.form = "f32" /\ x.layer = 0 /\ x.slot = 0 /\ x.in = {} /\ x.host = {} /\ x.at = p
  BY DEF Put, At, Op, Fields
<1>2. "position" \in Names /\ "f32" \in Forms /\ p \in Nat /\ p < Context /\ p >= w
  BY DecodeAssumption DEF Names, AttentionNames, Forms
<1>. HIDE DEF x
<1>3. Fit(x, w, 0)
  BY <1>1, <1>2 DEF Fit, Typed
<1>. QED BY <1>3 DEF x

(* A chunk, of n rows that end at p: where they are stored is known from   *)
(* its first operation on.                                                 *)
LEMMA ChunkWithin ==
    ASSUME NEW ms \in Seq(LayerType), NEW h \in {"bufA", "bufB"}, NEW p \in 0 .. Context - 1, NEW n \in 1 .. p + 1,
           NEW w \in Nat, n - 1 <= w, w <= p
    PROVE  /\ Within(Chunk(ms, h, p, n), w, -1)
           /\ Chunk(ms, h, p, n) # <<>>
           /\ Head(Chunk(ms, h, p, n)).out = <<"batch", -1>>
<1>. DEFINE x == Put("batch", "position", "f32", 0, p)
            a == <<x, Put("hidden", "x", "f32", 1, p)>>
            b == When(\E l \in DOMAIN ms : ms[l].ple,
                      PerLayerInputs("hidden", <<Put("ple_bf16_in", "rowbf16", "f32", 0, p)>>))
            L(l) == ChunkLayer(ms, l, p, n)
            f == [l \in 1 .. Len(ms) |-> L(l)]
            c == FlattenSeq(f)
            d == <<Op("kernel", "compute", h, "x", "f32", Len(ms) + 1, 0,
                      {[Want("hidden", "x", "f32", Len(ms) + 1, 0) EXCEPT !.buf = OfChunk(@)]})>>
            v == -1
<1>0. {"x", "rowbf16"} \subseteq Names /\ "f32" \in Forms /\ Len(ms) \in Nat /\ h # "batch"
  BY DEF Names, AttentionNames, PleNames, Forms
<1>1. Within(a, w, 0)
  <2>1. Fit(Put("hidden", "x", "f32", 1, p), w, 0)
    BY <1>0, PutSteady, SteadyFits
  <2>. HIDE DEF x
  <2>. QED BY <2>1, BatchFits, WithinTwo DEF x
<1>2. Within(b, w, 0)
  BY <1>0, PutSteady, PerLayerInputsRegular, RegularOne, RegularWhen, RegularIsWithin
<1>3. Within(d, w, v)
  <2>1. Regular(d)
    BY <1>0, KernelSteady, RegularOne
  <2>. HIDE DEF d, v
  <2>. QED BY <2>1, RegularIsWithin
<1>4. Within(c, w, 0)
  <2>. DEFINE N == Len(ms)
  <2>1. \A l \in 1 .. N : Within(L(l), w, 0)
    BY ChunkLayerWithin
  <2>2. N \in Nat
    OBVIOUS
  <2>3. DOMAIN f = 1 .. N /\ f = [i \in 1 .. N |-> f[i]] /\ \A i \in 1 .. N : Within(f[i], w, 0)
    <3>. HIDE DEF L, N
    <3>. QED BY <2>1 DEF N
  <2>. HIDE DEF f, N
  <2>. QED BY <2>2, <2>3, WithinFlatten
<1>5. Chunk(ms, h, p, n) = OnChunk(a \o b \o c, n) \o d
  <2>1. DOMAIN ms = 1 .. Len(ms)
    OBVIOUS
  <2>. QED BY <2>1 DEF Chunk
<1>6. a[1] = x /\ Len(a) = 2 /\ x.stream # "host" /\ x.out = <<"batch", 0>> /\ "out" \in DOMAIN x
  BY DEF Put, At, Op
<1>. HIDE DEF a, b, c, d, f, v, x
<1>. DEFINE e == (a \o b) \o c
            o == OnChunk(e, n)
            all == o \o d
<1>7. Within(e, w, 0)
  BY <1>1, <1>2, <1>4, WithinConcat
<1>8. Within(o, w, v)
  <2>. HIDE DEF e
  <2>. QED BY <1>7, OnChunkWithin DEF v
<1>9. Within(all, w, v)
  <2>. HIDE DEF o
  <2>. QED BY <1>3, <1>8, WithinConcat
<1>10. e[1] = x /\ Len(e) \in Nat /\ Len(e) >= 1 /\ DOMAIN e = 1 .. Len(e)
  <2>. DEFINE ab == a \o b
  <2>2. Within(ab, w, 0)
    BY <1>1, <1>2, WithinConcat
  <2>0. 1 <= Len(a)
    BY <1>6
  <2>1. 1 <= Len(ab) /\ ab[1] = a[1]
    BY <1>1, <1>2, <2>0, WithinHead
  <2>. HIDE DEF ab
  <2>3. 1 <= Len(ab \o c) /\ Len(ab \o c) \in Nat /\ (ab \o c)[1] = ab[1] /\ DOMAIN (ab \o c) = 1 .. Len(ab \o c)
    BY <1>4, <2>1, <2>2, WithinHead
  <2>. QED BY <1>6, <2>1, <2>3 DEF ab
<1>11. o[1].out = <<"batch", v>> /\ Len(o) >= 1
  <2>. HIDE DEF e
  <2>1. 1 \in DOMAIN e
    BY <1>10
  <2>2. o[1] = [e[1] EXCEPT !.out = IF e[1].stream = "host" THEN @ ELSE OfChunk(@),
                            !.in  = {[u EXCEPT !.buf = OfChunk(@), !.back = @ * n] : u \in @}]
    BY <2>1 DEF OnChunk
  <2>3. OfChunk(<<"batch", 0>>) = <<"batch", v>>
    BY OfChunkIs DEF v
  <2>4. o[1].out = OfChunk(x.out)
    BY <1>6, <1>10, <2>2
  <2>5. DOMAIN o = 1 .. Len(e)
    BY <1>10 DEF OnChunk
  <2>6. \E S : o \in Seq(S)
    BY <1>8 DEF Within
  <2>. HIDE DEF o
  <2>7. Len(o) = Len(e)
    BY <1>10, <2>5, <2>6
  <2>. QED BY <1>6, <1>10, <2>3, <2>4, <2>7
<1>12. all # <<>> /\ Head(all) = o[1]
  <2>1. PICK S : o \in Seq(S)
    BY <1>8 DEF Within
  <2>2. PICK T : d \in Seq(T)
    BY <1>3 DEF Within
  <2>. HIDE DEF o
  <2>3. all \in Seq(S \cup T) /\ Len(all) = Len(o) + Len(d) /\ all[1] = o[1] /\ Len(o) \in Nat /\ Len(d) \in Nat
    BY <1>11, <2>1, <2>2
  <2>. HIDE DEF all
  <2>. QED BY <1>11, <2>3
<1>13. Chunk(ms, h, p, n) = all
  BY <1>5
<1>. HIDE DEF all, o, e
<1>14. Within(Chunk(ms, h, p, n), w, v) /\ Chunk(ms, h, p, n) # <<>> /\ Head(Chunk(ms, h, p, n)).out = <<"batch", v>>
  BY <1>9, <1>11, <1>12, <1>13
<1>. QED BY <1>14 DEF v

-----------------------------------------------------------------------------
(* What the host does with them.                                           *)

(* The operations of a chunk, one by one.                                  *)
LEMMA WithinIs ==
    ASSUME NEW ops, NEW w, NEW c, Within(ops, w, c)
    PROVE  /\ Len(ops) \in Nat /\ DOMAIN ops = 1 .. Len(ops)
           /\ \A i \in DOMAIN ops : Fit(ops[i], w, c)
           /\ ops # <<>> => Fit(Head(ops), w, c) /\ Within(Tail(ops), w, c) /\ Head(ops) = ops[1] /\ 1 \in DOMAIN ops
<1>1. PICK S : ops \in Seq(S) /\ \A x \in S : Fit(x, w, c)
  BY DEF Within
<1>2. Len(ops) \in Nat /\ DOMAIN ops = 1 .. Len(ops)
  BY <1>1
<1>3. ASSUME NEW i \in DOMAIN ops PROVE Fit(ops[i], w, c)
  BY <1>1, <1>3
<1>4. ASSUME ops # <<>> PROVE Fit(Head(ops), w, c) /\ Within(Tail(ops), w, c) /\ Head(ops) = ops[1] /\ 1 \in DOMAIN ops
  <2>1. Head(ops) \in S /\ Tail(ops) \in Seq(S)
    BY <1>1, <1>4
  <2>2. Head(ops) = ops[1] /\ 1 \in DOMAIN ops
    BY <1>1, <1>4
  <2>. QED BY <1>1, <2>1, <2>2 DEF Within
<1>. QED BY <1>2, <1>3, <1>4

(* Nothing is left, or has been recorded.                                  *)
LEMMA WithinNone ==
    ASSUME NEW w, NEW c
    PROVE  Within(<<>>, w, c)
<1>. DEFINE s == <<>>
<1>1. Regular(s)
  BY RegularNone
<1>. HIDE DEF s
<1>2. Within(s, w, c)
  BY <1>1, RegularIsWithin
<1>. QED BY <1>2 DEF s

(* A part of a chunk.                                                      *)
LEMMA WithinParts ==
    ASSUME NEW a, NEW b, NEW w, NEW c, Program(a), Program(b), Within(a \o b, w, c)
    PROVE  Within(a, w, c) /\ Within(b, w, c)
<1>. DEFINE o == a \o b
<1>1. /\ Program(o)
      /\ Len(a) \in Nat /\ Len(b) \in Nat /\ Len(o) = Len(a) + Len(b)
      /\ \A i \in 1 .. Len(a) : o[i] = a[i]
      /\ \A i \in 1 .. Len(b) : o[Len(a) + i] = b[i]
  BY ProgramConcat
<1>2. PICK S : o \in Seq(S) /\ \A x \in S : Fit(x, w, c)
  BY DEF Within
<1>3. DOMAIN o = 1 .. Len(a) + Len(b)
  <2>. HIDE DEF o
  <2>. QED BY <1>1, <1>2
<1>. HIDE DEF o
<1>4. ASSUME NEW i \in 1 .. Len(a) PROVE a[i] \in S
  <2>1. i \in DOMAIN o
    BY <1>1, <1>3
  <2>. QED BY <1>1, <1>2, <2>1
<1>5. ASSUME NEW i \in 1 .. Len(b) PROVE b[i] \in S
  <2>1. Len(a) + i \in DOMAIN o
    BY <1>1, <1>3
  <2>. QED BY <1>1, <1>2, <2>1
<1>6. a \in Seq(S)
  <2>1. PICK T : a \in Seq(T)
    BY DEF Program
  <2>. QED BY <1>4, <2>1
<1>7. b \in Seq(S)
  <2>1. PICK T : b \in Seq(T)
    BY DEF Program
  <2>. QED BY <1>5, <2>1
<1>. QED BY <1>2, <1>6, <1>7 DEF Within

(* The operations of one stream.                                           *)
LEMMA WithinStream ==
    ASSUME NEW ops, NEW s, NEW w, NEW c, Within(ops, w, c)
    PROVE  Within(OfStream(ops, s), w, c)
<1>1. PICK S : ops \in Seq(S) /\ \A x \in S : Fit(x, w, c)
  BY DEF Within
<1>2. OfStream(ops, s) \in Seq(S)
  BY <1>1, StreamIs
<1>. QED BY <1>1, <1>2 DEF Within

(* An operation with the arguments that the host fixes.                    *)
LEMMA ResolveFits ==
    ASSUME NEW op, NEW w, NEW c, Fit(op, w, c)
    PROVE  Fit(Resolve(op), w, c) /\ Resolve(op).out = op.out /\ Resolve(op).stream = op.stream
<1>. DEFINE j == [op EXCEPT !.name = "junk"]
<1>1. DOMAIN j = DOMAIN op /\ j.kind = op.kind /\ j.stream = op.stream /\ j.form = op.form /\ j.layer = op.layer
      /\ j.slot = op.slot /\ j.at = op.at /\ j.host = op.host /\ j.out = op.out /\ j.in = op.in /\ j.name = "junk"
  BY DEF Fit, Typed, Fields
<1>2. Resolve(op) \in {op, j}
  BY Zenon DEF Resolve
<1>3. op.host = {} => Resolve(op) = op
  BY DEF Resolve
<1>. HIDE DEF j
<1>4. op.host # {} => Fit(j, w, c)
  BY <1>1 DEF Fit, Typed
<1>. QED BY <1>1, <1>2, <1>3, <1>4

(* The operations of a segment.                                            *)
LEMMA ResolveWithin ==
    ASSUME NEW ops, NEW w, NEW c, Within(ops, w, c)
    PROVE  Within([i \in DOMAIN ops |-> Resolve(ops[i])], w, c)
<1>. DEFINE b == [i \in DOMAIN ops |-> Resolve(ops[i])]
<1>1. \A i \in DOMAIN ops : Fit(ops[i], w, c) => Fit(b[i], w, c)
  BY ResolveFits
<1>2. b = [i \in DOMAIN ops |-> b[i]]
  OBVIOUS
<1>. HIDE DEF b
<1>3. Within(b, w, c)
  BY <1>1, <1>2, WithinAlike
<1>. QED BY <1>3 DEF b

-----------------------------------------------------------------------------
(* The type invariant, sharpened until it is inductive.                    *)

(* The rows before the last of the longest chunk, the first one; and where *)
(* the positions of a chunk are.                                           *)
Behind == IF Chunked THEN (IF prompt < chunk THEN prompt ELSE chunk) - 1 ELSE 0
Fed    == <<"batch", -1>>

(* Where the request is, and how much of the context it has used.          *)
Situated ==
    /\ [model |-> model, sampler |-> sampler, prompt |-> prompt, chunk |-> chunk] \in Requests
    /\ hidden \in {"bufA", "bufB"}
    /\ position \in 0 .. Context
    /\ step \in {"idle", "hidden", "chunks", "chunk", "layers", "next", "replay", "first", "failed", "refused"}
    /\ step \in {"hidden", "layers", "next", "replay"} => position < Context
    /\ Chunked => position > Behind \/ (position = 0 /\ step \notin {"hidden", "layers", "next", "replay"})

(* What there is in memory; a chunk never ends before its first row can.   *)
Held ==
    /\ \A b \in DOMAIN mem : mem[b] \in Values
    /\ Fed \in DOMAIN mem => mem[Fed].pos >= Behind
    /\ \A b \in DOMAIN rows : DOMAIN rows[b] \subseteq 0 .. Context - 1
    /\ DOMAIN host = {"topk", "counts", "input", "acc"}
    /\ \A v \in DOMAIN host : host[v] \in Values
    /\ answer \in Values

(* What is left to run.                                                    *)
Fitting ==
    /\ \A s \in Streams : Within(queue[s], Behind, -1)
    /\ Within(todo, Behind, -1) /\ Within(recorded, Behind, -1) /\ Within(graph, Behind, -1)

(* The rows of a chunk are not stored before the device knows where: that  *)
(* is the first thing it is told in a request whose prompt runs in chunks. *)
Supplied ==
    Chunked =>
        \/ Fed \in DOMAIN mem
        \/ queue["compute"] # <<>> /\ Head(queue["compute"]).out = Fed
        \/ /\ queue["compute"] = <<>> /\ ~capturing /\ step = "chunk"
           /\ todo # <<>> /\ Head(todo).out = Fed
        \/ /\ queue["compute"] = <<>> /\ ~capturing /\ step \in {"idle", "chunks"}
           /\ todo = <<>> /\ position = 0

TInv == Situated /\ Held /\ Fitting /\ Supplied

(* What a request is.                                                      *)
LEMMA RequestIs ==
    ASSUME Situated
    PROVE  /\ model \in Seq(LayerType) /\ prompt \in 1 .. Context /\ chunk \in Nat \ {0}
           /\ position \in Nat /\ Context \in Nat \ {0}
           /\ Behind \in Nat /\ Behind < Context /\ Chunked \in BOOLEAN
<1>. DEFINE r == [model |-> model, sampler |-> sampler, prompt |-> prompt, chunk |-> chunk]
<1>1. r \in [model : Seq(LayerType), sampler : {"greedy", "gpu", "host"}, prompt : 1 .. Context, chunk : Nat \ {0}]
  BY DecodeAssumption DEF Situated
<1>2. model \in Seq(LayerType) /\ prompt \in 1 .. Context /\ chunk \in Nat \ {0}
  BY <1>1
<1>3. Context \in Nat \ {0}
  BY DecodeAssumption
<1>. QED BY <1>2, <1>3 DEF Situated, Behind, Chunked

(* Whatever is read is a value of a position of the context.               *)
LEMMA ReadIs ==
    ASSUME Held, NEW b
    PROVE  Read(b) \in Values /\ Read(b).pos \in 0 .. Context - 1
<1>1. None \in Values
  BY DecodeAssumption DEF None, Values, Forms
<1>2. Read(b) \in Values
  BY <1>1 DEF Read, Held
<1>. QED BY <1>2 DEF Values

(* The position of an operation is one, too.                               *)
LEMMA PositionIs ==
    ASSUME Held, NEW op, Typed(op)
    PROVE  PositionOf(op) \in 0 .. Context - 1
<1>1. CASE op.host # {} \/ op.in = {}
  BY <1>1, DecodeAssumption DEF PositionOf, Typed
<1>2. CASE ~(op.host # {} \/ op.in = {})
  BY <1>2, ReadIs DEF PositionOf
<1>. QED BY <1>1, <1>2

(* So what it yields is a value.                                           *)
LEMMA ResultIs ==
    ASSUME Held, NEW op, Typed(op), op.kind \in Yielding
    PROVE  Result(op) \in Values /\ Attended(op) \in Values
<1>1. Junk \in Values
  BY DecodeAssumption DEF Junk, None, Values, Forms
<1>2. Val("zero", "f32", 0, 0, 0) \in Values
  BY DecodeAssumption DEF Val, Values, Names, ExpertNames, Forms
<1>3. op.name \in Names \cup {"junk"} /\ op.form \in Forms /\ op.layer \in Nat /\ op.slot \in Nat
  BY DEF Typed
<1>4. \A k \in Nat : \A p \in 0 .. Context - 1 : Val(op.name, op.form, op.layer, k, p) \in Values
  BY <1>3 DEF Val, Values
<1>5. PositionOf(op) \in 0 .. Context - 1
  BY PositionIs
<1>6. Result(op) \in Values
  BY <1>1, <1>2, <1>3, <1>4, <1>5 DEF Result
<1>7. Attended(op) \in Values
  BY <1>1, <1>4, <1>5 DEF Attended
<1>. QED BY <1>6, <1>7

(* The first operation of a stream is one of it.                           *)
LEMMA FirstIs ==
    ASSUME DInv, NEW s \in Streams, queue[s] # <<>>
    PROVE  Good(Head(queue[s])) /\ Head(queue[s]).stream = s
<1>1. PICK M : Queued(M) /\ Ordered(M) /\ CopiesKnown(M)
  BY DEF DInv
<1>2. PICK S : M \in Seq(S) /\ \A x \in S : Good(x)
  BY <1>1, SoundIsProgram DEF Ordered, Program
<1>3. queue[s] = OfStream(M, s)
  BY <1>1 DEF Queued, Streams
<1>4. PICK a \in Seq(S), x \in S, b \in Seq(S) : Splits(M, s, a, x, b)
  <2>1. OfStream(M, s) # <<>>
    BY <1>3
  <2>. QED BY <1>2, <2>1, FirstOfStream
<1>5. Head(OfStream(M, s)) = x
  BY <1>4, StreamWithout
<1>6. x.stream = s
  BY <1>4 DEF Splits
<1>. QED BY <1>2, <1>3, <1>5, <1>6

(* A cache written.                                                        *)
LEMMA PutRowsIs ==
    ASSUME NEW f, NEW b, NEW new, NEW R, DOMAIN new \subseteq R, \A c \in DOMAIN f : DOMAIN f[c] \subseteq R
    PROVE  \A c \in DOMAIN PutRows(f, b, new) : DOMAIN PutRows(f, b, new)[c] \subseteq R
<1>. DEFINE old == IF b \in DOMAIN f THEN f[b] ELSE <<>>
            v == Over(new, old)
            g == Written(f, b, v)
<1>1. DOMAIN old \subseteq R
  OBVIOUS
<1>2. DOMAIN v \subseteq R
  <2>. HIDE DEF old
  <2>. QED BY <1>1 DEF Over
<1>3. PutRows(f, b, new) = g
  BY DEF PutRows
<1>. HIDE DEF v
<1>4. DOMAIN g = DOMAIN f \cup {b} /\ g[b] = v /\ \A c \in DOMAIN f : c # b => g[c] = f[c]
  BY DEF Written
<1>. HIDE DEF g
<1>5. ASSUME NEW c \in DOMAIN g PROVE DOMAIN g[c] \subseteq R
  <2>1. CASE c = b
    BY <1>2, <1>4, <2>1
  <2>2. CASE c # b
    <3>1. c \in DOMAIN f /\ g[c] = f[c]
      BY <1>4, <2>2
    <3>. QED BY <3>1
  <2>. QED BY <2>1, <2>2
<1>. QED BY <1>3, <1>5

(* What an operation leaves in memory.                                     *)
LEMMA EffectIs ==
    ASSUME DInv, TInv, NEW s \in Streams, queue[s] # <<>>, Effect(Head(queue[s]))
    PROVE  /\ \A b \in DOMAIN mem' : mem'[b] \in Values
           /\ Fed \in DOMAIN mem' => mem'[Fed].pos >= Behind
           /\ \A b \in DOMAIN rows' : DOMAIN rows'[b] \subseteq 0 .. Context - 1
           /\ DOMAIN mem \subseteq DOMAIN mem'
           /\ Head(queue[s]).out = Fed => Fed \in DOMAIN mem'
<1>. DEFINE op == Head(queue[s])
            w == Behind
            d == -1
            new == Written(mem, op.out, Result(op))
<1>1. Good(op) /\ op.stream = s /\ op.stream \in Streams
  BY FirstIs
<1>2. Fit(op, w, d)
  BY WithinIs DEF TInv, Fitting
<1>3. op.kind \in OnStream
  BY <1>1 DEF Good, Streams
<1>4. w \in Nat /\ w < Context /\ Context \in Nat \ {0}
  BY RequestIs DEF TInv
<1>5. Typed(op) /\ Held
  BY <1>2 DEF Fit, TInv
<1>6. op.out[1] = "batch" =>
          /\ op.out = <<"batch", d>> /\ op.kind = "put" /\ op.stream = "compute" /\ op.name = "position"
          /\ op.in = {} /\ op.host = {} /\ op.at >= w
  BY <1>2 DEF Fit
<1>7. Fed = <<"batch", d>> /\ Fed[1] = "batch"
  BY DEF Fed
<1>8. op.layer \in Nat /\ op.slot \in Nat /\ op.at \in Nat /\ (op.at < Context \/ op.kind = "attend")
  BY <1>5 DEF Typed
<1>. HIDE DEF op, w, d
<1>10. CASE op.kind \in {"kernel", "put", "upload", "zero"}
  <2>1. mem' = new /\ rows' = rows
    BY <1>10 DEF Effect, op
  <2>2. DOMAIN new = DOMAIN mem \cup {op.out} /\ new[op.out] = Result(op) /\ \A c \in DOMAIN mem : c # op.out => new[c] = mem[c]
    BY DEF Written
  <2>3. Result(op) \in Values
    BY <1>5, <1>10, ResultIs DEF Yielding
  <2>4. op.out = Fed => Result(op).pos >= w
    <3>. SUFFICES ASSUME op.out = Fed PROVE Result(op).pos >= w
      OBVIOUS
    <3>1. op.kind = "put" /\ op.name = "position" /\ op.in = {} /\ op.at >= w
      BY <1>6, <1>7
    <3>2. Result(op) = Val(op.name, op.form, op.layer, op.slot, op.at)
      BY <3>1 DEF Result, InputsFound, PositionOf
    <3>. QED BY <3>1, <3>2 DEF Val
  <2>. HIDE DEF new
  <2>. QED BY <1>5, <2>1, <2>2, <2>3, <2>4 DEF Held, w, op
<1>11. CASE op.kind = "attend"
  <2>. DEFINE newer == Written(mem, op.out, Attended(op))
  <2>1. mem' = newer /\ rows' = rows
    BY <1>11 DEF Effect, op
  <2>2. DOMAIN newer = DOMAIN mem \cup {op.out} /\ newer[op.out] = Attended(op) /\ \A c \in DOMAIN mem : c # op.out => newer[c] = mem[c]
    BY DEF Written
  <2>3. Attended(op) \in Values
    BY <1>5, <1>11, ResultIs DEF Yielding
  <2>4. op.out # Fed
    BY <1>6, <1>7, <1>11
  <2>. HIDE DEF newer
  <2>. QED BY <1>5, <2>1, <2>2, <2>3, <2>4 DEF Held, w, op
<1>12. CASE op.kind \in {"record", "wait"}
  <2>1. mem' = mem /\ rows' = rows
    BY <1>12 DEF Effect, op
  <2>2. op.out # Fed
    BY <1>6, <1>7, <1>12
  <2>. QED BY <1>5, <2>1, <2>2 DEF Held, w, op
<1>13. CASE op.kind \in {"store", "load", "save"}
  <2>. DEFINE R == 0 .. Context - 1
  <2>1. mem' = mem /\ op.out # Fed
    BY <1>6, <1>7, <1>13 DEF Effect, op
  <2>2. \A c \in DOMAIN rows : DOMAIN rows[c] \subseteq R
    BY <1>5 DEF Held
  <2>3. \E new2 : rows' = PutRows(rows, op.out, new2) /\ DOMAIN new2 \subseteq R
    <3>1. CASE op.kind = "load"
      <4>. DEFINE n == [r \in 0 .. op.at - 1 |-> Row(op.id, r)]
      <4>1. rows' = PutRows(rows, op.out, n)
        BY <3>1 DEF Effect, op
      <4>2. DOMAIN n \subseteq R
        BY <1>4, <1>8, <3>1
      <4>. HIDE DEF n, R
      <4>. QED BY <4>1, <4>2
    <3>2. CASE op.kind = "save"
      <4>. DEFINE n == [r \in op.at - op.slot .. op.at |-> Row(op.id, r)]
      <4>1. rows' = PutRows(rows, op.out, n)
        BY <3>2 DEF Effect, op
      <4>0. op.slot <= op.at
        BY <1>2, <3>2 DEF Fit
      <4>2. DOMAIN n \subseteq R
        BY <1>4, <1>8, <3>2, <4>0
      <4>. HIDE DEF n, R
      <4>. QED BY <4>1, <4>2
    <3>3. CASE op.kind = "store"
      <4>. DEFINE at == Where(op)
                  n == [r \in at - op.slot .. at |-> IF InputsFound(op) THEN Val(op.name, "f32", op.layer, 0, r) ELSE Junk]
      <4>1. rows' = PutRows(rows, op.out, n)
        BY <3>3 DEF Effect, op
      <4>2. at \in R
        BY <1>5, ReadIs DEF Where
      <4>3. op.slot <= at
        <5>1. CASE op.slot = 0
          BY <1>4, <4>2, <5>1
        <5>2. CASE op.slot # 0
          <6>1. /\ op.slot <= w /\ op.stream = "compute"
                /\ \E x \in op.in : x.name = "position"
                /\ \A x \in op.in : x.name = "position" => x.buf = <<"batch", d>>
            BY <1>2, <3>3, <5>2 DEF Fit
          <6>2. at = Read(Fed).pos
            BY <1>7, <6>1 DEF Where
          <6>3. Chunked
            BY <1>4, <1>8, <5>2, <6>1 DEF w, Behind
          <6>4. Fed \in DOMAIN mem
            <7>1. op = Head(queue["compute"]) /\ queue["compute"] # <<>>
              BY <1>1, <6>1 DEF op
            <7>2. op.out # Fed
              BY <2>1
            <7>. QED BY <6>3, <7>1, <7>2 DEF TInv, Supplied
          <6>5. mem[Fed].pos >= w
            BY <1>5, <6>4 DEF Held, w
          <6>. HIDE DEF at
          <6>. QED BY <1>4, <1>8, <4>2, <6>1, <6>2, <6>4, <6>5 DEF Read
        <5>. QED BY <5>1, <5>2
      <4>. HIDE DEF at
      <4>4. DOMAIN n \subseteq R
        BY <1>4, <1>8, <4>2, <4>3
      <4>. HIDE DEF n, R
      <4>. QED BY <4>1, <4>4
    <3>. QED BY <1>13, <3>1, <3>2, <3>3
  <2>. HIDE DEF R
  <2>4. \A c \in DOMAIN rows' : DOMAIN rows'[c] \subseteq R
    BY <2>2, <2>3, PutRowsIs
  <2>. QED BY <1>5, <2>1, <2>4 DEF Held, w, op, R
<1>. QED BY <1>3, <1>10, <1>11, <1>12, <1>13 DEF OnStream

(* A stream executes its first operation.                                  *)
LEMMA ExecuteTyped ==
    ASSUME DInv, TInv, NEW s \in Streams, Execute(s)
    PROVE  TInv'
<1>0. queue[s] # <<>> /\ Effect(Head(queue[s]))
  BY DEF Execute
<1>1. queue' = [queue EXCEPT ![s] = Tail(queue[s])] /\ DOMAIN queue = Streams
  BY DEF Execute, DInv, Queued, Streams
<1>2. UNCHANGED <<model, sampler, prompt, chunk, host, hidden, capturing, recorded, graph, position, todo, step, answer>>
  BY DEF Execute, chosen
<1>3. /\ \A b \in DOMAIN mem' : mem'[b] \in Values
      /\ Fed \in DOMAIN mem' => mem'[Fed].pos >= Behind
      /\ \A b \in DOMAIN rows' : DOMAIN rows'[b] \subseteq 0 .. Context - 1
      /\ DOMAIN mem \subseteq DOMAIN mem'
      /\ Head(queue[s]).out = Fed => Fed \in DOMAIN mem'
  BY <1>0, EffectIs
<1>4. Situated' /\ Behind' = Behind /\ (Chunked' <=> Chunked)
  BY <1>2 DEF TInv, Situated, Behind, Chunked
<1>5. Held'
  BY <1>2, <1>3, <1>4 DEF TInv, Held, Fed
<1>6. Fitting'
  <2>. DEFINE w == Behind
              d == -1
  <2>1. \A u \in Streams : Within(queue[u], w, d)
    BY DEF TInv, Fitting
  <2>2. Within(Tail(queue[s]), w, d)
    <3>. HIDE DEF w, d
    <3>. QED BY <1>0, <2>1, WithinIs
  <2>3. \A u \in Streams : queue'[u] = IF u = s THEN Tail(queue[s]) ELSE queue[u]
    BY <1>1
  <2>. HIDE DEF w
  <2>4. \A u \in Streams : Within(queue'[u], w, d)
    <3>. HIDE DEF d
    <3>. QED BY <2>1, <2>2, <2>3
  <2>. QED BY <1>2, <1>4, <2>4 DEF TInv, Fitting, w
<1>7. Supplied'
  <2>. SUFFICES ASSUME Chunked PROVE Supplied'
    BY <1>4 DEF Supplied
  <2>1. CASE Fed \in DOMAIN mem
    BY <1>3, <2>1 DEF Supplied, Fed
  <2>2. CASE queue["compute"] # <<>> /\ Head(queue["compute"]).out = Fed
    <3>1. CASE s = "compute"
      BY <1>3, <2>2, <3>1 DEF Supplied, Fed
    <3>2. CASE s # "compute"
      <4>1. queue'["compute"] = queue["compute"]
        BY <1>1, <3>2 DEF Streams
      <4>. QED BY <2>2, <4>1 DEF Supplied, Fed
    <3>. QED BY <3>1, <3>2
  <2>3. CASE queue["compute"] = <<>>
    <3>1. s # "compute"
      BY <1>0, <2>3
    <3>2. queue'["compute"] = queue["compute"]
      BY <1>1, <3>1 DEF Streams
    <3>. QED BY <1>2, <1>3, <2>3, <3>2 DEF TInv, Supplied, Chunked, Fed
  <2>. QED BY <2>1, <2>2, <2>3 DEF TInv, Supplied
<1>. QED BY <1>4, <1>5, <1>6, <1>7 DEF TInv

(* Where the host has something to do itself, the first chunk has begun.   *)
LEMMA SuppliedAtHost ==
    ASSUME TInv, todo # <<>>, HostIsNext, Chunked
    PROVE  Fed \in DOMAIN mem \/ (queue["compute"] # <<>> /\ Head(queue["compute"]).out = Fed)
<1>. DEFINE w == Behind
            d == -1
            x == Head(todo)
<1>1. Fit(x, w, d)
  <2>1. Within(todo, w, d)
    BY DEF TInv, Fitting
  <2>. HIDE DEF w, d
  <2>. QED BY <2>1, WithinIs
<1>2. x.stream = "host"
  BY DEF HostIsNext
<1>3. x.out[1] # "batch"
  BY <1>1, <1>2 DEF Fit
<1>4. x.out # Fed
  BY <1>3 DEF Fed
<1>. HIDE DEF x
<1>. QED BY <1>4 DEF TInv, Supplied, x

(* The host goes past an operation of its own.                             *)
LEMMA TailTyped ==
    ASSUME DInv, TInv, HostReads \/ HostWaits \/ HostExperts
    PROVE  TInv'
<1>. DEFINE w == Behind
            d == -1
<1>1. todo # <<>> /\ HostIsNext
  BY DEF HostReads, HostWaits, HostExperts, AtHost
<1>2. todo' = Tail(todo)
      /\ UNCHANGED <<model, sampler, prompt, chunk, mem, rows, queue, hidden, position, graph, recorded, capturing, step, answer>>
  BY DEF HostReads, HostWaits, HostExperts, chosen
<1>3. Situated' /\ Behind' = Behind /\ (Chunked' <=> Chunked)
  BY <1>2 DEF TInv, Situated, Behind, Chunked
<1>4. Fitting'
  <2>1. Within(todo, w, d)
    BY DEF TInv, Fitting
  <2>2. Within(Tail(todo), w, d)
    <3>. HIDE DEF w, d
    <3>. QED BY <1>1, <2>1, WithinIs
  <2>. QED BY <1>2, <1>3, <2>2 DEF TInv, Fitting
<1>5. Supplied'
  BY <1>1, <1>2, <1>3, SuppliedAtHost DEF Supplied, Fed
<1>6. DOMAIN host' = {"topk", "counts", "input", "acc"} /\ \A v \in DOMAIN host' : host'[v] \in Values
  <2>0. DOMAIN host = {"topk", "counts", "input", "acc"} /\ (\A v \in DOMAIN host : host[v] \in Values) /\ Held
    BY DEF TInv, Held
  <2>1. CASE HostReads
    <3>. DEFINE b == (CHOOSE u \in Head(todo).in : TRUE).buf
                v == Head(todo).out[1]
    <3>1. host' = [host EXCEPT ![v] = Read(b)]
      BY <2>1 DEF HostReads
    <3>. HIDE DEF b, v
    <3>2. Read(b) \in Values
      BY <2>0, ReadIs
    <3>. QED BY <2>0, <3>1, <3>2
  <2>2. CASE HostWaits
    BY <2>0, <2>2 DEF HostWaits
  <2>3. CASE HostExperts
    <3>. DEFINE l == Head(todo).layer
                right == /\ host.topk  = Val("topk", "f32", l, 0, position)
                         /\ host.input = Val("ein", "f32", l, 0, position)
                a == IF right THEN Val("acc", "f32", l, TopK, position) ELSE Junk
    <3>1. host' = [host EXCEPT !.acc = a]
      BY <2>3 DEF HostExperts
    <3>2. a \in Values
      <4>1. Junk \in Values
        BY DecodeAssumption DEF Junk, None, Values, Forms
      <4>2. ASSUME right PROVE Val("acc", "f32", l, TopK, position) \in Values
        <5>1. Val("topk", "f32", l, 0, position) \in Values
          BY <2>0, <4>2
        <5>2. l \in Nat /\ position \in 0 .. Context - 1
          BY <5>1 DEF Val, Values
        <5>3. "acc" \in Names /\ "f32" \in Forms /\ TopK \in Nat
          BY DEF Names, ExpertNames, Forms, TopK
        <5>. HIDE DEF l
        <5>. QED BY <5>2, <5>3 DEF Val, Values
      <4>. QED BY <4>1, <4>2
    <3>. HIDE DEF a
    <3>. QED BY <2>0, <3>1, <3>2
  <2>. QED BY <2>1, <2>2, <2>3
<1>7. Held'
  BY <1>2, <1>3, <1>6 DEF TInv, Held, Fed
<1>. QED BY <1>3, <1>4, <1>5, <1>7 DEF TInv

(* A call ends, with its answer or an error.                               *)
LEMMA EndTyped ==
    ASSUME DInv, TInv, Fail \/ Refuse \/ Return
    PROVE  TInv'
<1>. DEFINE w == Behind
            d == -1
<1>1. todo # <<>> /\ HostIsNext
  BY DEF Fail, Refuse, Return, AtHost
<1>2. todo' = <<>> /\ step' \in {"failed", "refused", "idle"}
      /\ UNCHANGED <<model, sampler, prompt, chunk, mem, rows, queue, host, hidden, position, graph, recorded, capturing>>
  BY DEF Fail, Refuse, Return, chosen
<1>3. Situated' /\ Behind' = Behind /\ (Chunked' <=> Chunked)
  BY <1>2 DEF TInv, Situated, Behind, Chunked
<1>4. Fitting'
  <2>1. Within(<<>>, w, d)
    BY WithinNone
  <2>. QED BY <1>2, <1>3, <2>1 DEF TInv, Fitting
<1>5. Supplied'
  BY <1>1, <1>2, <1>3, SuppliedAtHost DEF Supplied, Fed
<1>6. answer' \in Values
  <2>0. Held
    BY DEF TInv
  <2>1. CASE Fail \/ Refuse
    BY <2>0, <2>1 DEF Fail, Refuse, Held
  <2>2. CASE Return
    BY <2>0, <2>2, ReadIs DEF Return
  <2>. QED BY <2>1, <2>2
<1>7. Held'
  BY <1>2, <1>3, <1>6 DEF TInv, Held, Fed
<1>. QED BY <1>3, <1>4, <1>5, <1>7 DEF TInv

(* What stands first stays first.                                          *)
LEMMA HeadKept ==
    ASSUME NEW a, NEW b, NEW w, NEW c, Within(a, w, c), Within(b, w, c), a # <<>>
    PROVE  a \o b # <<>> /\ Head(a \o b) = Head(a)
<1>1. PICK S : a \in Seq(S)
  BY DEF Within
<1>2. PICK T : b \in Seq(T)
  BY DEF Within
<1>. DEFINE o == a \o b
<1>3. o \in Seq(S \cup T) /\ Len(o) = Len(a) + Len(b) /\ o[1] = a[1] /\ Len(a) \in Nat \ {0} /\ Len(b) \in Nat
  BY <1>1, <1>2
<1>. HIDE DEF o
<1>4. o # <<>> /\ Head(o) = a[1]
  BY <1>3
<1>. QED BY <1>1, <1>4 DEF o

(* The host issues what comes first.                                       *)
LEMMA SegmentStarts ==
    ASSUME Program(todo), todo # <<>>, ~HostIsNext
    PROVE  Segment # <<>> /\ Segment[1] = todo[1]
<1>. DEFINE stops == {i \in DOMAIN todo : todo[i].stream = "host"}
            N == Len(todo)
            i0 == CHOOSE i \in stops : \A j \in stops : i <= j
<1>1. N \in Nat \ {0} /\ DOMAIN todo = 1 .. N /\ Head(todo) = todo[1]
  <2>1. PICK S : todo \in Seq(S)
    BY DEF Program
  <2>. QED BY <2>1
<1>2. 1 \notin stops /\ stops \subseteq Nat
  BY <1>1 DEF HostIsNext
<1>3. CASE stops = {}
  <2>1. Segment = todo
    BY <1>3 DEF Segment
  <2>. QED BY <2>1
<1>4. CASE stops # {}
  <2>1. \E i \in stops : \A j \in stops : i <= j
    <3>. HIDE DEF stops
    <3>. QED BY <1>2, <1>4, LeastNat
  <2>2. i0 \in stops
    <3>. HIDE DEF stops
    <3>. QED BY <2>1
  <2>. DEFINE seg == SubSeq(todo, 1, i0 - 1)
  <2>3. Segment = seg
    BY <1>4 DEF Segment
  <2>. HIDE DEF i0
  <2>4. i0 \in 2 .. N
    BY <1>1, <1>2, <2>2
  <2>5. Len(seg) = i0 - 1 /\ seg[1] = todo[1]
    <3>1. PICK S : todo \in Seq(S)
      BY DEF Program
    <3>. QED BY <1>1, <2>4, <3>1
  <2>. HIDE DEF seg
  <2>. QED BY <2>3, <2>4, <2>5
<1>. QED BY <1>3, <1>4

(* The first operation of a sequence, if it is of a stream.                *)
LEMMA StreamHead ==
    ASSUME NEW ops, Program(ops), ops # <<>>
    PROVE  LET s == Head(ops).stream IN OfStream(ops, s) # <<>> /\ Head(OfStream(ops, s)) = Head(ops)
<1>. DEFINE x == Head(ops)
            s == x.stream
            b == Tail(ops)
            t == <<x>>
<1>1. ops = t \o b /\ Program(t) /\ Program(b)
  BY HeadIs
<1>2. PICK S : ops \in Seq(S) /\ \A y \in S : Good(y)
  BY DEF Program
<1>3. x \in S /\ b \in Seq(S)
  BY <1>2, HeadTailProperties
<1>. HIDE DEF b
<1>4. OfStream(t \o b, s) = OfStream(t, s) \o OfStream(b, s)
  <2>. HIDE DEF t, s
  <2>. QED BY <1>1, StreamsConcat
<1>5. OfStream(t, s) = t
  BY StreamOne DEF When
<1>6. OfStream(b, s) \in Seq(S)
  BY <1>3, StreamIs
<1>. DEFINE r == OfStream(b, s)
<1>7. OfStream(ops, s) = <<x>> \o r
  BY <1>1, <1>4, <1>5
<1>. HIDE DEF r, x, s
<1>8. <<x>> \o r # <<>> /\ Head(<<x>> \o r) = x
  BY <1>3, <1>6, HeadTailConcatOne DEF r
<1>. QED BY <1>7, <1>8 DEF x, s

(* The host issues what it can without doing anything itself.              *)
LEMMA IssueTyped ==
    ASSUME DInv, TInv, Issue
    PROVE  TInv'
<1>. DEFINE w == Behind
            d == -1
            seg == Segment
            ops == [i \in DOMAIN seg |-> Resolve(seg[i])]
            rest == SubSeq(todo, Len(seg) + 1, Len(todo))
<1>0. /\ todo # <<>> /\ ~HostIsNext
      /\ IF capturing
         THEN recorded' = recorded \o ops /\ UNCHANGED queue
         ELSE Enqueue(ops) /\ UNCHANGED recorded
      /\ todo' = rest
      /\ UNCHANGED <<model, sampler, prompt, chunk, mem, rows, host, hidden, capturing, graph, position, step, answer>>
  BY DEF Issue, chosen
<1>1. Program(todo)
  BY SoundIsProgram DEF DInv, Ordered
<1>2. todo = seg \o rest /\ Program(seg) /\ Program(rest)
  BY <1>1, SegmentIs
<1>3. Within(todo, w, d)
  BY DEF TInv, Fitting
<1>4. Within(seg, w, d) /\ Within(rest, w, d)
  <2>. HIDE DEF seg, rest, w, d
  <2>. QED BY <1>2, <1>3, WithinParts
<1>5. Within(ops, w, d)
  <2>. HIDE DEF seg, w, d
  <2>. QED BY <1>4, ResolveWithin
<1>6. Situated' /\ Behind' = Behind /\ (Chunked' <=> Chunked)
  BY <1>0 DEF TInv, Situated, Behind, Chunked
<1>7. Held'
  BY <1>0, <1>6 DEF TInv, Held, Fed
<1>. HIDE DEF ops, rest
<1>8. \A s \in Streams : ~capturing => queue'[s] = queue[s] \o OfStream(ops, s)
  BY <1>0 DEF Enqueue, Streams
<1>9. Fitting'
  <2>1. (\A s \in Streams : Within(queue[s], w, d)) /\ Within(recorded, w, d) /\ Within(graph, w, d)
    BY DEF TInv, Fitting
  <2>2. Within(recorded \o ops, w, d) /\ \A s \in Streams : Within(queue[s] \o OfStream(ops, s), w, d)
    <3>. HIDE DEF w, d
    <3>. QED BY <1>5, <2>1, WithinStream, WithinConcat
  <2>3. \A s \in Streams : Within(queue'[s], w, d)
    <3>. HIDE DEF w, d
    <3>. QED BY <1>0, <1>8, <2>1, <2>2
  <2>4. Within(recorded', w, d)
    <3>. HIDE DEF w, d
    <3>. QED BY <1>0, <2>1, <2>2
  <2>. QED BY <1>0, <1>4, <1>6, <2>1, <2>3, <2>4 DEF Fitting
<1>10. Supplied'
  <2>. SUFFICES ASSUME Chunked PROVE Supplied'
    BY <1>6 DEF Supplied
  <2>1. CASE Fed \in DOMAIN mem
    BY <1>0, <2>1 DEF Supplied, Fed
  <2>2. CASE queue["compute"] # <<>> /\ Head(queue["compute"]).out = Fed
    <3>1. CASE capturing
      BY <1>0, <2>2, <3>1 DEF Supplied, Fed
    <3>2. CASE ~capturing
      <4>. DEFINE a == queue["compute"]
                  b == OfStream(ops, "compute")
      <4>1. Within(a, w, d)
        BY DEF TInv, Fitting, Streams
      <4>2. Within(b, w, d)
        <5>. HIDE DEF w, d
        <5>. QED BY <1>5, WithinStream
      <4>3. queue'["compute"] = a \o b
        BY <1>8, <3>2 DEF Streams
      <4>. HIDE DEF a, b, w, d
      <4>4. a # <<>> /\ Head(a).out = Fed
        BY <2>2 DEF a
      <4>5. a \o b # <<>> /\ Head(a \o b) = Head(a)
        BY <4>1, <4>2, <4>4, HeadKept
      <4>. QED BY <4>3, <4>4, <4>5 DEF Supplied, Fed
    <3>. QED BY <3>1, <3>2
  <2>3. CASE queue["compute"] = <<>> /\ ~capturing /\ step = "chunk" /\ Head(todo).out = Fed
    <3>. DEFINE x == todo[1]
    <3>1. seg # <<>> /\ seg[1] = x /\ Head(todo) = x
      <4>1. Head(todo) = x
        BY <1>0, <1>3, WithinIs
      <4>. QED BY <1>0, <1>1, <4>1, SegmentStarts
    <3>2. Fit(x, w, d)
      <4>. HIDE DEF w, d
      <4>. QED BY <1>0, <1>3, WithinIs
    <3>3. x.stream = "compute"
      <4>1. x.out[1] = "batch"
        BY <2>3, <3>1 DEF Fed
      <4>. QED BY <3>2, <4>1 DEF Fit
    <3>. DEFINE y == Resolve(x)
    <3>4. y.out = Fed /\ y.stream = "compute"
      <4>. HIDE DEF x
      <4>. QED BY <2>3, <3>1, <3>2, <3>3, ResolveFits
    <3>5. ops # <<>> /\ Head(ops) = y /\ Program(ops)
      <4>. HIDE DEF x
      <4>1. Len(seg) \in Nat \ {0} /\ DOMAIN seg = 1 .. Len(seg)
        <5>1. PICK S : seg \in Seq(S)
          BY <1>2 DEF Program
        <5>. HIDE DEF seg
        <5>. QED BY <3>1, <5>1
      <4>2. PICK S : ops \in Seq(S)
        BY <1>5 DEF Within
      <4>3. DOMAIN ops = 1 .. Len(seg) /\ ops[1] = y
        <5>. HIDE DEF seg
        <5>. QED BY <3>1, <4>1 DEF ops
      <4>4. Len(ops) = Len(seg)
        <5>. HIDE DEF seg
        <5>. QED BY <4>1, <4>2, <4>3
      <4>5. Program(ops)
        <5>1. ASSUME NEW i \in DOMAIN seg PROVE Alike(ops[i], seg[i])
          <6>1. Good(seg[i])
            BY <1>2, ProgramIs
          <6>2. ops[i] = Resolve(seg[i])
            BY DEF ops
          <6>. HIDE DEF seg
          <6>. QED BY <6>1, <6>2, ResolveAlike
        <5>. DEFINE T == {z \in S : Good(z)}
        <5>2. \A i \in 1 .. Len(ops) : ops[i] \in T
          <6>. HIDE DEF seg
          <6>. QED BY <4>1, <4>2, <4>4, <5>1 DEF Alike
        <5>3. ops \in Seq(T)
          <6>. HIDE DEF T
          <6>. QED BY <4>2, <5>2
        <5>. QED BY <5>3 DEF Program
      <4>. HIDE DEF seg, y
      <4>. QED BY <4>1, <4>2, <4>3, <4>4, <4>5
    <3>. HIDE DEF x, y
    <3>6. OfStream(ops, "compute") # <<>> /\ Head(OfStream(ops, "compute")) = y
      BY <3>4, <3>5, StreamHead
    <3>7. queue'["compute"] = OfStream(ops, "compute")
      <4>1. queue'["compute"] = queue["compute"] \o OfStream(ops, "compute")
        BY <1>8, <2>3 DEF Streams
      <4>2. PICK S : ops \in Seq(S)
        BY <1>5 DEF Within
      <4>3. OfStream(ops, "compute") \in Seq(S)
        BY <4>2, StreamIs
      <4>. QED BY <2>3, <4>1, <4>3, ConcatEmptySeq
    <3>. QED BY <3>4, <3>6, <3>7 DEF Supplied, Fed
  <2>. QED BY <1>0, <2>1, <2>2, <2>3 DEF TInv, Supplied
<1>. QED BY <1>6, <1>7, <1>9, <1>10 DEF TInv

(* What follows the layers.                                                *)
LEMMA AfterwardsRegular ==
    ASSUME model \in Seq(LayerType), sampler \in {"gpu", "greedy", "host"}
    PROVE  Regular(AfterLayers) /\ Regular(AfterStep) /\ Regular(FirstToken)
<1>1. Len(model) \in Nat
  OBVIOUS
<1>2. \A h : Regular(FinalLogits(model, h)) /\ Regular(Argmax(model)) /\ Regular(Sampler(model))
  BY <1>1, FinalRegular
<1>3. Regular(Download)
  BY OnHostSteady, RegularOne DEF Download, OfHosts
<1>4. Regular(AfterLayers)
  BY <1>2, RegularConcat DEF AfterLayers
<1>5. Regular(AfterStep)
  <2>. DEFINE a == When(sampler = "gpu", Sampler(model))
  <2>1. Regular(a)
    BY <1>2, RegularWhen
  <2>. HIDE DEF a
  <2>2. Regular(a \o Download)
    BY <1>3, <2>1, RegularConcat
  <2>. QED BY <2>2 DEF AfterStep, a
<1>6. Regular(FirstToken)
  <2>. DEFINE c == CASE sampler = "gpu" -> Sampler(model)
                     [] sampler = "greedy" -> Argmax(model)
                     [] sampler = "host" -> <<>>
              f == FinalLogits(model, hidden)
  <2>1. FirstToken = (f \o c) \o Download
    BY DEF FirstToken
  <2>2. Regular(c)
    BY <1>2, RegularNone
  <2>3. Regular(f)
    BY <1>2
  <2>. HIDE DEF c, f
  <2>. QED BY <1>3, <2>1, <2>2, <2>3, RegularConcat
<1>. QED BY <1>4, <1>5, <1>6

(* Where state.hidden points after the layers.                             *)
LEMMA HiddenAfterIs ==
    ASSUME NEW ms \in Seq(LayerType), NEW h \in {"bufA", "bufB"}
    PROVE  HiddenAfter(ms, h) \in {"bufA", "bufB"}
BY DEF HiddenAfter, HiddenOf, Other

(* A part of a call is over.                                               *)
LEMMA DoneTyped ==
    ASSUME DInv, TInv, HiddenDone \/ ChunkDone \/ PrefillPrompt
    PROVE  TInv'
<1>. DEFINE w == Behind
            d == -1
<1>1. UNCHANGED <<model, sampler, prompt, chunk, mem, rows, queue, host, graph, recorded, capturing, todo>> /\ todo = <<>>
  BY DEF HiddenDone, ChunkDone, PrefillPrompt, Idle, chosen
<1>0. /\ model \in Seq(LayerType) /\ prompt \in 1 .. Context /\ chunk \in Nat \ {0}
      /\ position \in Nat /\ Context \in Nat \ {0}
      /\ Behind \in Nat /\ Behind < Context /\ Chunked \in BOOLEAN
  BY RequestIs DEF TInv
<1>2. Behind' = Behind /\ (Chunked' <=> Chunked)
  BY <1>1 DEF Behind, Chunked
<1>8. HiddenAfter(model, hidden) \in {"bufA", "bufB"}
  <2>1. hidden \in {"bufA", "bufB"}
    BY DEF TInv, Situated
  <2>. QED BY <1>0, <2>1, HiddenAfterIs
<1>3. Situated'
  <2>0. Situated /\ Placed
    BY DEF TInv, DInv
  <2>1. CASE HiddenDone
    <3>1. hidden' \in {"bufA", "bufB"}
      BY <1>8, <2>1 DEF HiddenDone
    <3>2. position < Context /\ position' = position + 1 /\ step' = "idle"
      BY <2>0, <2>1 DEF HiddenDone, Situated
    <3>3. Chunked => position' > Behind
      BY <2>0, <2>1, <1>0, <3>2 DEF Situated, HiddenDone
    <3>4. position' \in 0 .. Context
      BY <1>0, <3>2
    <3>. QED BY <2>0, <1>1, <1>2, <3>1, <3>2, <3>3, <3>4 DEF Situated
  <2>2. CASE ChunkDone
    <3>1. Chunked /\ position < prompt /\ position' = position + RowsOfChunk /\ step' = "chunks" /\ hidden' = hidden
      BY <2>0, <2>2 DEF ChunkDone, Placed
    <3>2. position' \in 0 .. Context /\ position' > Behind
      BY <2>0, <1>0, <3>1 DEF RowsOfChunk, Behind, Situated
    <3>. QED BY <2>0, <1>1, <1>2, <3>1, <3>2 DEF Situated
  <2>3. CASE PrefillPrompt
    BY <2>0, <2>3, <1>1, <1>2 DEF PrefillPrompt, Situated
  <2>. QED BY <2>1, <2>2, <2>3
<1>4. answer' \in Values
  <2>1. None \in Values
    BY DecodeAssumption DEF None, Values, Forms
  <2>. QED BY <2>1 DEF HiddenDone, ChunkDone, PrefillPrompt, TInv, Held
<1>5. Held'
  BY <1>1, <1>2, <1>4 DEF TInv, Held, Fed
<1>6. Fitting'
  BY <1>1, <1>2 DEF TInv, Fitting
<1>7. Supplied'
  <2>. SUFFICES ASSUME Chunked PROVE Supplied'
    BY <1>2 DEF Supplied
  <2>1. CASE PrefillPrompt
    <3>1. step' = "chunks" /\ position' = position
      BY <2>1 DEF PrefillPrompt
    <3>. QED BY <1>1, <3>1 DEF TInv, Supplied, Fed
  <2>2. CASE HiddenDone \/ ChunkDone
    <3>1. step \in {"hidden", "chunk"}
      BY <2>2 DEF HiddenDone, ChunkDone
    <3>. QED BY <1>1, <3>1 DEF TInv, Supplied, Fed
  <2>. QED BY <2>1, <2>2
<1>. QED BY <1>3, <1>5, <1>6, <1>7 DEF TInv

(* A call begins, or a part of one.                                        *)
LEMMA BeginTyped ==
    ASSUME DInv, TInv, ForwardHidden \/ BeginChunk \/ SampleFirst \/ ForwardNextToken \/ BeginLayers \/ AfterReplay
    PROVE  TInv'
<1>. DEFINE w == Behind
            d == -1
<1>1. UNCHANGED <<model, sampler, prompt, chunk, mem, rows, queue, host, hidden, graph>>
  BY DEF ForwardHidden, BeginChunk, SampleFirst, ForwardNextToken, BeginLayers, AfterReplay, chosen
<1>0. /\ model \in Seq(LayerType) /\ prompt \in 1 .. Context /\ chunk \in Nat \ {0}
      /\ position \in Nat /\ Context \in Nat \ {0}
      /\ Behind \in Nat /\ Behind < Context /\ Chunked \in BOOLEAN
  BY RequestIs DEF TInv
<1>2. Behind' = Behind /\ (Chunked' <=> Chunked)
  BY <1>1 DEF Behind, Chunked
<1>3. Situated /\ Placed /\ Held /\ Supplied /\ hidden \in {"bufA", "bufB"}
  BY DEF TInv, DInv, Situated
<1>4. step' \in {"hidden", "layers", "next", "replay"} => position' < Context /\ position' = position
  BY <1>0, <1>3 DEF ForwardHidden, BeginChunk, SampleFirst, ForwardNextToken, BeginLayers, AfterReplay, Situated
<1>5. position' \in 0 .. Context /\ (Chunked => position' > Behind \/ (position' = 0 /\ step' \notin {"hidden", "layers", "next", "replay"}))
  <2>1. CASE AfterReplay
    BY <1>0, <1>3, <2>1 DEF AfterReplay, Situated
  <2>2. CASE ~AfterReplay
    <3>1. position' = position
      BY <2>2 DEF ForwardHidden, BeginChunk, SampleFirst, ForwardNextToken, BeginLayers
    <3>2. CASE SampleFirst \/ BeginChunk
      BY <1>3, <3>1, <3>2 DEF Situated, SampleFirst, BeginChunk
    <3>3. CASE ForwardHidden
      BY <1>3, <3>1, <3>3 DEF Situated, ForwardHidden
    <3>4. CASE ForwardNextToken
      BY <1>0, <1>3, <3>1, <3>4 DEF Situated, ForwardNextToken, LeftToPrefill, Behind
    <3>5. CASE BeginLayers
      BY <1>3, <3>1, <3>5 DEF Situated, BeginLayers
    <3>. QED BY <2>2, <3>2, <3>3, <3>4, <3>5
  <2>. QED BY <2>1, <2>2
<1>6. step' \in {"hidden", "chunk", "first", "replay", "layers", "next"}
  BY DEF ForwardHidden, BeginChunk, SampleFirst, ForwardNextToken, BeginLayers, AfterReplay
<1>7. Situated'
  BY <1>1, <1>2, <1>3, <1>4, <1>5, <1>6 DEF Situated
<1>8. answer' \in Values
  <2>1. None \in Values
    BY DecodeAssumption DEF None, Values, Forms
  <2>. QED BY <2>1, <1>3 DEF ForwardHidden, BeginChunk, SampleFirst, ForwardNextToken, BeginLayers, AfterReplay, Held
<1>9. Held'
  BY <1>1, <1>2, <1>3, <1>8 DEF Held, Fed
<1>10. Within(todo', w, d) /\ (BeginChunk => todo' # <<>> /\ Head(todo').out = Fed)
  <2>. DEFINE P == Prologue(model, hidden, position)
              L == Layers(model, hidden, position, FirstStep)
  <2>1. position < Context => Regular(P) /\ Regular(L)
    <3>. SUFFICES ASSUME position < Context PROVE Regular(P) /\ Regular(L)
      OBVIOUS
    <3>1. position \in 0 .. Context - 1
      BY <1>0
    <3>. QED BY <1>0, <1>3, <3>1, PrologueRegular, LayersRegular
  <2>2. Regular(AfterLayers) /\ Regular(AfterStep) /\ Regular(FirstToken)
    BY <1>0, <1>3, AfterwardsRegular DEF Placed
  <2>3. Within(graph, w, d)
    BY DEF TInv, Fitting
  <2>. HIDE DEF P, L
  <2>4. CASE ForwardHidden
    <3>1. todo' = P \o L /\ position < Context
      BY <2>4 DEF ForwardHidden, P, L
    <3>2. Regular(P \o L)
      BY <2>1, <3>1, RegularConcat
    <3>3. ~BeginChunk
      BY <2>4 DEF ForwardHidden, BeginChunk, Idle
    <3>. HIDE DEF w, d
    <3>. QED BY <3>1, <3>2, <3>3, RegularIsWithin
  <2>5. CASE BeginChunk
    <3>. DEFINE n == RowsOfChunk
                p == position + n - 1
    <3>1. todo' = Chunk(model, hidden, p, n) /\ Chunked /\ position < prompt
      BY <1>3, <2>5 DEF BeginChunk, Placed
    <3>2. p \in 0 .. Context - 1 /\ n \in 1 .. p + 1 /\ n - 1 <= w /\ w <= p /\ w \in Nat
      BY <1>0, <1>3, <3>1 DEF RowsOfChunk, Behind, Situated
    <3>. HIDE DEF n, p, w
    <3>3. Within(Chunk(model, hidden, p, n), w, -1) /\ Chunk(model, hidden, p, n) # <<>>
          /\ Head(Chunk(model, hidden, p, n)).out = <<"batch", -1>>
      BY <1>0, <1>3, <3>2, ChunkWithin
    <3>. QED BY <3>1, <3>3 DEF Fed
  <2>6. CASE SampleFirst
    <3>1. todo' = FirstToken /\ ~BeginChunk
      BY <2>6, <1>0 DEF SampleFirst, BeginChunk
    <3>. HIDE DEF w, d
    <3>. QED BY <2>2, <3>1, RegularIsWithin
  <2>7. CASE ForwardNextToken
    <3>1. todo' \in {P \o graph, P} /\ ~BeginChunk /\ position < Context
      BY <2>7, <1>0 DEF ForwardNextToken, BeginChunk, Idle, P
    <3>. HIDE DEF w, d
    <3>2. Within(P, w, d)
      BY <2>1, <3>1, RegularIsWithin
    <3>3. Within(P \o graph, w, d)
      BY <2>3, <3>2, WithinConcat
    <3>. QED BY <3>1, <3>2, <3>3
  <2>8. CASE BeginLayers
    <3>1. todo' = L \o AfterLayers /\ ~BeginChunk /\ position < Context
      BY <1>3, <2>8 DEF BeginLayers, BeginChunk, L, Situated
    <3>2. Regular(L \o AfterLayers)
      BY <2>1, <2>2, <3>1, RegularConcat
    <3>. HIDE DEF w, d
    <3>. QED BY <3>1, <3>2, RegularIsWithin
  <2>9. CASE AfterReplay
    <3>1. todo' = AfterStep /\ ~BeginChunk
      BY <2>9 DEF AfterReplay, BeginChunk
    <3>. HIDE DEF w, d
    <3>. QED BY <2>2, <3>1, RegularIsWithin
  <2>. QED BY <2>4, <2>5, <2>6, <2>7, <2>8, <2>9
<1>11. Within(recorded', w, d)
  <2>1. recorded' \in {recorded, <<>>}
    BY DEF ForwardHidden, BeginChunk, SampleFirst, ForwardNextToken, BeginLayers, AfterReplay
  <2>2. Within(recorded, w, d) /\ Within(<<>>, w, d)
    BY WithinNone DEF TInv, Fitting
  <2>. QED BY <2>1, <2>2
<1>12. Fitting'
  <2>1. (\A s \in Streams : Within(queue[s], w, d)) /\ Within(graph, w, d)
    BY DEF TInv, Fitting
  <2>. QED BY <1>1, <1>2, <1>10, <1>11, <2>1 DEF Fitting
<1>13. Supplied'
  <2>. SUFFICES ASSUME Chunked PROVE Supplied'
    BY <1>2 DEF Supplied
  <2>0. Fed' = Fed
    BY DEF Fed
  <2>1. CASE Fed \in DOMAIN mem \/ (queue["compute"] # <<>> /\ Head(queue["compute"]).out = Fed)
    BY <1>1, <2>0, <2>1 DEF Supplied
  <2>2. CASE queue["compute"] = <<>> /\ ~capturing /\ step = "chunk"
    BY <2>2 DEF ForwardHidden, BeginChunk, SampleFirst, ForwardNextToken, BeginLayers, AfterReplay, Idle
  <2>3. CASE queue["compute"] = <<>> /\ ~capturing /\ todo = <<>> /\ position = 0 /\ step \in {"idle", "chunks"}
    <3>1. BeginChunk
      BY <1>0, <2>3 DEF ForwardHidden, SampleFirst, ForwardNextToken, BeginLayers, AfterReplay, LeftToPrefill
    <3>2. ~capturing
      BY <2>3
    <3>3. step' = "chunk" /\ capturing' = capturing
      BY <3>1 DEF BeginChunk
    <3>. QED BY <1>1, <1>10, <2>0, <2>3, <3>1, <3>2, <3>3 DEF Supplied
  <2>. QED BY <1>3, <2>1, <2>2, <2>3 DEF Supplied
<1>. QED BY <1>7, <1>9, <1>12, <1>13 DEF TInv

(* The layers are over; what was captured is run.                          *)
LEMMA EndLayersTyped ==
    ASSUME DInv, TInv, EndLayers
    PROVE  TInv'
<1>. DEFINE w == Behind
            d == -1
<1>1. /\ step = "next" /\ todo = <<>> /\ step' = "replay" /\ capturing' = FALSE /\ recorded' = <<>>
      /\ hidden' = HiddenAfter(model, hidden)
      /\ IF capturing THEN graph' = recorded /\ Enqueue(recorded) ELSE UNCHANGED <<graph, queue>>
      /\ UNCHANGED <<model, sampler, prompt, chunk, mem, rows, host, position, todo, answer>>
  BY DEF EndLayers, chosen
<1>2. Behind' = Behind /\ (Chunked' <=> Chunked)
  BY <1>1 DEF Behind, Chunked
<1>3. Situated'
  <2>1. Situated
    BY DEF TInv
  <2>2. hidden' \in {"bufA", "bufB"}
    <3>1. hidden \in {"bufA", "bufB"}
      BY <2>1 DEF Situated
    <3>2. model \in Seq(LayerType)
      BY DEF DInv, Placed
    <3>. QED BY <1>1, <3>1, <3>2, HiddenAfterIs
  <2>. QED BY <1>1, <1>2, <2>1, <2>2 DEF Situated
<1>4. Held'
  BY <1>1, <1>2 DEF TInv, Held, Fed
<1>5. /\ \A s \in Streams : Within(queue[s], w, d)
      /\ Within(todo, w, d) /\ Within(recorded, w, d) /\ Within(graph, w, d) /\ Within(<<>>, w, d)
  BY WithinNone DEF TInv, Fitting
<1>6. capturing => \A s \in Streams : queue'[s] = queue[s] \o OfStream(recorded, s)
  BY <1>1 DEF Enqueue, Streams
<1>7. \A s \in Streams : Within(queue[s] \o OfStream(recorded, s), w, d)
  <2>. HIDE DEF w, d
  <2>. QED BY <1>5, WithinStream, WithinConcat
<1>8. Fitting'
  <2>1. \A s \in Streams : Within(queue'[s], w, d)
    <3>. HIDE DEF w, d
    <3>. QED BY <1>1, <1>5, <1>6, <1>7
  <2>2. Within(graph', w, d) /\ Within(recorded', w, d) /\ Within(todo', w, d)
    <3>. HIDE DEF w, d
    <3>. QED BY <1>1, <1>5
  <2>. QED BY <1>2, <2>1, <2>2 DEF Fitting
<1>9. Supplied'
  <2>. SUFFICES ASSUME Chunked PROVE Supplied'
    BY <1>2 DEF Supplied
  <2>1. CASE Fed \in DOMAIN mem
    BY <1>1, <2>1 DEF Supplied, Fed
  <2>2. CASE queue["compute"] # <<>> /\ Head(queue["compute"]).out = Fed
    <3>1. CASE ~capturing
      BY <1>1, <2>2, <3>1 DEF Supplied, Fed
    <3>2. CASE capturing
      <4>. DEFINE a == queue["compute"]
                  b == OfStream(recorded, "compute")
      <4>1. Within(a, w, d)
        BY <1>5 DEF Streams
      <4>2. Within(b, w, d)
        <5>. HIDE DEF w, d
        <5>. QED BY <1>5, WithinStream
      <4>3. queue'["compute"] = a \o b
        BY <1>6, <3>2 DEF Streams
      <4>. HIDE DEF a, b, w, d
      <4>4. a # <<>> /\ Head(a).out = Fed
        BY <2>2 DEF a
      <4>5. a \o b # <<>> /\ Head(a \o b) = Head(a)
        BY <4>1, <4>2, <4>4, HeadKept
      <4>. QED BY <4>3, <4>4, <4>5 DEF Supplied, Fed
    <3>. QED BY <3>1, <3>2
  <2>. QED BY <1>1, <2>1, <2>2 DEF TInv, Supplied
<1>. QED BY <1>3, <1>4, <1>8, <1>9 DEF TInv

(* Nothing has begun.                                                      *)
LEMMA InitTyped == Init => TInv
<1>. SUFFICES ASSUME Init PROVE TInv
  OBVIOUS
<1>1. PICK r \in Requests : model = r.model /\ sampler = r.sampler /\ prompt = r.prompt /\ chunk = r.chunk
  BY DEF Init
<1>2. r \in [model : Seq(LayerType), sampler : {"greedy", "gpu", "host"}, prompt : 1 .. Context, chunk : Nat \ {0}]
  BY DecodeAssumption
<1>3. r = [model |-> model, sampler |-> sampler, prompt |-> prompt, chunk |-> chunk]
  BY <1>1, <1>2
<1>4. Situated
  BY <1>3, DecodeAssumption DEF Init, Situated
<1>5. Held
  <2>1. None \in Values
    BY DecodeAssumption DEF None, Values, Forms
  <2>. QED BY <2>1 DEF Init, Held
<1>6. Fitting
  <2>. DEFINE w == Behind
              d == -1
  <2>1. Within(<<>>, w, d)
    BY WithinNone
  <2>. HIDE DEF w, d
  <2>2. (\A s \in Streams : Within(queue[s], w, d)) /\ Within(todo, w, d) /\ Within(recorded, w, d) /\ Within(graph, w, d)
    BY <2>1 DEF Init, Streams
  <2>. QED BY <2>2 DEF Fitting, w, d
<1>7. Supplied
  BY DEF Init, Supplied
<1>. QED BY <1>4, <1>5, <1>6, <1>7 DEF TInv

(* The sharpened invariant implies the types.                              *)
LEMMA TInvTypes ==
    ASSUME DInv, TInv
    PROVE  TypeOK
<1>1. PICK M : Queued(M) /\ Ordered(M) /\ CopiesKnown(M)
  BY DEF DInv
<1>2. PICK S : M \in Seq(S)
  BY <1>1, SoundIsProgram DEF Ordered, Program
<1>3. DOMAIN queue = {"compute", "transfer"}
  BY <1>1 DEF Queued
<1>4. ASSUME NEW s \in DOMAIN queue, NEW i \in DOMAIN queue[s] PROVE queue[s][i].stream \in {"compute", "transfer"}
  <2>. DEFINE T == {M[j] : j \in DOMAIN M}
  <2>1. M \in Seq(T)
    BY <1>2
  <2>2. \A x \in T : x.stream \in Streams
    BY <1>1 DEF Queued, OnDevice
  <2>. HIDE DEF T
  <2>3. queue[s] = OfStream(M, s)
    BY <1>1, <1>3 DEF Queued
  <2>4. queue[s] \in Seq(T)
    BY <2>1, <2>3, StreamIs
  <2>5. queue[s][i] \in T
    BY <2>4
  <2>. QED BY <2>2, <2>5 DEF Streams
<1>5. Situated /\ Held /\ capturing \in BOOLEAN
  BY DEF TInv, DInv, Placed
<1>. QED BY <1>3, <1>4, <1>5 DEF TypeOK, Situated, Held

-----------------------------------------------------------------------------
(* Whatever is in memory is a quantity of the network, at a position of    *)
(* the context, and rows are stored within the context: also by a chunk,   *)
(* which the device tells where (prefill_prompt_chunked).                  *)
THEOREM TypeInvariant == Spec => [](DInv /\ TInv)
<1>1. ASSUME DInv, TInv, [Next]_vars PROVE TInv'
  <2>1. CASE UNCHANGED vars
    <3>1. UNCHANGED <<model, sampler, prompt, chunk, mem, rows, queue, fired, host, hidden, capturing, recorded, graph,
                      position, todo, step, answer>>
      BY <2>1 DEF vars
    <3>2. Behind' = Behind /\ (Chunked' <=> Chunked)
      BY <3>1 DEF Behind, Chunked
    <3>3. Situated' /\ Held' /\ Fitting' /\ Supplied'
      BY <1>1, <3>1, <3>2 DEF TInv, Situated, Held, Fitting, Supplied, Fed
    <3>. QED BY <3>3 DEF TInv
  <2>2. CASE Issue
    BY <1>1, <2>2, IssueTyped
  <2>3. CASE Fail \/ Refuse \/ Return
    BY <1>1, <2>3, EndTyped
  <2>4. CASE HostReads \/ HostWaits \/ HostExperts
    BY <1>1, <2>4, TailTyped
  <2>5. CASE HiddenDone \/ ChunkDone \/ PrefillPrompt
    BY <1>1, <2>5, DoneTyped
  <2>6. CASE ForwardHidden \/ BeginChunk \/ SampleFirst \/ ForwardNextToken \/ BeginLayers \/ AfterReplay
    BY <1>1, <2>6, BeginTyped
  <2>7. CASE EndLayers
    BY <1>1, <2>7, EndLayersTyped
  <2>8. CASE Compute \/ Transfer
    <3>1. Execute("compute") \/ Execute("transfer")
      BY <2>8 DEF Compute, Transfer
    <3>2. "compute" \in Streams /\ "transfer" \in Streams
      BY DEF Streams
    <3>. QED BY <1>1, <3>1, <3>2, ExecuteTyped
  <2>. QED BY <1>1, <2>1, <2>2, <2>3, <2>4, <2>5, <2>6, <2>7, <2>8, Zenon DEF Next, Host
<1>. QED BY InitTyped, <1>1, DecodeInvariant, PTL DEF Spec

(* The types of the state.                                                 *)
THEOREM TypeCorrect == Spec => []TypeOK
BY TypeInvariant, TInvTypes, PTL
=============================================================================
