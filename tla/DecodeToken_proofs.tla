-------------------------- MODULE DecodeToken_proofs --------------------------
(***************************************************************************)
(* For every model whose operations are all of the compute stream, every   *)
(* prompt that is run token by token, every sampler and every context, a   *)
(* call of DecodeStep returns the token of its own step (TokenCorrect).    *)
(*                                                                         *)
(* A device is a record of its buffers and its caches.  Leads(d, ops, e):  *)
(* from d each operation of ops finds its inputs, and e is what they leave.*)
(* One operation after another, for each operator of DecodeProgram,        *)
(* Turns(l, p, A, ops, B): where the facts A hold the program ops, run for *)
(* position p, leads to the facts B, and has changed nothing but scratch   *)
(* and the states of layer l.  A program says where a fact is found and    *)
(* where it is left, not when, so that the same lemma holds of an eager    *)
(* step and of the replay of a graph that was captured at another position.*)
(*                                                                         *)
(* A layer adds a row to its cache and moves its states from one position  *)
(* to the next (KeepsOf); what the layers keep between two steps is        *)
(* Settled, and half way through the layers Through.  By induction on the  *)
(* number of layers a step leads from Settled at its position to Settled at*)
(* the next, with its logits and its token in their buffers.               *)
(*                                                                         *)
(* VInv puts the device back into the request: whatever has been executed, *)
(* the rest of the queue and what the host has yet to issue lead to the end*)
(* of the step (Course), and a graph is that of a step at some position.   *)
(***************************************************************************)
EXTENDS DecodeStep_proofs

-----------------------------------------------------------------------------
(* What a program does to the memory of the device when all goes well.     *)

(* A device is a record of its buffers and its caches.                     *)
Cell(d, b)     == IF b \in DOMAIN d.mem THEN d.mem[b] ELSE None
RowIn(d, b, r) == IF b \in DOMAIN d.rows /\ r \in DOMAIN d.rows[b] THEN d.rows[b][r] ELSE None
Stored(d, b, v) == [mem |-> Written(d.mem, b, v), rows |-> d.rows]
AddRow(d, b, r, v) == [mem |-> d.mem, rows |-> PutRows(d.rows, b, [i \in {r} |-> v])]

(* v is what the input w takes its buffer to hold at position p.           *)
Meets(v, w, p) ==
    IF w.name = "zero" THEN w.back = 0 /\ v.name = "zero"
    ELSE IF w.back > 0 /\ p < w.back THEN v = None
    ELSE v = Val(w.name, w.form, w.layer, w.slot, p - w.back)

(* An operation of the compute stream that finds its inputs, and what it   *)
(* leaves.                                                                 *)
Anchored(op) == \E w \in op.in : w.back = 0 /\ w.name # "zero"
Yields(d, op, p, e) ==
    \/ /\ op.kind = "kernel" /\ Anchored(op)
       /\ e = Stored(d, op.out, Val(op.name, op.form, op.layer, op.slot, p))
    \/ /\ op.kind = "put" /\ op.in = {} /\ op.at = p
       /\ e = Stored(d, op.out, Val(op.name, op.form, op.layer, op.slot, p))
    \/ /\ op.kind = "zero" /\ \A w \in op.in : w.name = "zero"
       /\ e = Stored(d, op.out, Val("zero", "f32", 0, 0, 0))
    \/ /\ op.kind = "attend" /\ Anchored(op) /\ (p < GraphMax \/ p < op.at)
       /\ \A r \in 0 .. p : RowIn(d, op.id, r) = Val("kv", "f32", op.slot, 0, r)
       /\ e = Stored(d, op.out, Val(op.name, op.form, op.layer, 0, p))
    \/ /\ op.kind = "store" /\ Anchored(op) /\ op.slot = 0
       /\ \E w \in op.in : w.name = "position"
       /\ \A w \in op.in : w.name = "position" => w.back = 0
       /\ e = AddRow(d, op.out, p, Val(op.name, "f32", op.layer, 0, p))
Gives(d, op, e) ==
    /\ op.stream = "compute" /\ op.host = {} /\ op.name # "junk"
    /\ \E p \in Nat : Yields(d, op, p, e) /\ \A w \in op.in : Meets(Cell(d, w.buf), w, p)

(* From d a program of such operations ends with e.                        *)
Leads(d, ops, e) ==
    /\ \E S : ops \in Seq(S)
    /\ \E f : f[0] = d /\ f[Len(ops)] = e /\ \A i \in 1 .. Len(ops) : Gives(f[i - 1], ops[i], f[i])

(* The empty program.                                                      *)
LEMMA LeadsNone ==
    ASSUME NEW d
    PROVE  Leads(d, <<>>, d)
<1>. DEFINE f == [i \in {0} |-> d]
<1>1. <<>> \in Seq({}) /\ Len(<<>>) = 0 /\ f[0] = d
  OBVIOUS
<1>2. \A i \in 1 .. 0 : Gives(f[i - 1], <<>>[i], f[i])
  OBVIOUS
<1>. QED BY <1>1, <1>2 DEF Leads

(* One operation.                                                          *)
LEMMA LeadsOne ==
    ASSUME NEW d, NEW op, NEW e, Gives(d, op, e)
    PROVE  Leads(d, <<op>>, e)
<1>. DEFINE f == [i \in {0, 1} |-> IF i = 0 THEN d ELSE e]
            ops == <<op>>
<1>1. ops \in Seq({op}) /\ Len(ops) = 1 /\ f[0] = d /\ f[1] = e /\ ops[1] = op
  OBVIOUS
<1>2. \A i \in 1 .. 1 : Gives(f[i - 1], ops[i], f[i])
  <2>1. SUFFICES Gives(f[0], ops[1], f[1])
    OBVIOUS
  <2>. HIDE DEF f, ops
  <2>. QED BY <1>1
<1>3. Leads(d, ops, e)
  <2>. HIDE DEF f, ops
  <2>. QED BY <1>1, <1>2 DEF Leads
<1>. QED BY <1>3

(* One program after the other.                                            *)
LEMMA LeadsConcat ==
    ASSUME NEW c, NEW a, NEW d, NEW b, NEW e, Leads(c, a, d), Leads(d, b, e)
    PROVE  Leads(c, a \o b, e)
<1>1. PICK S : a \in Seq(S)
  BY DEF Leads
<1>2. PICK T : b \in Seq(T)
  BY DEF Leads
<1>. DEFINE m == Len(a)
            n == Len(b)
<1>3. PICK f : f[0] = c /\ f[m] = d /\ \A i \in 1 .. m : Gives(f[i - 1], a[i], f[i])
  BY DEF Leads
<1>4. PICK g : g[0] = d /\ g[n] = e /\ \A i \in 1 .. n : Gives(g[i - 1], b[i], g[i])
  BY DEF Leads
<1>5. a \in Seq(S \cup T) /\ b \in Seq(S \cup T) /\ m \in Nat /\ n \in Nat
  BY <1>1, <1>2, SeqMonotonic
<1>6. a \o b \in Seq(S \cup T) /\ Len(a \o b) = m + n
      /\ \A i \in 1 .. m + n : (a \o b)[i] = IF i <= m THEN a[i] ELSE b[i - m]
  BY <1>5, ConcatProperties
<1>. DEFINE h == [i \in 0 .. m + n |-> IF i <= m THEN f[i] ELSE g[i - m]]
            ab == a \o b
<1>7. \A i \in 0 .. m + n : h[i] = IF i <= m THEN f[i] ELSE g[i - m]
  OBVIOUS
<1>. HIDE DEF h, m, n, ab
<1>8. h[0] = c /\ h[m + n] = e
  <2>0. m \in Nat /\ n \in Nat
    BY <1>5
  <2>1. 0 \in 0 .. m + n /\ m + n \in 0 .. m + n /\ 0 <= m
    BY <2>0
  <2>2. h[0] = f[0] /\ h[m + n] = IF m + n <= m THEN f[m + n] ELSE g[m + n - m]
    BY <2>0, <2>1, <1>7
  <2>3. CASE n = 0
    <3>1. m + n = m /\ m + n <= m
      BY <2>3, <1>5
    <3>. QED BY <3>1, <2>2, <2>3, <1>3, <1>4
  <2>4. CASE n # 0
    <3>1. ~(m + n <= m) /\ m + n - m = n
      BY <2>4, <1>5
    <3>. QED BY <3>1, <2>2, <1>3, <1>4
  <2>. QED BY <2>3, <2>4
<1>9. ASSUME NEW i \in 1 .. m + n PROVE Gives(h[i - 1], ab[i], h[i])
  <2>1. CASE i <= m
    <3>1. h[i] = f[i] /\ h[i - 1] = f[i - 1] /\ ab[i] = a[i] /\ i \in 1 .. m
      BY <2>1, <1>5, <1>6, <1>7 DEF ab
    <3>. QED BY <3>1, <1>3
  <2>2. CASE ~(i <= m)
    <3>. DEFINE j == i - m
    <3>1. h[i] = g[j] /\ ab[i] = b[j] /\ j \in 1 .. n
      BY <2>2, <1>5, <1>6, <1>7 DEF ab
    <3>2. h[i - 1] = g[j - 1]
      <4>1. CASE i - 1 <= m
        <5>1. i - 1 = m /\ j - 1 = 0 /\ h[i - 1] = f[m]
          BY <4>1, <2>2, <1>5, <1>7
        <5>. QED BY <5>1, <1>3, <1>4
      <4>2. CASE ~(i - 1 <= m)
        <5>1. i - 1 \in 0 .. m + n /\ i - 1 - m = j - 1
          BY <1>5
        <5>. QED BY <5>1, <4>2, <1>7
      <4>. QED BY <4>1, <4>2
    <3>. HIDE DEF j
    <3>. QED BY <3>1, <3>2, <1>4
  <2>. QED BY <2>1, <2>2
<1>. QED BY <1>6, <1>8, <1>9 DEF Leads, ab

(* The first operation of a program, and the rest.                         *)
LEMMA LeadsHead ==
    ASSUME NEW d, NEW ops, NEW e, Leads(d, ops, e), ops # <<>>
    PROVE  /\ \E c : Gives(d, Head(ops), c) /\ Leads(c, Tail(ops), e)
           /\ Head(ops) = ops[1] /\ 1 \in DOMAIN ops
<1>1. PICK S : ops \in Seq(S)
  BY DEF Leads
<1>. DEFINE n == Len(ops)
            t == Tail(ops)
<1>2. PICK f : f[0] = d /\ f[n] = e /\ \A i \in 1 .. n : Gives(f[i - 1], ops[i], f[i])
  BY DEF Leads
<1>3. n \in Nat \ {0} /\ Head(ops) = ops[1] /\ t \in Seq(S) /\ Len(t) = n - 1 /\ \A i \in 1 .. n - 1 : t[i] = ops[i + 1]
      /\ 1 \in DOMAIN ops
  BY <1>1, HeadTailProperties
<1>. DEFINE g == [i \in 0 .. n - 1 |-> f[i + 1]]
<1>4. \A i \in 0 .. n - 1 : g[i] = f[i + 1]
  OBVIOUS
<1>. HIDE DEF g, n, t
<1>5. Gives(d, Head(ops), f[1])
  <2>1. 1 \in 1 .. n /\ 1 - 1 = 0
    BY <1>3
  <2>. QED BY <2>1, <1>2, <1>3
<1>6. g[0] = f[1] /\ g[n - 1] = e
  BY <1>2, <1>3, <1>4
<1>7. ASSUME NEW i \in 1 .. n - 1 PROVE Gives(g[i - 1], t[i], g[i])
  <2>. DEFINE j == i + 1
  <2>1. j \in 1 .. n /\ j - 1 = i /\ g[i] = f[j] /\ g[i - 1] = f[j - 1] /\ t[i] = ops[j]
    BY <1>3, <1>4
  <2>. HIDE DEF j
  <2>. QED BY <2>1, <1>2
<1>8. Leads(f[1], t, e)
  BY <1>3, <1>6, <1>7 DEF Leads
<1>. QED BY <1>3, <1>5, <1>8 DEF t

-----------------------------------------------------------------------------
(* Facts about the memory, and how programs change them.                   *)

(* What a program of layer l may write: scratch, but not what all layers   *)
(* read (Lasting), and the states of the layer.  What all layers read is   *)
(* written outside of them, l = 0.  A program that writes only scratch is  *)
(* one of layer -1: of no layer.                                           *)
Buffers == {"bufA", "bufB"}
Lasting == {"decode_position", "decode_seq_len", "per_layer_inputs"}
Free(l, b, j) ==
    \/ j = 0 /\ (l = 0 \/ b \notin Lasting)
    \/ j = l /\ b \in {"conv_state", "recurrent"}

(* A fact is a buffer (its name, and its layer or 0) and a value: the      *)
(* quantity of a layer at position p, of the slot k and in a form; of slot *)
(* 0 and not encoded; zero; and a state that is carried over, after c      *)
(* positions.                                                              *)
In(l, k, p, b, n, f) == <<b, 0, Val(n, f, l, k, p)>>
Now(l, p, b, n)      == In(l, 0, p, b, n, "f32")
Zeroed(b)            == <<b, 0, Val("zero", "f32", 0, 0, 0)>>
Carries(l, c, b)     == <<b, l, IF c = 0 THEN None ELSE Val(b, "f32", l, 0, c - 1)>>

Holds(d, A)   == \A a \in A : Cell(d, <<a[1], a[2]>>) = a[3]
Kept(d, e, l) == e.rows = d.rows /\ \A b, j : ~Free(l, b, j) => Cell(e, <<b, j>>) = Cell(d, <<b, j>>)

(* Where A holds the program runs, for position p, B holds after it, and   *)
(* the rest is what it was.                                                *)
Turns(l, p, A, ops, B) ==
    \A d : Holds(d, A) => \E e : Leads(d, ops, e) /\ Holds(e, B) /\ Kept(d, e, l)

(* The buffer of a fact.                                                   *)
LEMMA FactOn ==
    /\ \A l, k, p, b, n, f : In(l, k, p, b, n, f)[1] = b
    /\ \A l, p, b, n : Now(l, p, b, n)[1] = b
    /\ \A b : Zeroed(b)[1] = b
    /\ \A l, c, b : Carries(l, c, b)[1] = b
BY DEF In, Now, Zeroed, Carries

(* One operation that stores a value.                                      *)
LEMMA StoredTurns ==
    ASSUME NEW l, NEW p, NEW A, NEW op, NEW b, NEW j, NEW v, NEW B, Free(l, b, j),
           \A d : Holds(d, A) => Gives(d, op, Stored(d, <<b, j>>, v)),
           \A x \in B : (x \in A /\ x[1] # b) \/ x = <<b, j, v>>
    PROVE  Turns(l, p, A, <<op>>, B)
<1>. SUFFICES ASSUME NEW d, Holds(d, A)
              PROVE  \E e : Leads(d, <<op>>, e) /\ Holds(e, B) /\ Kept(d, e, l)
  BY DEF Turns
<1>. DEFINE e == Stored(d, <<b, j>>, v)
<1>1. Leads(d, <<op>>, e)
  BY LeadsOne
<1>2. \A c : Cell(e, c) = IF c = <<b, j>> THEN v ELSE Cell(d, c)
  BY DEF Cell, Stored, Written
<1>3. e.rows = d.rows
  BY DEF Stored
<1>. HIDE DEF e
<1>4. ASSUME NEW x \in B PROVE Cell(e, <<x[1], x[2]>>) = x[3]
  <2>1. CASE x = <<b, j, v>>
    BY <1>2, <2>1
  <2>2. CASE x \in A /\ x[1] # b
    BY <1>2, <2>2 DEF Holds
  <2>. QED BY <2>1, <2>2
<1>5. Holds(e, B)
  BY <1>4 DEF Holds
<1>6. Kept(d, e, l)
  BY <1>2, <1>3 DEF Kept
<1>. QED BY <1>1, <1>5, <1>6

(* An input that a fact grants.                                            *)
Granted(A, w, p) == \E x \in A : w.buf = <<x[1], x[2]>> /\ Meets(x[3], w, p)

(* What a kernel does apart from its inputs.                               *)
IsKernel(op, b, j, v, p) ==
    /\ op.kind = "kernel" /\ op.stream = "compute" /\ op.host = {} /\ op.name # "junk" /\ Anchored(op)
    /\ op.out = <<b, j>> /\ v = Val(op.name, op.form, op.layer, op.slot, p)

(* A kernel whose inputs are among the facts.                              *)
LEMMA KernelTurns ==
    ASSUME NEW l, NEW p \in Nat, NEW A, NEW op, NEW B, NEW b, NEW j, NEW v,
           IsKernel(op, b, j, v, p), \A w \in op.in : Granted(A, w, p), Free(l, b, j),
           \A x \in B : (x \in A /\ x[1] # b) \/ x = <<b, j, v>>
    PROVE  Turns(l, p, A, <<op>>, B)
<1>1. ASSUME NEW d, Holds(d, A) PROVE Gives(d, op, Stored(d, <<b, j>>, v))
  <2>1. ASSUME NEW w \in op.in PROVE Meets(Cell(d, w.buf), w, p)
    <3>1. PICK x \in A : w.buf = <<x[1], x[2]>> /\ Meets(x[3], w, p)
      BY DEF Granted
    <3>2. Cell(d, w.buf) = x[3]
      BY <1>1, <3>1 DEF Holds
    <3>. QED BY <3>1, <3>2
  <2>. DEFINE e == Stored(d, <<b, j>>, v)
  <2>2. op.kind = "kernel" /\ Anchored(op) /\ e = Stored(d, op.out, Val(op.name, op.form, op.layer, op.slot, p))
    BY DEF IsKernel
  <2>. HIDE DEF e
  <2>3. Yields(d, op, p, e)
    BY <2>2 DEF Yields
  <2>4. Gives(d, op, e)
    BY <2>1, <2>3 DEF Gives, IsKernel
  <2>. QED BY <2>4 DEF e
<1>. QED BY ONLY <1>1, StoredTurns, Free(l, b, j), \A x \in B : (x \in A /\ x[1] # b) \/ x = <<b, j, v>>, Zenon

(* An input that is a fact.                                                *)
LEMMA WantGranted ==
    ASSUME NEW A, NEW p \in Nat, NEW l, NEW k, NEW b, NEW n, NEW f, n # "zero", In(l, k, p, b, n, f) \in A
    PROVE  Granted(A, Want(b, n, f, l, k), p)
<1>. DEFINE w == Want(b, n, f, l, k)
            x == In(l, k, p, b, n, f)
<1>1. w.back = 0 /\ w.name = n /\ w.buf = <<b, 0>> /\ w.form = f /\ w.layer = l /\ w.slot = k /\ p - 0 = p
  BY DEF Want
<1>2. x \in A /\ x[1] = b /\ x[2] = 0 /\ x[3] = Val(n, f, l, k, p)
  BY DEF In
<1>. HIDE DEF w, x
<1>3. Meets(x[3], w, p)
  BY <1>1, <1>2 DEF Meets
<1>4. Granted(A, w, p)
  BY <1>1, <1>2, <1>3 DEF Granted
<1>. QED BY <1>4 DEF w

(* Inputs that are of layer l, of slot k.                                  *)
From0(A, l, k, p, in) == \A i \in in : i[2] # "zero" /\ In(l, k, p, i[1], i[2], "f32") \in A

(* A kernel of layer l.                                                    *)
LEMMA KSTurns ==
    ASSUME NEW z, NEW l, NEW p \in Nat, NEW A, NEW B, NEW k, NEW out, NEW n, NEW in,
           in # {}, n # "junk", z = 0 \/ out \notin Lasting, From0(A, l, k, p, in),
           \A x \in B : (x \in A /\ x[1] # out) \/ x = In(l, k, p, out, n, "f32")
    PROVE  Turns(z, p, A, <<KS(l, k, out, n, in)>>, B)
<1>. DEFINE W(i) == Want(i[1], i[2], "f32", l, k)
            op == Op("kernel", "compute", out, n, "f32", l, k, {W(i) : i \in in})
            v == Val(n, "f32", l, k, p)
<1>1. /\ op.kind = "kernel" /\ op.stream = "compute" /\ op.host = {} /\ op.name = n /\ op.out = <<out, 0>>
      /\ op.in = {W(i) : i \in in} /\ op.form = "f32" /\ op.layer = l /\ op.slot = k
  BY DEF Op
<1>2. ASSUME NEW i \in in PROVE Granted(A, W(i), p) /\ W(i).back = 0 /\ W(i).name # "zero"
  <2>. DEFINE b == i[1]
              a == i[2]
  <2>1. a # "zero" /\ In(l, k, p, b, a, "f32") \in A
    BY DEF From0
  <2>. HIDE DEF a, b
  <2>2. Granted(A, Want(b, a, "f32", l, k), p)
    BY <2>1, WantGranted
  <2>3. Want(b, a, "f32", l, k).back = 0 /\ Want(b, a, "f32", l, k).name # "zero"
    BY <2>1 DEF Want
  <2>. QED BY <2>2, <2>3 DEF a, b
<1>3. KS(l, k, out, n, in) = op
  BY DEF KS
<1>. HIDE DEF W, op
<1>4. Anchored(op)
  <2>1. PICK i \in in : TRUE
    OBVIOUS
  <2>. QED BY <1>1, <1>2, <2>1 DEF Anchored
<1>5. \A w \in op.in : Granted(A, w, p)
  BY <1>1, <1>2
<1>6. IsKernel(op, out, 0, v, p)
  BY <1>1, <1>4 DEF IsKernel
<1>. HIDE DEF v
<1>7. Free(z, out, 0)
  BY DEF Free
<1>8. \A x \in B : (x \in A /\ x[1] # out) \/ x = <<out, 0, v>>
  BY DEF In, v
<1>9. Turns(z, p, A, <<op>>, B)
  BY <1>5, <1>6, <1>7, <1>8, KernelTurns
<1>. QED BY <1>3, <1>9

(* The same for slot 0.                                                    *)
LEMMA KTurns ==
    ASSUME NEW z, NEW l, NEW p \in Nat, NEW A, NEW B, NEW out, NEW n, NEW in,
           in # {}, n # "junk", z = 0 \/ out \notin Lasting,
           \A i \in in : i[2] # "zero" /\ Now(l, p, i[1], i[2]) \in A,
           \A x \in B : (x \in A /\ x[1] # out) \/ x = Now(l, p, out, n)
    PROVE  Turns(z, p, A, <<K(l, out, n, in)>>, B)
<1>1. K(l, out, n, in) = KS(l, 0, out, n, in)
  BY DEF K, KS
<1>2. From0(A, l, 0, p, in)
  BY DEF From0, Now
<1>3. \A x \in B : (x \in A /\ x[1] # out) \/ x = In(l, 0, p, out, n, "f32")
  BY DEF Now
<1>. QED BY <1>1, <1>2, <1>3, KSTurns

(* A kernel with one input of any form.                                    *)
LEMMA OneTurns ==
    ASSUME NEW z, NEW l, NEW p \in Nat, NEW A, NEW B, NEW b, NEW bn, NEW g, NEW j, NEW i, NEW out, NEW n, NEW f, NEW q, NEW k,
           bn # "zero", n # "junk", z = 0 \/ out \notin Lasting, In(j, i, p, b, bn, g) \in A,
           \A x \in B : (x \in A /\ x[1] # out) \/ x = In(q, k, p, out, n, f)
    PROVE  Turns(z, p, A, <<Op("kernel", "compute", out, n, f, q, k, {Want(b, bn, g, j, i)})>>, B)
<1>. DEFINE w == Want(b, bn, g, j, i)
            op == Op("kernel", "compute", out, n, f, q, k, {w})
            v == Val(n, f, q, k, p)
<1>1. /\ op.kind = "kernel" /\ op.stream = "compute" /\ op.host = {} /\ op.name = n /\ op.out = <<out, 0>>
      /\ op.in = {w} /\ op.form = f /\ op.layer = q /\ op.slot = k
  BY DEF Op
<1>2. w.back = 0 /\ w.name # "zero"
  BY DEF Want
<1>3. Granted(A, w, p)
  BY WantGranted
<1>. HIDE DEF w, op
<1>4. Anchored(op) /\ \A u \in op.in : Granted(A, u, p)
  BY <1>1, <1>2, <1>3 DEF Anchored
<1>5. IsKernel(op, out, 0, v, p)
  BY <1>1, <1>4 DEF IsKernel
<1>. HIDE DEF v
<1>6. Free(z, out, 0)
  BY DEF Free
<1>7. \A x \in B : (x \in A /\ x[1] # out) \/ x = <<out, 0, v>>
  BY DEF In, v
<1>8. Turns(z, p, A, <<op>>, B)
  BY <1>4, <1>5, <1>6, <1>7, KernelTurns
<1>. QED BY <1>8 DEF op, w

(* One program after the other, between what holds.                        *)
LEMMA TurnsConcat ==
    ASSUME NEW l, NEW p, NEW A, NEW a, NEW B, NEW b, NEW C, Turns(l, p, A, a, B), Turns(l, p, B, b, C)
    PROVE  Turns(l, p, A, a \o b, C)
<1>. SUFFICES ASSUME NEW c, Holds(c, A)
              PROVE  \E e : Leads(c, a \o b, e) /\ Holds(e, C) /\ Kept(c, e, l)
  BY DEF Turns
<1>1. PICK d : Leads(c, a, d) /\ Holds(d, B) /\ Kept(c, d, l)
  BY DEF Turns
<1>2. PICK e : Leads(d, b, e) /\ Holds(e, C) /\ Kept(d, e, l)
  BY <1>1 DEF Turns
<1>3. Leads(c, a \o b, e)
  BY <1>1, <1>2, LeadsConcat
<1>4. Kept(c, e, l)
  BY <1>1, <1>2 DEF Kept
<1>. QED BY <1>2, <1>3, <1>4

(* Two operations, three, four.                                            *)
LEMMA TurnsTwo ==
    ASSUME NEW l, NEW p, NEW A, NEW a, NEW B, NEW b, NEW C, Turns(l, p, A, <<a>>, B), Turns(l, p, B, <<b>>, C)
    PROVE  Turns(l, p, A, <<a, b>>, C)
<1>1. <<a, b>> = <<a>> \o <<b>>
  OBVIOUS
<1>2. Turns(l, p, A, <<a>> \o <<b>>, C)
  BY TurnsConcat
<1>. QED BY <1>1, <1>2

(* The same for three.                                                     *)
LEMMA TurnsThree ==
    ASSUME NEW l, NEW p, NEW A, NEW a, NEW B, NEW b, NEW C, NEW c, NEW D,
           Turns(l, p, A, <<a>>, B), Turns(l, p, B, <<b>>, C), Turns(l, p, C, <<c>>, D)
    PROVE  Turns(l, p, A, <<a, b, c>>, D)
<1>1. <<a, b, c>> = <<a, b>> \o <<c>>
  OBVIOUS
<1>2. Turns(l, p, A, <<a, b>>, C)
  BY TurnsTwo
<1>3. Turns(l, p, A, <<a, b>> \o <<c>>, D)
  BY <1>2, TurnsConcat
<1>. QED BY <1>1, <1>3

(* The same for four.                                                      *)
LEMMA TurnsFour ==
    ASSUME NEW l, NEW p, NEW A, NEW a, NEW B, NEW b, NEW C, NEW c, NEW D, NEW d, NEW E,
           Turns(l, p, A, <<a>>, B), Turns(l, p, B, <<b>>, C), Turns(l, p, C, <<c>>, D), Turns(l, p, D, <<d>>, E)
    PROVE  Turns(l, p, A, <<a, b, c, d>>, E)
<1>1. <<a, b, c, d>> = <<a, b, c>> \o <<d>>
  OBVIOUS
<1>2. Turns(l, p, A, <<a, b, c>>, D)
  BY TurnsThree
<1>3. Turns(l, p, A, <<a, b, c>> \o <<d>>, E)
  BY <1>2, TurnsConcat
<1>. QED BY <1>1, <1>3

(* More may be asked for, and less given.                                  *)
LEMMA TurnsWeaker ==
    ASSUME NEW l, NEW p, NEW A, NEW ops, NEW B, NEW C, NEW D, Turns(l, p, A, ops, B), A \subseteq C, D \subseteq B
    PROVE  Turns(l, p, C, ops, D)
BY DEF Turns, Holds

(* Nothing is done.                                                        *)
LEMMA TurnsNone ==
    ASSUME NEW l, NEW p, NEW A, NEW B, B \subseteq A
    PROVE  Turns(l, p, A, <<>>, B)
<1>. SUFFICES ASSUME NEW d, Holds(d, A)
              PROVE  \E e : Leads(d, <<>>, e) /\ Holds(e, B) /\ Kept(d, e, l)
  BY DEF Turns
<1>1. Leads(d, <<>>, d) /\ Holds(d, B) /\ Kept(d, d, l)
  BY LeadsNone DEF Holds, Kept
<1>. QED BY <1>1

(* A program that is there under a condition.                              *)
LEMMA TurnsWhen ==
    ASSUME NEW l, NEW p, NEW A, NEW c, NEW ops, NEW B, c => Turns(l, p, A, ops, B), c \/ B \subseteq A
    PROVE  Turns(l, p, A, When(c, ops), B)
BY TurnsNone DEF When

-----------------------------------------------------------------------------
(* The operators of DecodeProgram, one by one.                             *)

(* An input quantised, then a kernel that reads it.                        *)
LEMMA QuantisedTurns ==
    ASSUME NEW z, NEW l, NEW k, NEW p \in Nat, NEW A, NEW B, NEW x, NEW xn, NEW q, NEW f, NEW out, NEW n,
           xn \notin {"zero", "junk"}, n # "junk", q \notin Lasting, out \notin Lasting,
           In(l, k, p, x, xn, "f32") \in A,
           \A y \in B : (y \in A /\ y[1] # q /\ y[1] # out) \/ y = In(l, k, p, out, n, "f32")
    PROVE  Turns(z, p, A, Quantise(l, k, x, xn, q, f)
                          \o <<Op("kernel", "compute", out, n, "f32", l, k, {Want(q, xn, f, l, k)})>>, B)
<1>. DEFINE C == {y \in A : y[1] # q} \cup {In(l, k, p, q, xn, f)}
<1>1. Turns(z, p, A, Quantise(l, k, x, xn, q, f), C)
  <2>1. \A y \in C : (y \in A /\ y[1] # q) \/ y = In(l, k, p, q, xn, f)
    OBVIOUS
  <2>. HIDE DEF C
  <2>. QED BY <2>1, OneTurns DEF Quantise
<1>2. In(l, k, p, q, xn, f) \in C
  OBVIOUS
<1>3. \A y \in B : (y \in C /\ y[1] # out) \/ y = In(l, k, p, out, n, "f32")
  OBVIOUS
<1>. HIDE DEF C
<1>4. Turns(z, p, C, <<Op("kernel", "compute", out, n, "f32", l, k, {Want(q, xn, f, l, k)})>>, B)
  BY <1>2, <1>3, OneTurns
<1>. QED BY <1>1, <1>4, TurnsConcat

(* A linear layer.                                                         *)
LEMMA MatvecTurns ==
    ASSUME NEW z, NEW l, NEW k, NEW p \in Nat, NEW A, NEW B, NEW fmt \in Formats, NEW x, NEW xn, NEW q, NEW mx,
           NEW out, NEW n,
           xn \notin {"zero", "junk"}, n # "junk", q \notin Lasting, mx \notin Lasting, out \notin Lasting,
           In(l, k, p, x, xn, "f32") \in A,
           \A y \in B : (y \in A /\ y[1] \notin {q, mx, "cutlass_payload", out}) \/ y = In(l, k, p, out, n, "f32")
    PROVE  Turns(z, p, A, Matvec(l, k, fmt, x, xn, q, mx, out, n), B)
<1>1. CASE fmt = "plain"
  <2>1. KS(l, k, out, n, {<<x, xn>>}) = Op("kernel", "compute", out, n, "f32", l, k, {Want(x, xn, "f32", l, k)})
    BY DEF KS
  <2>2. Turns(z, p, A, <<Op("kernel", "compute", out, n, "f32", l, k, {Want(x, xn, "f32", l, k)})>>, B)
    BY OneTurns
  <2>3. Matvec(l, k, fmt, x, xn, q, mx, out, n) = <<KS(l, k, out, n, {<<x, xn>>})>>
    BY <1>1 DEF Matvec
  <2>. QED BY <2>1, <2>2, <2>3
<1>2. CASE fmt = "native"
  <2>1. Turns(z, p, A, Quantise(l, k, x, xn, mx, "mxfp4")
                       \o <<Op("kernel", "compute", out, n, "f32", l, k, {Want(mx, xn, "mxfp4", l, k)})>>, B)
    BY QuantisedTurns
  <2>. QED BY <1>2, <2>1 DEF Matvec
<1>3. CASE fmt = "cutlass"
  <2>1. "cutlass_payload" \notin Lasting
    BY DEF Lasting
  <2>2. Turns(z, p, A, Quantise(l, k, x, xn, "cutlass_payload", "cutlass")
                       \o <<Op("kernel", "compute", out, n, "f32", l, k, {Want("cutlass_payload", xn, "cutlass", l, k)})>>, B)
    BY <2>1, QuantisedTurns
  <2>. QED BY <1>3, <2>2 DEF Matvec
<1>4. CASE fmt = "prequant"
  <2>1. Turns(z, p, A, Quantise(l, k, x, xn, q, "scaleA")
                       \o <<Op("kernel", "compute", out, n, "f32", l, k, {Want(q, xn, "scaleA", l, k)})>>, B)
    BY QuantisedTurns
  <2>. QED BY <1>4, <2>1 DEF Matvec
<1>. QED BY <1>1, <1>2, <1>3, <1>4 DEF Formats

(* A linear layer with the scratch of hidden.                              *)
LEMMA LinearTurns ==
    ASSUME NEW z, NEW l, NEW p \in Nat, NEW A, NEW B, NEW fmt \in Formats, NEW x, NEW xn, NEW out, NEW n,
           xn \notin {"zero", "junk"}, n # "junk", out \notin Lasting, Now(l, p, x, xn) \in A,
           \A y \in B : \/ y \in A /\ y[1] \notin {"quant_hidden", "mxfp4_hidden", "cutlass_payload", out}
                        \/ y = Now(l, p, out, n)
    PROVE  Turns(z, p, A, Matvec(l, 0, fmt, x, xn, "quant_hidden", "mxfp4_hidden", out, n), B)
<1>1. In(l, 0, p, x, xn, "f32") = Now(l, p, x, xn) /\ In(l, 0, p, out, n, "f32") = Now(l, p, out, n)
  BY DEF Now
<1>2. "quant_hidden" \notin Lasting /\ "mxfp4_hidden" \notin Lasting
  BY DEF Lasting
<1>. QED BY <1>1, <1>2, MatvecTurns

(* Kernels with one input, two, four.                                      *)
LEMMA K1Turns ==
    ASSUME NEW z, NEW l, NEW p \in Nat, NEW A, NEW B, NEW out, NEW n, NEW b, NEW bn,
           bn # "zero", n # "junk", z = 0 \/ out \notin Lasting, Now(l, p, b, bn) \in A,
           \A x \in B : (x \in A /\ x[1] # out) \/ x = Now(l, p, out, n)
    PROVE  Turns(z, p, A, <<K(l, out, n, {<<b, bn>>})>>, B)
<1>. DEFINE in == {<<b, bn>>}
<1>1. in # {} /\ \A i \in in : i[2] # "zero" /\ Now(l, p, i[1], i[2]) \in A
  OBVIOUS
<1>. HIDE DEF in
<1>2. Turns(z, p, A, <<K(l, out, n, in)>>, B)
  BY <1>1, KTurns
<1>. QED BY <1>2 DEF in

(* Two inputs.                                                             *)
LEMMA K2Turns ==
    ASSUME NEW z, NEW l, NEW p \in Nat, NEW A, NEW B, NEW out, NEW n, NEW b, NEW bn, NEW c, NEW cn,
           bn # "zero", cn # "zero", n # "junk", z = 0 \/ out \notin Lasting,
           Now(l, p, b, bn) \in A, Now(l, p, c, cn) \in A,
           \A x \in B : (x \in A /\ x[1] # out) \/ x = Now(l, p, out, n)
    PROVE  Turns(z, p, A, <<K(l, out, n, {<<b, bn>>, <<c, cn>>})>>, B)
<1>. DEFINE in == {<<b, bn>>, <<c, cn>>}
<1>1. in # {} /\ \A i \in in : i[2] # "zero" /\ Now(l, p, i[1], i[2]) \in A
  OBVIOUS
<1>. HIDE DEF in
<1>2. Turns(z, p, A, <<K(l, out, n, in)>>, B)
  BY <1>1, KTurns
<1>. QED BY <1>2 DEF in

(* A linear layer whose quantised input is there already, in one form or   *)
(* the other.                                                              *)
LEMMA MatvecReuseTurns ==
    ASSUME NEW z, NEW l, NEW p \in Nat, NEW A, NEW B, NEW fmt, NEW x, NEW xn, NEW q, NEW f, NEW mx, NEW valid \in BOOLEAN,
           NEW out, NEW n,
           xn \notin {"zero", "junk"}, n # "junk", mx \notin Lasting, out \notin Lasting, mx # out,
           fmt = "native" /\ ~valid => Now(l, p, x, xn) \in A,
           fmt = "native" /\ valid => In(l, 0, p, mx, xn, "mxfp4") \in A,
           fmt # "native" => In(l, 0, p, q, xn, f) \in A,
           \A y \in B : \/ y \in A /\ y[1] \notin {mx, out}
                        \/ y = Now(l, p, out, n)
                        \/ fmt = "native" /\ y = In(l, 0, p, mx, xn, "mxfp4")
    PROVE  Turns(z, p, A, MatvecReuse(l, fmt, x, xn, q, f, mx, valid, out, n), B)
<1>. DEFINE v == Now(l, p, out, n)
            w == In(l, 0, p, mx, xn, "mxfp4")
            C == {y \in A : y[1] # mx} \cup {w}
            op == Op("kernel", "compute", out, n, "f32", l, 0, {Want(mx, xn, "mxfp4", l, 0)})
<1>0. v = In(l, 0, p, out, n, "f32") /\ Now(l, p, x, xn) = In(l, 0, p, x, xn, "f32") /\ w[1] = mx
  BY FactOn DEF Now
<1>1. CASE fmt = "native"
  <2>1. Turns(z, p, A, When(~valid, Quantise(l, 0, x, xn, mx, "mxfp4")), C)
    <3>1. \A y \in C : (y \in A /\ y[1] # mx) \/ y = w
      OBVIOUS
    <3>2. valid => C \subseteq A
      BY <1>1
    <3>3. ~valid => Turns(z, p, A, Quantise(l, 0, x, xn, mx, "mxfp4"), C)
      <4>. HIDE DEF C
      <4>1. ~valid => In(l, 0, p, x, xn, "f32") \in A
        BY <1>0, <1>1
      <4>. QED BY <3>1, <4>1, OneTurns DEF Quantise
    <3>. HIDE DEF C
    <3>. QED BY <3>2, <3>3, TurnsWhen
  <2>2. Turns(z, p, C, <<op>>, B)
    <3>1. w \in C /\ \A y \in B : (y \in C /\ y[1] # out) \/ y = In(l, 0, p, out, n, "f32")
      BY <1>0, <1>1
    <3>. HIDE DEF C
    <3>. QED BY <3>1, OneTurns
  <2>3. MatvecReuse(l, fmt, x, xn, q, f, mx, valid, out, n)
        = When(~valid, Quantise(l, 0, x, xn, mx, "mxfp4")) \o <<op>>
    BY <1>1 DEF MatvecReuse
  <2>. HIDE DEF C, op
  <2>. QED BY <2>1, <2>2, <2>3, TurnsConcat
<1>2. CASE fmt # "native"
  <2>1. \A y \in B : (y \in A /\ y[1] # out) \/ y = In(l, 0, p, out, n, "f32")
    BY <1>0, <1>2
  <2>2. Turns(z, p, A, <<Op("kernel", "compute", out, n, "f32", l, 0, {Want(q, xn, f, l, 0)})>>, B)
    BY <2>1, <1>2, OneTurns
  <2>. QED BY <1>2, <2>2 DEF MatvecReuse
<1>. QED BY <1>1, <1>2

(* A quantised input is brought to another scale.                          *)
LEMMA PrepareTurns ==
    ASSUME NEW z, NEW l, NEW p \in Nat, NEW A, NEW B, NEW x, NEW xn, NEW have, NEW want, NEW buf,
           xn \notin {"zero", "junk"}, buf \notin Lasting,
           Now(l, p, x, xn) \in A, In(l, 0, p, buf, xn, have) \in A,
           \A y \in B : (y \in A /\ y[1] # buf) \/ y = In(l, 0, p, buf, xn, want)
    PROVE  Turns(z, p, A, Prepare(l, x, xn, have, want, buf), B)
<1>1. Now(l, p, x, xn) = In(l, 0, p, x, xn, "f32")
  BY DEF Now
<1>2. Turns(z, p, A, Quantise(l, 0, x, xn, buf, want), B)
  BY <1>1, OneTurns DEF Quantise
<1>3. have = want => B \subseteq A
  OBVIOUS
<1>. QED BY <1>2, <1>3, TurnsWhen DEF Prepare

(* A state that is carried over, as an input and as an output.             *)
LEMMA StepStateTurns ==
    ASSUME NEW l, NEW p \in Nat, NEW A, NEW B, NEW b \in {"conv_state", "recurrent"}, NEW out, NEW nn, NEW in,
           in # {}, nn # "junk", out \notin Lasting, out # b,
           \A i \in in : i[2] # "zero" /\ i[1] # out /\ Now(l, p, i[1], i[2]) \in A,
           Carries(l, p, b) \in A,
           \A y \in B : \/ y \in A /\ y[1] \notin {out, b}
                        \/ y = Now(l, p, out, nn)
                        \/ y = Carries(l, p + 1, b)
    PROVE  Turns(l, p, A, StepState(l, b, out, nn, in), B)
<1>. DEFINE C == {y \in A : y[1] # out} \cup {Now(l, p, out, nn)}
            W(i) == Want(i[1], i[2], "f32", l, 0)
            z == [Want(b, b, "f32", l, 0) EXCEPT !.buf = <<b, l>>, !.back = 1]
            ws == {W(i) : i \in in} \cup {z}
            one == Also(K(l, out, nn, in), Carried(l, b))
            two == [Also(K(l, b, b, in), Carried(l, b)) EXCEPT !.out = <<b, l>>]
            v == Val(nn, "f32", l, 0, p)
            u == Val(b, "f32", l, 0, p)
<1>1. z.buf = <<b, l>> /\ z.name = b /\ z.form = "f32" /\ z.layer = l /\ z.slot = 0 /\ z.back = 1
  BY DEF Want
<1>2. /\ one.kind = "kernel" /\ one.stream = "compute" /\ one.host = {} /\ one.name = nn /\ one.out = <<out, 0>>
      /\ one.in = ws /\ one.form = "f32" /\ one.layer = l /\ one.slot = 0
  BY DEF K, Op, Also, Carried
<1>3. /\ two.kind = "kernel" /\ two.stream = "compute" /\ two.host = {} /\ two.name = b /\ two.out = <<b, l>>
      /\ two.in = ws /\ two.form = "f32" /\ two.layer = l /\ two.slot = 0
  BY DEF K, Op, Also, Carried
<1>4. ASSUME NEW i \in in PROVE W(i).back = 0 /\ W(i).name # "zero" /\ Granted(A, W(i), p) /\ Granted(C, W(i), p)
  <2>. DEFINE c == i[1]
              a == i[2]
  <2>1. a # "zero" /\ In(l, 0, p, c, a, "f32") \in A /\ c # out
    BY DEF Now
  <2>2. In(l, 0, p, c, a, "f32") \in C
    BY <2>1, FactOn
  <2>. HIDE DEF a, c, C
  <2>3. Granted(A, Want(c, a, "f32", l, 0), p) /\ Granted(C, Want(c, a, "f32", l, 0), p)
    BY <2>1, <2>2, WantGranted
  <2>4. Want(c, a, "f32", l, 0).back = 0 /\ Want(c, a, "f32", l, 0).name # "zero"
    BY <2>1 DEF Want
  <2>. QED BY <2>3, <2>4 DEF a, c
<1>5. Granted(A, z, p) /\ Granted(C, z, p)
  <2>. DEFINE x == Carries(l, p, b)
  <2>1. x \in A /\ x \in C /\ x[1] = b /\ x[2] = l
        /\ x[3] = IF p = 0 THEN None ELSE Val(b, "f32", l, 0, p - 1)
    BY FactOn DEF Carries
  <2>2. Meets(x[3], z, p)
    <3>1. p < 1 <=> p = 0
      OBVIOUS
    <3>. HIDE DEF z, x
    <3>. QED BY <1>1, <2>1, <3>1 DEF Meets
  <2>. HIDE DEF x, z, C
  <2>. QED BY <1>1, <2>1, <2>2 DEF Granted
<1>6. Carries(l, p + 1, b) = <<b, l, u>> /\ Now(l, p, out, nn) = <<out, 0, v>>
  BY DEF Carries, Now, In
<1>7. \A y \in C : (y \in A /\ y[1] # out) \/ y = <<out, 0, v>>
  BY <1>6
<1>8. \A y \in B : (y \in C /\ y[1] # b) \/ y = <<b, l, u>>
  BY <1>6, FactOn
<1>9. StepState(l, b, out, nn, in) = <<one, two>>
  BY DEF StepState
<1>. HIDE DEF W, z, one, two, C
<1>10. Anchored(one) /\ Anchored(two)
  <2>1. PICK i \in in : TRUE
    OBVIOUS
  <2>2. W(i) \in ws
    OBVIOUS
  <2>. HIDE DEF ws
  <2>. QED BY <1>2, <1>3, <1>4, <2>2 DEF Anchored
<1>11. (\A w \in one.in : Granted(A, w, p)) /\ (\A w \in two.in : Granted(C, w, p))
  BY <1>2, <1>3, <1>4, <1>5
<1>12. IsKernel(one, out, 0, v, p) /\ IsKernel(two, b, l, u, p)
  BY <1>2, <1>3, <1>10 DEF IsKernel
<1>13. Free(l, out, 0) /\ Free(l, b, l)
  BY DEF Free
<1>. HIDE DEF v, u
<1>14. Turns(l, p, A, <<one>>, C) /\ Turns(l, p, C, <<two>>, B)
  BY <1>7, <1>8, <1>11, <1>12, <1>13, KernelTurns
<1>. QED BY <1>9, <1>14, TurnsTwo

-----------------------------------------------------------------------------
(* The mixer of a gated delta net.                                         *)
LEMMA GdnTurns ==
    ASSUME NEW l \in Nat, NEW p \in Nat, NEW m \in LayerType, NEW h \in Buffers
    PROVE  Turns(l, p, {Now(l, p, h, "x"), Carries(l, p, "conv_state"), Carries(l, p, "recurrent")},
                 GatedDeltaNet(l, m, h),
                 {Now(l, p, h, "x"), Now(l, p, "residual", "residual"),
                  Carries(l, p + 1, "conv_state"), Carries(l, p + 1, "recurrent")})
<1>0. m.proj \in Formats /\ h \in {"bufA", "bufB"}
  BY DEF LayerType, Buffers
<1>. DEFINE x == Now(l, p, h, "x")
            s == Carries(l, p, "conv_state")
            r == Carries(l, p, "recurrent")
            s1 == Carries(l, p + 1, "conv_state")
            r1 == Carries(l, p + 1, "recurrent")
            y == Now(l, p, "gdn_normed", "normed")
            y1 == Now(l, p, "gdn_qkv", "qkv")
            y2 == Now(l, p, "gdn_z", "z")
            y3 == Now(l, p, "gdn_b", "b")
            y4 == Now(l, p, "gdn_a", "a")
            y5 == Now(l, p, "gdn_qkv_conv", "qkvc")
            y6 == Now(l, p, "gdn_q_n", "q")
            y7 == Now(l, p, "gdn_k_n", "k")
            y8 == Now(l, p, "gdn_v", "v")
            y9 == Now(l, p, "gdn_gates", "gates")
            z1 == Now(l, p, "gdn_o", "o")
            z2 == Now(l, p, "gdn_o_norm", "on")
            z3 == Now(l, p, "gdn_mixer_out", "mixed")
            z4 == Now(l, p, "residual", "residual")
            c1 == K(l, "gdn_normed", "normed", {<<h, "x">>})
            c2 == Matvec(l, 0, m.proj, "gdn_normed", "normed", "quant_hidden", "mxfp4_hidden", "gdn_qkv", "qkv")
            c3 == Matvec(l, 0, m.proj, "gdn_normed", "normed", "quant_hidden", "mxfp4_hidden", "gdn_z", "z")
            c4 == Matvec(l, 0, m.proj, "gdn_normed", "normed", "quant_hidden", "mxfp4_hidden", "gdn_b", "b")
            c5 == Matvec(l, 0, m.proj, "gdn_normed", "normed", "quant_hidden", "mxfp4_hidden", "gdn_a", "a")
            c6 == StepState(l, "conv_state", "gdn_qkv_conv", "qkvc", {<<"gdn_qkv", "qkv">>})
            c7 == K(l, "gdn_q_n", "q", {<<"gdn_qkv_conv", "qkvc">>})
            c8 == K(l, "gdn_k_n", "k", {<<"gdn_qkv_conv", "qkvc">>})
            c9 == K(l, "gdn_v", "v", {<<"gdn_qkv_conv", "qkvc">>})
            c10 == K(l, "gdn_gates", "gates", {<<"gdn_b", "b">>, <<"gdn_a", "a">>})
            c11 == StepState(l, "recurrent", "gdn_o", "o", {<<"gdn_q_n", "q">>, <<"gdn_k_n", "k">>, <<"gdn_v", "v">>,
                  <<"gdn_gates", "gates">>})
            c12 == K(l, "gdn_o_norm", "on", {<<"gdn_o", "o">>, <<"gdn_z", "z">>})
            c13 == Matvec(l, 0, m.proj, "gdn_o_norm", "on", "quant_hidden", "mxfp4_hidden", "gdn_mixer_out", "mixed")
            c14 == K(l, "residual", "residual", {<<h, "x">>, <<"gdn_mixer_out", "mixed">>})
            g1 == <<c1>>
            g7 == <<c7, c8, c9, c10>>
            g9 == <<c12>>
            g11 == <<c14>>
<1>on. x[1] = h /\ s[1] = "conv_state" /\ r[1] = "recurrent" /\ s1[1] = "conv_state" /\ r1[1] = "recurrent" /\
       y[1] = "gdn_normed" /\ y1[1] = "gdn_qkv" /\ y2[1] = "gdn_z" /\ y3[1] = "gdn_b" /\ y4[1] = "gdn_a" /\
       y5[1] = "gdn_qkv_conv" /\ y6[1] = "gdn_q_n" /\ y7[1] = "gdn_k_n" /\ y8[1] = "gdn_v" /\ y9[1] =
       "gdn_gates" /\ z1[1] = "gdn_o" /\ z2[1] = "gdn_o_norm" /\ z3[1] = "gdn_mixer_out" /\ z4[1] = "residual"
  BY FactOn
<1>eq. GatedDeltaNet(l, m, h) = g1 \o c2 \o c3 \o c4 \o c5 \o c6 \o g7 \o c11 \o g9 \o c13 \o g11
  BY DEF GatedDeltaNet
<1>. HIDE DEF x, s, r, s1, r1, y, y1, y2, y3, y4, y5, y6, y7, y8, y9, z1, z2, z3, z4
<1>c1. Turns(l, p, {x, s, r}, <<c1>>, {x, s, r, y})
  BY <1>0, <1>on, K1Turns DEF x, y, Lasting
<1>c2. Turns(l, p, {x, s, r, y}, c2, {x, s, r, y, y1})
  BY <1>0, <1>on, LinearTurns DEF y, y1, Lasting
<1>c3. Turns(l, p, {x, s, r, y, y1}, c3, {x, s, r, y, y1, y2})
  BY <1>0, <1>on, LinearTurns DEF y, y2, Lasting
<1>c4. Turns(l, p, {x, s, r, y, y1, y2}, c4, {x, s, r, y, y1, y2, y3})
  BY <1>0, <1>on, LinearTurns DEF y, y3, Lasting
<1>c5. Turns(l, p, {x, s, r, y, y1, y2, y3}, c5, {x, s, r, y1, y2, y3, y4})
  BY <1>0, <1>on, LinearTurns DEF y, y4, Lasting
<1>c6. Turns(l, p, {x, s, r, y1, y2, y3, y4}, c6, {x, r, s1, y2, y3, y4, y5})
  <2>. DEFINE in == {<<"gdn_qkv", "qkv">>}
            A == {x, s, r, y1, y2, y3, y4}
            B == {x, r, s1, y2, y3, y4, y5}
  <2>1. \A i \in in : i[2] # "zero" /\ i[1] # "gdn_qkv_conv" /\ Now(l, p, i[1], i[2]) \in A
    BY DEF y1
  <2>2. in # {} /\ s \in A /\ "gdn_qkv_conv" \notin Lasting
    BY DEF Lasting
  <2>3. \A w \in B : (w \in A /\ w[1] \notin {"gdn_qkv_conv", "conv_state"}) \/ w = y5 \/ w = s1
    BY <1>0, <1>on
  <2>. HIDE DEF in, A, B
  <2>4. Turns(l, p, A, StepState(l, "conv_state", "gdn_qkv_conv", "qkvc", in), B)
    BY <2>1, <2>2, <2>3, StepStateTurns DEF y5, s, s1
  <2>. QED BY <2>4 DEF in, A, B
<1>c7. Turns(l, p, {x, r, s1, y2, y3, y4, y5}, <<c7>>, {x, r, s1, y2, y3, y4, y5, y6})
  BY <1>0, <1>on, K1Turns DEF y5, y6, Lasting
<1>c8. Turns(l, p, {x, r, s1, y2, y3, y4, y5, y6}, <<c8>>, {x, r, s1, y2, y3, y4, y5, y6, y7})
  BY <1>0, <1>on, K1Turns DEF y5, y7, Lasting
<1>c9. Turns(l, p, {x, r, s1, y2, y3, y4, y5, y6, y7}, <<c9>>, {x, r, s1, y2, y3, y4, y6, y7, y8})
  BY <1>0, <1>on, K1Turns DEF y5, y8, Lasting
<1>c10. Turns(l, p, {x, r, s1, y2, y3, y4, y6, y7, y8}, <<c10>>, {x, r, s1, y2, y6, y7, y8, y9})
  BY <1>0, <1>on, K2Turns DEF y3, y4, y9, Lasting
<1>c11. Turns(l, p, {x, r, s1, y2, y6, y7, y8, y9}, c11, {x, s1, r1, y2, z1})
  <2>. DEFINE in == {<<"gdn_q_n", "q">>, <<"gdn_k_n", "k">>, <<"gdn_v", "v">>, <<"gdn_gates", "gates">>}
            A == {x, r, s1, y2, y6, y7, y8, y9}
            B == {x, s1, r1, y2, z1}
  <2>1. \A i \in in : i[2] # "zero" /\ i[1] # "gdn_o" /\ Now(l, p, i[1], i[2]) \in A
    BY DEF y6, y7, y8, y9
  <2>2. in # {} /\ r \in A /\ "gdn_o" \notin Lasting
    BY DEF Lasting
  <2>3. \A w \in B : (w \in A /\ w[1] \notin {"gdn_o", "recurrent"}) \/ w = z1 \/ w = r1
    BY <1>0, <1>on
  <2>. HIDE DEF in, A, B
  <2>4. Turns(l, p, A, StepState(l, "recurrent", "gdn_o", "o", in), B)
    BY <2>1, <2>2, <2>3, StepStateTurns DEF z1, r, r1
  <2>. QED BY <2>4 DEF in, A, B
<1>c12. Turns(l, p, {x, s1, r1, y2, z1}, <<c12>>, {x, s1, r1, z2})
  BY <1>0, <1>on, K2Turns DEF y2, z1, z2, Lasting
<1>c13. Turns(l, p, {x, s1, r1, z2}, c13, {x, s1, r1, z3})
  BY <1>0, <1>on, LinearTurns DEF z2, z3, Lasting
<1>c14. Turns(l, p, {x, s1, r1, z3}, <<c14>>, {x, z4, s1, r1})
  BY <1>0, <1>on, K2Turns DEF x, z3, z4, Lasting
<1>. HIDE DEF c1, c2, c3, c4, c5, c6, c7, c8, c9, c10, c11, c12, c13, c14
<1>g1. Turns(l, p, {x, s, r}, g1, {x, s, r, y})
  BY <1>c1
<1>g7. Turns(l, p, {x, r, s1, y2, y3, y4, y5}, g7, {x, r, s1, y2, y6, y7, y8, y9})
  BY <1>c7, <1>c8, <1>c9, <1>c10, TurnsFour
<1>g9. Turns(l, p, {x, s1, r1, y2, z1}, g9, {x, s1, r1, z2})
  BY <1>c12
<1>g11. Turns(l, p, {x, s1, r1, z3}, g11, {x, z4, s1, r1})
  BY <1>c14
<1>. HIDE DEF g1, g7, g9, g11
<1>all. Turns(l, p, {x, s, r}, g1 \o c2 \o c3 \o c4 \o c5 \o c6 \o g7 \o c11 \o g9 \o c13 \o g11, {x, z4, s1,
          r1})
  BY <1>g1, <1>c2, <1>c3, <1>c4, <1>c5, <1>c6, <1>g7, <1>c11, <1>g9, <1>c13, <1>g11, TurnsConcat
<1>. QED BY <1>eq, <1>all DEF x, s, r, z4, s1, r1

(* A kernel of layer l that also reads what is of no layer.                *)
LEMMA AlsoTurns ==
    ASSUME NEW z, NEW l, NEW p \in Nat, NEW A, NEW B, NEW out, NEW n, NEW b, NEW bn, NEW c, NEW cn,
           bn # "zero", cn # "zero", n # "junk", out \notin Lasting,
           Now(l, p, b, bn) \in A, Now(0, p, c, cn) \in A,
           \A x \in B : (x \in A /\ x[1] # out) \/ x = Now(l, p, out, n)
    PROVE  Turns(z, p, A, <<Also(K(l, out, n, {<<b, bn>>}), {Want(c, cn, "f32", 0, 0)})>>, B)
<1>. DEFINE w == Want(b, bn, "f32", l, 0)
            u == Want(c, cn, "f32", 0, 0)
            op == Also(K(l, out, n, {<<b, bn>>}), {u})
            v == Val(n, "f32", l, 0, p)
<1>1. /\ op.kind = "kernel" /\ op.stream = "compute" /\ op.host = {} /\ op.name = n /\ op.out = <<out, 0>>
      /\ op.in = {w, u} /\ op.form = "f32" /\ op.layer = l /\ op.slot = 0
  BY DEF K, Op, Also
<1>2. w.back = 0 /\ w.name # "zero"
  BY DEF Want
<1>3. Granted(A, w, p) /\ Granted(A, u, p)
  <2>. HIDE DEF op, v
  <2>. QED BY WantGranted DEF Now
<1>. HIDE DEF w, u, op
<1>4. Anchored(op) /\ \A i \in op.in : Granted(A, i, p)
  BY <1>1, <1>2, <1>3 DEF Anchored
<1>5. IsKernel(op, out, 0, v, p)
  BY <1>1, <1>4 DEF IsKernel
<1>. HIDE DEF v
<1>6. Free(z, out, 0)
  BY DEF Free
<1>7. \A x \in B : (x \in A /\ x[1] # out) \/ x = <<out, 0, v>>
  BY DEF Now, In, v
<1>8. Turns(z, p, A, <<op>>, B)
  BY <1>4, <1>5, <1>6, <1>7, KernelTurns
<1>. QED BY <1>8 DEF op, u

(* A norm by way of the scratch.                                           *)
LEMMA NormOneTurns ==
    ASSUME NEW z, NEW l, NEW p \in Nat, NEW A, NEW B, NEW b, NEW n, NEW nn,
           n # "zero", nn \notin {"zero", "junk"}, b \notin Lasting, b # "qk_norm_scratch", Now(l, p, b, n) \in A,
           \A y \in B : (y \in A /\ y[1] \notin {"qk_norm_scratch", b}) \/ y = Now(l, p, b, nn)
    PROVE  Turns(z, p, A, NormOne(l, b, n, nn), B)
<1>. DEFINE w == Now(l, p, "qk_norm_scratch", nn)
            C == {y \in A : y[1] # "qk_norm_scratch"} \cup {w}
            c1 == K(l, "qk_norm_scratch", nn, {<<b, n>>})
            c2 == K(l, b, nn, {<<"qk_norm_scratch", nn>>})
<1>1. Turns(z, p, A, <<c1>>, C)
  <2>1. "qk_norm_scratch" \notin Lasting /\ \A y \in C : (y \in A /\ y[1] # "qk_norm_scratch") \/ y = w
    BY DEF Lasting
  <2>. HIDE DEF C
  <2>. QED BY <2>1, K1Turns
<1>2. Turns(z, p, C, <<c2>>, B)
  <2>1. w \in C /\ \A y \in B : (y \in C /\ y[1] # b) \/ y = Now(l, p, b, nn)
    OBVIOUS
  <2>. HIDE DEF C
  <2>. QED BY <2>1, K1Turns
<1>3. NormOne(l, b, n, nn) = <<c1, c2>>
  BY DEF NormOne
<1>. HIDE DEF C, c1, c2
<1>. QED BY <1>1, <1>2, <1>3, TurnsTwo

(* The projections of attention in BF16 or FP8; what need not be there is  *)
(* the input instead.                                                      *)
LEMMA QkvPlainTurns ==
    ASSUME NEW l \in Nat, NEW p \in Nat, NEW m \in LayerType, NEW h \in Buffers
    PROVE  LET x == Now(l, p, h, "x")
               P == Now(0, p, "decode_position", "position")
               L == Now(0, p, "decode_seq_len", "length")
           IN  Turns(l, p, {x, P, L}, ProjectQkvPlain(l, m, h),
                     {x, P, L, Now(l, p, "q", "q"), IF m.gated THEN Now(l, p, "gate_attn", "gate") ELSE x,
                      IF m.parent = 0 THEN Now(l, p, "k", "k") ELSE x, IF m.parent = 0 THEN Now(l, p, "v", "v") ELSE x})
<1>0. m.proj \in Formats /\ m.oproj \in Formats /\ m.gated \in BOOLEAN /\ m.qnorm \in BOOLEAN /\ h \in {"bufA", "bufB"}
  BY DEF LayerType, Buffers
<1>. DEFINE x == Now(l, p, h, "x")
            P == Now(0, p, "decode_position", "position")
            L == Now(0, p, "decode_seq_len", "length")
            y == Now(l, p, "input_normed", "normed")
            qg == Now(l, p, "q_full", "qg")
            q0 == Now(l, p, "q", "q")
            gt == IF m.gated THEN Now(l, p, "gate_attn", "gate") ELSE x
            kk == IF m.parent = 0 THEN Now(l, p, "k", "k") ELSE x
            vv == IF m.parent = 0 THEN Now(l, p, "v", "v") ELSE x
            c1 == K(l, "input_normed", "normed", {<<h, "x">>})
            c2 == IF m.gated
                  THEN <<K(l, "q_full", "qg", {<<"input_normed", "normed">>}),
                         K(l, "q", "q", {<<"q_full", "qg">>}), K(l, "gate_attn", "gate", {<<"q_full", "qg">>})>>
                  ELSE <<K(l, "q", "q", {<<"input_normed", "normed">>})>>
            c3 == When(m.parent = 0, <<K(l, "k", "k", {<<"input_normed", "normed">>}), K(l, "v", "v", {<<"input_normed",
                  "normed">>})>>)
            g1 == <<c1>>
<1>on. x[1] = h /\ P[1] = "decode_position" /\ L[1] = "decode_seq_len" /\ y[1] = "input_normed" /\ qg[1] =
       "q_full" /\ q0[1] = "q" /\ gt[1] = (IF m.gated THEN "gate_attn" ELSE h) /\ kk[1] = (IF m.parent = 0 THEN
       "k" ELSE h) /\ vv[1] = (IF m.parent = 0 THEN "v" ELSE h)
  <2>1. x[1] = h /\ P[1] = "decode_position" /\ L[1] = "decode_seq_len" /\ y[1] = "input_normed" /\ qg[1] =
        "q_full" /\ q0[1] = "q"
    BY FactOn
  <2>2. gt[1] = IF m.gated THEN "gate_attn" ELSE h
    BY FactOn
  <2>3. kk[1] = IF m.parent = 0 THEN "k" ELSE h
    BY FactOn
  <2>4. vv[1] = IF m.parent = 0 THEN "v" ELSE h
    BY FactOn
  <2>. QED BY <2>1, <2>2, <2>3, <2>4
<1>eq. ProjectQkvPlain(l, m, h) = g1 \o c2 \o c3
  BY DEF ProjectQkvPlain
<1>. HIDE DEF x, P, L, y, qg, q0, gt, kk, vv
<1>c1. Turns(l, p, {x, P, L}, <<c1>>, {x, P, L, y})
  BY <1>0, <1>on, K1Turns DEF x, y, Lasting
<1>c2. Turns(l, p, {x, P, L, y}, c2, {x, P, L, y, q0, gt})
  <2>1. CASE m.gated
    <3>1. Turns(l, p, {x, P, L, y}, <<K(l, "q_full", "qg", {<<"input_normed", "normed">>})>>, {x, P, L, y, qg})
      BY <1>0, <1>on, K1Turns DEF y, qg, Lasting
    <3>2. Turns(l, p, {x, P, L, y, qg}, <<K(l, "q", "q", {<<"q_full", "qg">>})>>, {x, P, L, y, qg, q0})
      BY <1>0, <1>on, K1Turns DEF qg, q0, Lasting
    <3>3. Turns(l, p, {x, P, L, y, qg, q0}, <<K(l, "gate_attn", "gate", {<<"q_full", "qg">>})>>, {x, P, L, y, q0, gt})
      BY <1>0, <1>on, <2>1, K1Turns DEF qg, gt, Lasting
    <3>. QED BY <2>1, <3>1, <3>2, <3>3, TurnsThree
  <2>2. CASE ~m.gated
    <3>1. Turns(l, p, {x, P, L, y}, <<K(l, "q", "q", {<<"input_normed", "normed">>})>>, {x, P, L, y, q0, gt})
      BY <1>0, <1>on, <2>2, K1Turns DEF y, q0, gt, Lasting
    <3>. QED BY <2>2, <3>1
  <2>. QED BY <1>0, <2>1, <2>2
<1>c3. Turns(l, p, {x, P, L, y, q0, gt}, c3, {x, P, L, q0, gt, kk, vv})
  <2>1. CASE m.parent = 0
    <3>. DEFINE C == {x, P, L, y, q0, gt, kk}
    <3>1. Turns(l, p, {x, P, L, y, q0, gt}, <<K(l, "k", "k", {<<"input_normed", "normed">>})>>, C)
      BY <1>0, <1>on, <2>1, K1Turns DEF y, kk, Lasting
    <3>2. Turns(l, p, C, <<K(l, "v", "v", {<<"input_normed", "normed">>})>>, {x, P, L, q0, gt, kk, vv})
      BY <1>0, <1>on, <2>1, K1Turns DEF y, vv, Lasting
    <3>3. Turns(l, p, {x, P, L, y, q0, gt}, <<K(l, "k", "k", {<<"input_normed", "normed">>}),
                            K(l, "v", "v", {<<"input_normed", "normed">>})>>, {x, P, L, q0, gt, kk, vv})
      BY <3>1, <3>2, TurnsTwo
    <3>. QED BY <2>1, <3>3, TurnsWhen
  <2>2. CASE m.parent # 0
    <3>1. {x, P, L, q0, gt, kk, vv} \subseteq {x, P, L, y, q0, gt}
      BY <2>2 DEF kk, vv
    <3>. QED BY <2>2, <3>1, TurnsWhen
  <2>. QED BY <2>1, <2>2
<1>. HIDE DEF c1, c2, c3
<1>g1. Turns(l, p, {x, P, L}, g1, {x, P, L, y})
  BY <1>c1
<1>. HIDE DEF g1
<1>all. Turns(l, p, {x, P, L}, g1 \o c2 \o c3, {x, P, L, q0, gt, kk, vv})
  BY <1>g1, <1>c2, <1>c3, TurnsConcat
<1>. QED BY <1>eq, <1>all DEF x, P, L, q0, gt, kk, vv

(* The projections in NVFP4.                                               *)
LEMMA QkvNvfp4Turns ==
    ASSUME NEW l \in Nat, NEW p \in Nat, NEW m \in LayerType, NEW h \in Buffers
    PROVE  LET x == Now(l, p, h, "x")
               P == Now(0, p, "decode_position", "position")
               L == Now(0, p, "decode_seq_len", "length")
           IN  Turns(l, p, {x, P, L}, ProjectQkvNvfp4(l, m, h),
                     {x, P, L, Now(l, p, "q", "q"), IF m.gated THEN Now(l, p, "gate_attn", "gate") ELSE x,
                      Now(l, p, "k", "k"), Now(l, p, "v", "v")})
<1>0. m.proj \in Formats /\ m.oproj \in Formats /\ m.gated \in BOOLEAN /\ m.qnorm \in BOOLEAN /\ h \in {"bufA", "bufB"}
  BY DEF LayerType, Buffers
<1>. DEFINE sa == Scale(m, TRUE)
            sb == Scale(m, FALSE)
<1>. HIDE DEF sa, sb
<1>. DEFINE x == Now(l, p, h, "x")
            P == Now(0, p, "decode_position", "position")
            L == Now(0, p, "decode_seq_len", "length")
            y == Now(l, p, "input_normed", "normed")
            qa == In(l, 0, p, "quant_hidden", "normed", sa)
            qb == In(l, 0, p, "quant_hidden", "normed", sb)
            qm == IF m.proj = "native" THEN In(l, 0, p, "mxfp4_hidden", "normed", "mxfp4") ELSE x
            qg == Now(l, p, "q_full", "qg")
            q0 == Now(l, p, "q", "q")
            gt == IF m.gated THEN Now(l, p, "gate_attn", "gate") ELSE x
            k0 == Now(l, p, "k", "k")
            v0 == Now(l, p, "v", "v")
            c1 == K(l, "input_normed", "normed", {<<h, "x">>})
            c2 == Quantise(l, 0, "input_normed", "normed", "quant_hidden", sa)
            c3 == IF m.gated
                  THEN MatvecReuse(l, m.proj, "input_normed", "normed", "quant_hidden", sa, "mxfp4_hidden",
                  FALSE, "q_full", "qg")
                       \o <<K(l, "q", "q", {<<"q_full", "qg">>}), K(l, "gate_attn", "gate", {<<"q_full",
                  "qg">>})>>
                  ELSE MatvecReuse(l, m.proj, "input_normed", "normed", "quant_hidden", sa, "mxfp4_hidden",
                  FALSE, "q", "q")
            c4 == Prepare(l, "input_normed", "normed", sa, sb, "quant_hidden")
            c5 == MatvecReuse(l, m.proj, "input_normed", "normed", "quant_hidden", sb, "mxfp4_hidden", (m.proj = "native"),
                  "k", "k")
            c6 == Prepare(l, "input_normed", "normed", sb, sa, "quant_hidden")
            c7 == MatvecReuse(l, m.proj, "input_normed", "normed", "quant_hidden", sa, "mxfp4_hidden", (m.proj = "native"),
                  "v", "v")
            g1 == <<c1>>
<1>on. x[1] = h /\ P[1] = "decode_position" /\ L[1] = "decode_seq_len" /\ y[1] = "input_normed" /\ qa[1] =
       "quant_hidden" /\ qb[1] = "quant_hidden" /\ qm[1] = (IF m.proj = "native" THEN "mxfp4_hidden" ELSE h) /\
       qg[1] = "q_full" /\ q0[1] = "q" /\ gt[1] = (IF m.gated THEN "gate_attn" ELSE h) /\ k0[1] = "k" /\ v0[1]
       = "v"
  <2>1. x[1] = h /\ P[1] = "decode_position" /\ L[1] = "decode_seq_len" /\ y[1] = "input_normed" /\ qa[1] =
        "quant_hidden" /\ qb[1] = "quant_hidden" /\ qg[1] = "q_full" /\ q0[1] = "q" /\ k0[1] = "k" /\ v0[1] =
        "v"
    BY FactOn
  <2>2. qm[1] = IF m.proj = "native" THEN "mxfp4_hidden" ELSE h
    BY FactOn
  <2>3. gt[1] = IF m.gated THEN "gate_attn" ELSE h
    BY FactOn
  <2>. QED BY <2>1, <2>2, <2>3
<1>eq. ProjectQkvNvfp4(l, m, h) = g1 \o c2 \o c3 \o c4 \o c5 \o c6 \o c7
  BY DEF ProjectQkvNvfp4, sa, sb
<1>. HIDE DEF x, P, L, y, qa, qb, qm, qg, q0, gt, k0, v0
<1>c1. Turns(l, p, {x, P, L}, <<c1>>, {x, P, L, y})
  BY <1>0, <1>on, K1Turns DEF x, y, Lasting
<1>c2. Turns(l, p, {x, P, L, y}, c2, {x, P, L, y, qa})
  BY <1>0, <1>on, OneTurns DEF y, qa, Lasting, Now, Quantise
<1>c3. Turns(l, p, {x, P, L, y, qa}, c3, {x, P, L, y, qa, qm, q0, gt})
  <2>1. CASE m.gated
    <3>. DEFINE C == {x, P, L, y, qa, qm, qg}
                D == {x, P, L, y, qa, qm, qg, q0}
                a1 == MatvecReuse(l, m.proj, "input_normed", "normed", "quant_hidden", sa, "mxfp4_hidden", FALSE,
                                  "q_full", "qg")
                a2 == K(l, "q", "q", {<<"q_full", "qg">>})
                a3 == K(l, "gate_attn", "gate", {<<"q_full", "qg">>})
    <3>1. Turns(l, p, {x, P, L, y, qa}, a1, C)
      BY <1>0, <1>on, MatvecReuseTurns DEF x, y, qa, qm, qg, Lasting
    <3>2. Turns(l, p, C, <<a2>>, D)
      BY <1>0, <1>on, K1Turns DEF qg, q0, Lasting
    <3>3. Turns(l, p, D, <<a3>>, {x, P, L, y, qa, qm, q0, gt})
      BY <1>0, <1>on, <2>1, K1Turns DEF qg, gt, Lasting
    <3>4. c3 = a1 \o <<a2, a3>>
      BY <2>1
    <3>. HIDE DEF a1, a2, a3, c3, C, D
    <3>5. Turns(l, p, C, <<a2, a3>>, {x, P, L, y, qa, qm, q0, gt})
      BY <3>2, <3>3, TurnsTwo
    <3>. QED BY <3>1, <3>4, <3>5, TurnsConcat
  <2>2. CASE ~m.gated
    <3>. DEFINE a1 == MatvecReuse(l, m.proj, "input_normed", "normed", "quant_hidden", sa, "mxfp4_hidden", FALSE, "q", "q")
    <3>1. Turns(l, p, {x, P, L, y, qa}, a1, {x, P, L, y, qa, qm, q0, gt})
      BY <1>0, <1>on, <2>2, MatvecReuseTurns DEF x, y, qa, qm, q0, gt, Lasting
    <3>2. c3 = a1
      BY <2>2
    <3>. QED BY <3>1, <3>2
  <2>. QED BY <1>0, <2>1, <2>2
<1>c4. Turns(l, p, {x, P, L, y, qa, qm, q0, gt}, c4, {x, P, L, y, qb, qm, q0, gt})
  BY <1>0, <1>on, PrepareTurns DEF y, qa, qb, Lasting
<1>c5. Turns(l, p, {x, P, L, y, qb, qm, q0, gt}, c5, {x, P, L, y, qb, qm, q0, gt, k0})
  <2>1. CASE m.proj = "native"
    <3>1. qm = In(l, 0, p, "mxfp4_hidden", "normed", "mxfp4")
      BY <2>1 DEF qm
    <3>. QED BY <1>0, <1>on, <2>1, <3>1, MatvecReuseTurns DEF y, qb, k0, Lasting
  <2>2. CASE m.proj # "native"
    <3>1. qm = x
      BY <2>2 DEF qm
    <3>. QED BY <1>0, <1>on, <2>2, <3>1, MatvecReuseTurns DEF y, qb, k0, Lasting
  <2>. QED BY <2>1, <2>2
<1>c6. Turns(l, p, {x, P, L, y, qb, qm, q0, gt, k0}, c6, {x, P, L, y, qa, qm, q0, gt, k0})
  BY <1>0, <1>on, PrepareTurns DEF y, qa, qb, Lasting
<1>c7. Turns(l, p, {x, P, L, y, qa, qm, q0, gt, k0}, c7, {x, P, L, q0, gt, k0, v0})
  BY <1>0, <1>on, MatvecReuseTurns DEF y, qa, qm, v0, Lasting, x
<1>. HIDE DEF c1, c2, c3, c4, c5, c6, c7
<1>g1. Turns(l, p, {x, P, L}, g1, {x, P, L, y})
  BY <1>c1
<1>. HIDE DEF g1
<1>all. Turns(l, p, {x, P, L}, g1 \o c2 \o c3 \o c4 \o c5 \o c6 \o c7, {x, P, L, q0, gt, k0, v0})
  BY <1>g1, <1>c2, <1>c3, <1>c4, <1>c5, <1>c6, <1>c7, TurnsConcat
<1>. QED BY <1>eq, <1>all DEF x, P, L, q0, gt, k0, v0

(* The norms of query, key and value, and the rotation.                    *)
LEMMA RotateTurns ==
    ASSUME NEW l \in Nat, NEW p \in Nat, NEW m \in LayerType, NEW h \in Buffers
    PROVE  LET x == Now(l, p, h, "x")
               P == Now(0, p, "decode_position", "position")
               L == Now(0, p, "decode_seq_len", "length")
               gt == IF m.gated THEN Now(l, p, "gate_attn", "gate") ELSE x
               q1 == Now(l, p, "q", IF m.qnorm THEN "qn" ELSE "q")
               k1 == IF m.parent = 0 THEN Now(l, p, "k", IF m.qnorm THEN "kn" ELSE "k") ELSE x
               v1 == IF m.parent = 0 THEN Now(l, p, "v", ValueName(m)) ELSE x
           IN  /\ Turns(l, p, {x, P, L, gt, Now(l, p, "q", "q"), IF m.parent = 0 THEN Now(l, p, "k", "k") ELSE x,
                              IF m.parent = 0 THEN Now(l, p, "v", "v") ELSE x},
                        NormQkv(l, m), {x, P, L, gt, v1, q1, k1})
               /\ Turns(l, p, {x, P, L, gt, v1, q1, k1}, Rotate(l, m),
                        {x, P, L, gt, Now(l, p, "q", QueryName(m)), IF m.parent = 0 THEN Now(l, p, "k", "kr") ELSE x, v1})
<1>0. m.proj \in Formats /\ m.oproj \in Formats /\ m.gated \in BOOLEAN /\ m.qnorm \in BOOLEAN /\ h \in {"bufA", "bufB"}
  BY DEF LayerType, Buffers
<1>. DEFINE x == Now(l, p, h, "x")
            P == Now(0, p, "decode_position", "position")
            L == Now(0, p, "decode_seq_len", "length")
            gt == IF m.gated THEN Now(l, p, "gate_attn", "gate") ELSE x
            q0 == Now(l, p, "q", "q")
            k0 == IF m.parent = 0 THEN Now(l, p, "k", "k") ELSE x
            v0 == IF m.parent = 0 THEN Now(l, p, "v", "v") ELSE x
            q1 == Now(l, p, "q", IF m.qnorm THEN "qn" ELSE "q")
            k1 == IF m.parent = 0 THEN Now(l, p, "k", IF m.qnorm THEN "kn" ELSE "k") ELSE x
            v1 == IF m.parent = 0 THEN Now(l, p, "v", ValueName(m)) ELSE x
            q2 == Now(l, p, "q", "qr")
            k2 == IF m.parent = 0 THEN Now(l, p, "k", "kr") ELSE x
            q3 == Now(l, p, "q", QueryName(m))
            c1 == When(m.qnorm, NormOne(l, "q", "q", "qn"))
            c2 == When(m.qnorm /\ m.parent = 0, NormOne(l, "k", "k", "kn"))
            c3 == When(m.qnorm /\ m.parent = 0 /\ ~m.gated, NormOne(l, "v", "v", "vn"))
            c4 == <<Also(K(l, "q", "qr", {<<"q", IF m.qnorm THEN "qn" ELSE "q">>}), Position)>>
            c5 == When(m.parent = 0, <<Also(K(l, "k", "kr", {<<"k", IF m.qnorm THEN "kn" ELSE "k">>}), Position)>>)
            c6 == When(m.qnorm /\ ~m.gated, <<K(l, "q", "qs", {<<"q", "qr">>})>>)
<1>on. x[1] = h /\ P[1] = "decode_position" /\ L[1] = "decode_seq_len" /\ gt[1] = (IF m.gated THEN "gate_attn"
       ELSE h) /\ q0[1] = "q" /\ k0[1] = (IF m.parent = 0 THEN "k" ELSE h) /\ v0[1] = (IF m.parent = 0 THEN "v"
       ELSE h) /\ q1[1] = "q" /\ k1[1] = (IF m.parent = 0 THEN "k" ELSE h) /\ v1[1] = (IF m.parent = 0 THEN "v"
       ELSE h) /\ q2[1] = "q" /\ k2[1] = (IF m.parent = 0 THEN "k" ELSE h) /\ q3[1] = "q"
  <2>1. x[1] = h /\ P[1] = "decode_position" /\ L[1] = "decode_seq_len" /\ q0[1] = "q" /\ q1[1] = "q" /\ q2[1]
        = "q" /\ q3[1] = "q"
    BY FactOn
  <2>2. gt[1] = IF m.gated THEN "gate_attn" ELSE h
    BY FactOn
  <2>3. k0[1] = IF m.parent = 0 THEN "k" ELSE h
    BY FactOn
  <2>4. v0[1] = IF m.parent = 0 THEN "v" ELSE h
    BY FactOn
  <2>5. k1[1] = IF m.parent = 0 THEN "k" ELSE h
    BY FactOn
  <2>6. v1[1] = IF m.parent = 0 THEN "v" ELSE h
    BY FactOn
  <2>7. k2[1] = IF m.parent = 0 THEN "k" ELSE h
    BY FactOn
  <2>. QED BY <2>1, <2>2, <2>3, <2>4, <2>5, <2>6, <2>7
<1>eq1. NormQkv(l, m) = c1 \o c2 \o c3
  BY DEF NormQkv
<1>eq2. Rotate(l, m) = c4 \o c5 \o c6
  BY DEF Rotate
<1>. HIDE DEF x, P, L, gt, q0, k0, v0, q1, k1, v1, q2, k2, q3
<1>c1. Turns(l, p, {x, P, L, gt, q0, k0, v0}, c1, {x, P, L, gt, k0, v0, q1})
  <2>1. ASSUME m.qnorm PROVE Turns(l, p, {x, P, L, gt, q0, k0, v0}, NormOne(l, "q", "q", "qn"), {x, P, L, gt, k0, v0, q1})
    BY <1>0, <1>on, <2>1, NormOneTurns DEF q0, q1, Lasting
  <2>2. m.qnorm \/ {x, P, L, gt, k0, v0, q1} \subseteq {x, P, L, gt, q0, k0, v0}
    BY DEF q0, q1
  <2>. QED BY <2>1, <2>2, TurnsWhen
<1>c2. Turns(l, p, {x, P, L, gt, k0, v0, q1}, c2, {x, P, L, gt, v0, q1, k1})
  <2>1. ASSUME m.qnorm /\ m.parent = 0
        PROVE  Turns(l, p, {x, P, L, gt, k0, v0, q1}, NormOne(l, "k", "k", "kn"), {x, P, L, gt, v0, q1, k1})
    BY <1>0, <1>on, <2>1, NormOneTurns DEF k0, k1, Lasting
  <2>2. (m.qnorm /\ m.parent = 0) \/ {x, P, L, gt, v0, q1, k1} \subseteq {x, P, L, gt, k0, v0, q1}
    BY DEF k0, k1
  <2>. QED BY <2>1, <2>2, TurnsWhen
<1>c3. Turns(l, p, {x, P, L, gt, v0, q1, k1}, c3, {x, P, L, gt, q1, k1, v1})
  <2>1. ASSUME m.qnorm /\ m.parent = 0 /\ ~m.gated
        PROVE  Turns(l, p, {x, P, L, gt, v0, q1, k1}, NormOne(l, "v", "v", "vn"), {x, P, L, gt, q1, k1, v1})
    BY <1>0, <1>on, <2>1, NormOneTurns DEF v0, v1, ValueName, Lasting
  <2>2. (m.qnorm /\ m.parent = 0 /\ ~m.gated) \/ {x, P, L, gt, q1, k1, v1} \subseteq {x, P, L, gt, v0, q1, k1}
    BY DEF v0, v1, ValueName
  <2>. QED BY <2>1, <2>2, TurnsWhen
<1>c4. Turns(l, p, {x, P, L, gt, q1, k1, v1}, c4, {x, P, L, gt, k1, v1, q2})
  BY <1>0, <1>on, AlsoTurns DEF P, q1, q2, Lasting, Position
<1>c5. Turns(l, p, {x, P, L, gt, k1, v1, q2}, c5, {x, P, L, gt, v1, q2, k2})
  <2>1. ASSUME m.parent = 0
        PROVE  Turns(l, p, {x, P, L, gt, k1, v1, q2},
                     <<Also(K(l, "k", "kr", {<<"k", IF m.qnorm THEN "kn" ELSE "k">>}), Position)>>,
                     {x, P, L, gt, v1, q2, k2})
    BY <1>0, <1>on, <2>1, AlsoTurns DEF k1, k2, P, Position, Lasting
  <2>2. m.parent = 0 \/ {x, P, L, gt, v1, q2, k2} \subseteq {x, P, L, gt, k1, v1, q2}
    BY DEF k1, k2
  <2>. QED BY <2>1, <2>2, TurnsWhen
<1>c6. Turns(l, p, {x, P, L, gt, v1, q2, k2}, c6, {x, P, L, gt, q3, k2, v1})
  <2>1. ASSUME m.qnorm /\ ~m.gated
        PROVE  Turns(l, p, {x, P, L, gt, v1, q2, k2}, <<K(l, "q", "qs", {<<"q", "qr">>})>>, {x, P, L, gt, q3, k2, v1})
    BY <1>0, <1>on, <2>1, K1Turns DEF q2, q3, QueryName, Lasting
  <2>2. (m.qnorm /\ ~m.gated) \/ {x, P, L, gt, q3, k2, v1} \subseteq {x, P, L, gt, v1, q2, k2}
    BY DEF q2, q3, QueryName
  <2>. QED BY <2>1, <2>2, TurnsWhen
<1>. HIDE DEF c1, c2, c3, c4, c5, c6
<1>all1. Turns(l, p, {x, P, L, gt, q0, k0, v0}, c1 \o c2 \o c3, {x, P, L, gt, q1, k1, v1})
  BY <1>c1, <1>c2, <1>c3, TurnsConcat
<1>all2. Turns(l, p, {x, P, L, gt, q1, k1, v1}, c4 \o c5 \o c6, {x, P, L, gt, q3, k2, v1})
  BY <1>c4, <1>c5, <1>c6, TurnsConcat
<1>. QED BY <1>eq1, <1>eq2, <1>all1, <1>all2 DEF x, P, L, gt, q0, k0, v0, q1, k1, v1, q3, k2

(* The gate, the output projection, the norm and the residual.             *)
LEMMA AttentionOutTurns ==
    ASSUME NEW l \in Nat, NEW p \in Nat, NEW m \in LayerType, NEW h \in Buffers
    PROVE  LET x == Now(l, p, h, "x")
               a1 == Now(l, p, "attn_context", IF m.gated THEN "gctx" ELSE "ctx")
               o == Now(l, p, "attn_out", "o")
           IN  /\ Turns(l, p, {x, IF m.gated THEN Now(l, p, "gate_attn", "gate") ELSE x, Now(l, p, "attn_context", "ctx")},
                        When(m.gated, <<K(l, "attn_context", "gctx", {<<"attn_context", "ctx">>, <<"gate_attn", "gate">>})>>),
                        {x, a1})
               /\ Turns(l, p, {x, a1},
                        Matvec(l, 0, m.oproj, "attn_context", IF m.gated THEN "gctx" ELSE "ctx", "quant_hidden",
                               "mxfp4_hidden", "attn_out", "o"),
                        {x, o})
               /\ Turns(l, p, {x, o},
                        IF m.post
                        THEN <<K(l, "post_normed", "on", {<<"attn_out", "o">>}),
                               K(l, "residual", "residual", {<<h, "x">>, <<"post_normed", "on">>})>>
                        ELSE <<K(l, "residual", "residual", {<<h, "x">>, <<"attn_out", "o">>})>>,
                        {x, Now(l, p, "residual", "residual")})
<1>0. m.proj \in Formats /\ m.oproj \in Formats /\ m.gated \in BOOLEAN /\ m.qnorm \in BOOLEAN /\ h \in {"bufA", "bufB"}
  BY DEF LayerType, Buffers
<1>. DEFINE x == Now(l, p, h, "x")
            gt == IF m.gated THEN Now(l, p, "gate_attn", "gate") ELSE x
            a0 == Now(l, p, "attn_context", "ctx")
            a1 == Now(l, p, "attn_context", IF m.gated THEN "gctx" ELSE "ctx")
            o == Now(l, p, "attn_out", "o")
            on == Now(l, p, "post_normed", "on")
            r == Now(l, p, "residual", "residual")
            c1 == When(m.gated, <<K(l, "attn_context", "gctx", {<<"attn_context", "ctx">>, <<"gate_attn", "gate">>})>>)
            c2 == Matvec(l, 0, m.oproj, "attn_context", IF m.gated THEN "gctx" ELSE "ctx", "quant_hidden", "mxfp4_hidden",
                  "attn_out", "o")
            c3 == IF m.post
                  THEN <<K(l, "post_normed", "on", {<<"attn_out", "o">>}),
                         K(l, "residual", "residual", {<<h, "x">>, <<"post_normed", "on">>})>>
                  ELSE <<K(l, "residual", "residual", {<<h, "x">>, <<"attn_out", "o">>})>>
<1>on. x[1] = h /\ gt[1] = (IF m.gated THEN "gate_attn" ELSE h) /\ a0[1] = "attn_context" /\ a1[1] =
       "attn_context" /\ o[1] = "attn_out" /\ on[1] = "post_normed" /\ r[1] = "residual"
  <2>1. x[1] = h /\ a0[1] = "attn_context" /\ a1[1] = "attn_context" /\ o[1] = "attn_out" /\ on[1] =
        "post_normed" /\ r[1] = "residual"
    BY FactOn
  <2>2. gt[1] = IF m.gated THEN "gate_attn" ELSE h
    BY FactOn
  <2>. QED BY <2>1, <2>2
<1>eq1. When(m.gated, <<K(l, "attn_context", "gctx", {<<"attn_context", "ctx">>, <<"gate_attn", "gate">>})>>) =
         c1
  OBVIOUS
<1>eq2. Matvec(l, 0, m.oproj, "attn_context", IF m.gated THEN "gctx" ELSE "ctx", "quant_hidden",
         "mxfp4_hidden", "attn_out", "o") = c2
  OBVIOUS
<1>eq3. (IF m.post
                  THEN <<K(l, "post_normed", "on", {<<"attn_out", "o">>}),
                         K(l, "residual", "residual", {<<h, "x">>, <<"post_normed", "on">>})>>
                  ELSE <<K(l, "residual", "residual", {<<h, "x">>, <<"attn_out", "o">>})>>) = c3
  OBVIOUS
<1>. HIDE DEF x, gt, a0, a1, o, on, r
<1>c1. Turns(l, p, {x, gt, a0}, c1, {x, a1})
  <2>1. ASSUME m.gated
        PROVE  Turns(l, p, {x, gt, a0},
                     <<K(l, "attn_context", "gctx", {<<"attn_context", "ctx">>, <<"gate_attn", "gate">>})>>,
                     {x, a1})
    BY <1>0, <1>on, <2>1, K2Turns DEF a0, a1, gt, Lasting
  <2>2. m.gated \/ {x, a1} \subseteq {x, gt, a0}
    BY DEF a0, a1, gt
  <2>. QED BY <2>1, <2>2, TurnsWhen
<1>c2. Turns(l, p, {x, a1}, c2, {x, o})
  BY <1>0, <1>on, LinearTurns DEF a1, o, Lasting
<1>c3. Turns(l, p, {x, o}, c3, {x, r})
  <2>1. CASE m.post
    <3>1. Turns(l, p, {x, o}, <<K(l, "post_normed", "on", {<<"attn_out", "o">>})>>, {x, on})
      BY <1>0, <1>on, K1Turns DEF o, on, Lasting
    <3>2. Turns(l, p, {x, on}, <<K(l, "residual", "residual", {<<h, "x">>, <<"post_normed", "on">>})>>, {x, r})
      BY <1>0, <1>on, K2Turns DEF x, on, r, Lasting
    <3>. QED BY <2>1, <3>1, <3>2, TurnsTwo
  <2>2. CASE ~m.post
    <3>1. Turns(l, p, {x, o}, <<K(l, "residual", "residual", {<<h, "x">>, <<"attn_out", "o">>})>>, {x, r})
      BY <1>0, <1>on, K2Turns DEF x, o, r, Lasting
    <3>. QED BY <2>2, <3>1
  <2>. QED BY <2>1, <2>2
<1>. HIDE DEF c1, c2, c3
<1>all1. Turns(l, p, {x, gt, a0}, c1, {x, a1})
  BY <1>c1
<1>all2. Turns(l, p, {x, a1}, c2, {x, o})
  BY <1>c2
<1>all3. Turns(l, p, {x, o}, c3, {x, r})
  BY <1>c3
<1>. QED BY <1>eq1, <1>eq2, <1>eq3, <1>all1, <1>all2, <1>all3 DEF x, gt, a0, a1, o, r

(* The rows of a cache up to a position, and what a layer leaves alone: of *)
(* the memory all that it does not write, of the caches all but the row of *)
(* this position in its own.                                               *)
Cached(d, l, n) == \A r \in 0 .. n - 1 : RowIn(d, <<"kv", l>>, r) = Val("kv", "f32", l, 0, r)
Grown(d, e, l, p, own) ==
    /\ \A b, j : ~Free(l, b, j) => Cell(e, <<b, j>>) = Cell(d, <<b, j>>)
    /\ \A b, r : RowIn(e, b, r) = IF own /\ b = <<"kv", l>> /\ r = p THEN Val("kv", "f32", l, 0, p) ELSE RowIn(d, b, r)

(* Nothing is stored, or in two programs.                                  *)
LEMMA GrownKept ==
    ASSUME NEW d, NEW e, NEW l, NEW p, Kept(d, e, l)
    PROVE  Grown(d, e, l, p, FALSE)
BY DEF Kept, Grown, RowIn

(* What is kept after or before.                                           *)
LEMMA GrownThen ==
    ASSUME NEW c, NEW d, NEW e, NEW l, NEW p, NEW own \in BOOLEAN
    PROVE  /\ Kept(c, d, l) /\ Grown(d, e, l, p, own) => Grown(c, e, l, p, own)
           /\ Grown(c, d, l, p, own) /\ Kept(d, e, l) => Grown(c, e, l, p, own)
BY DEF Kept, Grown, RowIn

(* A device with one row more.                                             *)
LEMMA AddedRow ==
    ASSUME NEW d, NEW b, NEW r, NEW v
    PROVE  LET e == AddRow(d, b, r, v)
           IN  /\ \A c : Cell(e, c) = Cell(d, c)
               /\ \A c, s : RowIn(e, c, s) = IF c = b /\ s = r THEN v ELSE RowIn(d, c, s)
<1>. DEFINE e == AddRow(d, b, r, v)
            old == IF b \in DOMAIN d.rows THEN d.rows[b] ELSE <<>>
            new == [i \in {r} |-> v]
            o == Over(new, old)
<1>1. e.mem = d.mem /\ e.rows = Written(d.rows, b, o)
  BY DEF AddRow, PutRows
<1>2. DOMAIN o = {r} \cup DOMAIN old /\ \A s \in DOMAIN o : o[s] = IF s = r THEN v ELSE old[s]
  BY DEF Over
<1>3. b \notin DOMAIN d.rows => DOMAIN old = {}
  OBVIOUS
<1>4. b \in DOMAIN d.rows => old = d.rows[b]
  OBVIOUS
<1>. HIDE DEF o, old, e
<1>5. DOMAIN e.rows = DOMAIN d.rows \cup {b} /\ \A c \in DOMAIN e.rows : e.rows[c] = IF c = b THEN o ELSE d.rows[c]
  BY <1>1 DEF Written
<1>6. \A c : Cell(e, c) = Cell(d, c)
  BY <1>1 DEF Cell
<1>7. ASSUME NEW c, NEW s PROVE RowIn(e, c, s) = IF c = b /\ s = r THEN v ELSE RowIn(d, c, s)
  <2>1. CASE c # b
    BY <1>5, <2>1 DEF RowIn
  <2>2. CASE c = b
    <3>1. e.rows[c] = o /\ c \in DOMAIN e.rows
      BY <1>5, <2>2
    <3>2. CASE s = r
      BY <3>1, <3>2, <1>2, <2>2 DEF RowIn
    <3>3. CASE s # r
      <4>1. s \in DOMAIN o <=> s \in DOMAIN old
        BY <1>2, <3>3
      <4>2. s \in DOMAIN old => o[s] = old[s]
        BY <1>2, <3>3
      <4>. QED BY <3>1, <3>3, <4>1, <4>2, <1>3, <1>4, <2>2 DEF RowIn
    <3>. QED BY <3>2, <3>3
  <2>. QED BY <2>1, <2>2
<1>. QED BY <1>6, <1>7 DEF e

(* A key and a value are stored.                                           *)
LEMMA StoreGives ==
    ASSUME NEW l \in Nat, NEW p \in Nat, NEW m \in LayerType, m.parent = 0, ~m.hostKv, NEW d,
           Holds(d, {Now(0, p, "decode_position", "position"), Now(l, p, "k", "kr"), Now(l, p, "v", ValueName(m))})
    PROVE  Gives(d, Store(l, m), AddRow(d, <<"kv", l>>, p, Val("kv", "f32", l, 0, p)))
<1>. DEFINE w1 == Want("k", "kr", "f32", l, 0)
            w2 == Want("v", ValueName(m), "f32", l, 0)
            w3 == Want("decode_position", "position", "f32", 0, 0)
            op == Store(l, m)
            A == {Now(0, p, "decode_position", "position"), Now(l, p, "k", "kr"), Now(l, p, "v", ValueName(m))}
            e == AddRow(d, <<"kv", l>>, p, Val("kv", "f32", l, 0, p))
            n == ValueName(m)
<1>1. /\ op.kind = "store" /\ op.stream = "compute" /\ op.host = {} /\ op.name = "kv" /\ op.out = <<"kv", l>>
      /\ op.in = {w1, w2, w3} /\ op.layer = l /\ op.slot = 0
  BY DEF Store, Also, K, Op, Position, KvBuffer
<1>2. n \in {"v", "vn"}
  BY DEF ValueName
<1>. HIDE DEF n, op
<1>3. /\ w1.back = 0 /\ w1.name = "kr" /\ w2.back = 0 /\ w2.name = n /\ w3.back = 0 /\ w3.name = "position"
  BY DEF Want, n
<1>4. Granted(A, w1, p) /\ Granted(A, w2, p) /\ Granted(A, w3, p)
  <2>1. n # "zero" /\ "kr" # "zero" /\ "position" # "zero"
    BY <1>2
  <2>2. Now(l, p, "k", "kr") \in A /\ Now(l, p, "v", n) \in A /\ Now(0, p, "decode_position", "position") \in A
    BY DEF n
  <2>. HIDE DEF A
  <2>. QED BY <2>1, <2>2, WantGranted DEF Now, n
<1>. HIDE DEF w1, w2, w3, A
<1>5. ASSUME NEW w \in op.in PROVE Meets(Cell(d, w.buf), w, p)
  <2>1. Granted(A, w, p)
    BY <1>1, <1>4
  <2>2. PICK x \in A : w.buf = <<x[1], x[2]>> /\ Meets(x[3], w, p)
    BY <2>1 DEF Granted
  <2>3. Cell(d, <<x[1], x[2]>>) = x[3]
    BY DEF Holds, A
  <2>. QED BY <2>2, <2>3
<1>6. Anchored(op)
  BY <1>1, <1>3 DEF Anchored
<1>7. (\E w \in op.in : w.name = "position") /\ \A w \in op.in : w.name = "position" => w.back = 0
  BY <1>1, <1>3
<1>8. e = AddRow(d, op.out, p, Val(op.name, "f32", op.layer, 0, p))
  BY <1>1
<1>. HIDE DEF e
<1>9. Yields(d, op, p, e)
  BY <1>1, <1>6, <1>7, <1>8 DEF Yields
<1>10. Gives(d, op, e)
  BY <1>1, <1>5, <1>9 DEF Gives
<1>. QED BY <1>10 DEF e, op

(* The rows are read, a being the position at which the host issues this.  *)
LEMMA AttendGives ==
    ASSUME NEW l \in Nat, NEW p \in Nat, NEW a \in Nat, p < GraphMax \/ p <= a,
           NEW m \in LayerType, ~m.hostKv, NEW d,
           Holds(d, {Now(0, p, "decode_seq_len", "length"), Now(l, p, "q", QueryName(m))}),
           Cached(d, IF m.parent = 0 THEN l ELSE m.parent, p + 1)
    PROVE  Gives(d, Attend(l, m, a), Stored(d, <<"attn_context", 0>>, Val("ctx", "f32", l, 0, p)))
<1>. DEFINE w1 == Want("q", QueryName(m), "f32", l, 0)
            w2 == Want("decode_seq_len", "length", "f32", 0, 0)
            op == Attend(l, m, a)
            A == {Now(0, p, "decode_seq_len", "length"), Now(l, p, "q", QueryName(m))}
            e == Stored(d, <<"attn_context", 0>>, Val("ctx", "f32", l, 0, p))
            n == QueryName(m)
            s == IF m.parent = 0 THEN l ELSE m.parent
<1>1. /\ op.kind = "attend" /\ op.stream = "compute" /\ op.host = {} /\ op.name = "ctx" /\ op.out = <<"attn_context", 0>>
      /\ op.in = {w1, w2} /\ op.layer = l /\ op.slot = s /\ op.id = <<"kv", s>> /\ op.at = a + 1 /\ op.form = "f32"
  BY DEF Attend, Also, K, Op, Length, KvBuffer
<1>2. n \in {"qs", "qr"}
  BY DEF QueryName
<1>. HIDE DEF n, op, s
<1>3. w1.back = 0 /\ w1.name = n
  BY DEF Want, n
<1>4. Granted(A, w1, p) /\ Granted(A, w2, p)
  <2>1. n # "zero" /\ "length" # "zero"
    BY <1>2
  <2>2. Now(l, p, "q", n) \in A /\ Now(0, p, "decode_seq_len", "length") \in A
    BY DEF n
  <2>. HIDE DEF A
  <2>. QED BY <2>1, <2>2, WantGranted DEF Now, n
<1>. HIDE DEF w1, w2, A
<1>5. ASSUME NEW w \in op.in PROVE Meets(Cell(d, w.buf), w, p)
  <2>1. Granted(A, w, p)
    BY <1>1, <1>4
  <2>2. PICK x \in A : w.buf = <<x[1], x[2]>> /\ Meets(x[3], w, p)
    BY <2>1 DEF Granted
  <2>3. Cell(d, <<x[1], x[2]>>) = x[3]
    BY DEF Holds, A
  <2>. QED BY <2>2, <2>3
<1>6. Anchored(op)
  BY <1>1, <1>2, <1>3 DEF Anchored
<1>7. e = Stored(d, op.out, Val(op.name, op.form, op.layer, 0, p))
  BY <1>1
<1>8. p < GraphMax \/ p < op.at
  BY <1>1
<1>9. \A r \in 0 .. p : RowIn(d, op.id, r) = Val("kv", "f32", op.slot, 0, r)
  <2>1. p + 1 - 1 = p
    OBVIOUS
  <2>. QED BY <1>1, <2>1 DEF Cached, s
<1>. HIDE DEF e
<1>10. Yields(d, op, p, e)
  BY <1>1, <1>6, <1>7, <1>8, <1>9 DEF Yields
<1>11. Gives(d, op, e)
  BY <1>1, <1>5, <1>10 DEF Gives
<1>. QED BY <1>11 DEF e, op

(* A device whose buffer b has another value.                              *)
LEMMA StoredIn ==
    ASSUME NEW d, NEW b, NEW v
    PROVE  LET e == Stored(d, b, v)
           IN  /\ \A c : Cell(e, c) = IF c = b THEN v ELSE Cell(d, c)
               /\ e.rows = d.rows
BY DEF Cell, Stored, Written

(* A layer of attention, at position p, as the host issues it for position *)
(* a.                                                                      *)
LEMMA AttentionLeads ==
    ASSUME NEW l \in Nat, NEW p \in Nat, NEW a \in Nat, p < GraphMax \/ p <= a,
           NEW m \in LayerType, ~m.hostKv, NEW h \in Buffers, NEW d,
           Holds(d, {Now(l, p, h, "x"), Now(0, p, "decode_position", "position"), Now(0, p, "decode_seq_len", "length")}),
           Cached(d, IF m.parent = 0 THEN l ELSE m.parent, IF m.parent = 0 THEN p ELSE p + 1)
    PROVE  \E e : /\ Leads(d, Attention(l, m, h, a), e)
                  /\ Holds(e, {Now(l, p, h, "x"), Now(l, p, "residual", "residual")})
                  /\ Grown(d, e, l, p, m.parent = 0)
<1>. DEFINE x == Now(l, p, h, "x")
            P == Now(0, p, "decode_position", "position")
            L == Now(0, p, "decode_seq_len", "length")
            gt == IF m.gated THEN Now(l, p, "gate_attn", "gate") ELSE x
            q0 == Now(l, p, "q", "q")
            q1 == Now(l, p, "q", IF m.qnorm THEN "qn" ELSE "q")
            q3 == Now(l, p, "q", QueryName(m))
            k0 == IF m.parent = 0 THEN Now(l, p, "k", "k") ELSE x
            k1 == IF m.parent = 0 THEN Now(l, p, "k", IF m.qnorm THEN "kn" ELSE "k") ELSE x
            k2 == IF m.parent = 0 THEN Now(l, p, "k", "kr") ELSE x
            v0 == IF m.parent = 0 THEN Now(l, p, "v", "v") ELSE x
            v1 == IF m.parent = 0 THEN Now(l, p, "v", ValueName(m)) ELSE x
            a0 == Now(l, p, "attn_context", "ctx")
            a1 == Now(l, p, "attn_context", IF m.gated THEN "gctx" ELSE "ctx")
            o  == Now(l, p, "attn_out", "o")
            r  == Now(l, p, "residual", "residual")
            own == m.parent = 0
            src == IF m.parent = 0 THEN l ELSE m.parent
            row == Val("kv", "f32", l, 0, p)
            project == IF m.proj = "plain" THEN ProjectQkvPlain(l, m, h) ELSE ProjectQkvNvfp4(l, m, h)
            store == When(m.parent = 0 \/ m.hostKv, <<Store(l, m)>>)
            attend == <<Attend(l, m, a)>>
            gate == When(m.gated, <<K(l, "attn_context", "gctx", {<<"attn_context", "ctx">>, <<"gate_attn", "gate">>})>>)
            out == Matvec(l, 0, m.oproj, "attn_context", IF m.gated THEN "gctx" ELSE "ctx",
                          "quant_hidden", "mxfp4_hidden", "attn_out", "o")
            add == IF m.post
                   THEN <<K(l, "post_normed", "on", {<<"attn_out", "o">>}),
                          K(l, "residual", "residual", {<<h, "x">>, <<"post_normed", "on">>})>>
                   ELSE <<K(l, "residual", "residual", {<<h, "x">>, <<"attn_out", "o">>})>>
            qkv == NormQkv(l, m)
            rot == Rotate(l, m)
            head == project \o qkv \o rot
            whole == head \o store \o attend \o gate \o out \o add
<1>1. Attention(l, m, h, a) = whole
  BY DEF Attention
<1>2. Turns(l, p, {x, P, L}, project, {x, P, L, gt, q0, k0, v0})
  <2>1. Turns(l, p, {x, P, L}, ProjectQkvPlain(l, m, h), {x, P, L, gt, q0, k0, v0})
    <3>1. {x, P, L, q0, gt, k0, v0} = {x, P, L, gt, q0, k0, v0}
      <4>. HIDE DEF x, P, L, q0, gt, k0, v0
      <4>. QED OBVIOUS
    <3>2. Turns(l, p, {x, P, L}, ProjectQkvPlain(l, m, h), {x, P, L, q0, gt, k0, v0})
      BY QkvPlainTurns
    <3>. QED BY <3>1, <3>2
  <2>2. Turns(l, p, {x, P, L}, ProjectQkvNvfp4(l, m, h), {x, P, L, gt, q0, k0, v0})
    <3>. DEFINE B == {x, P, L, q0, gt, Now(l, p, "k", "k"), Now(l, p, "v", "v")}
                C == {x, P, L, gt, q0, k0, v0}
                A == {x, P, L}
    <3>1. Turns(l, p, A, ProjectQkvNvfp4(l, m, h), B)
      BY QkvNvfp4Turns
    <3>2. C \subseteq B
      <4>. HIDE DEF x, P, L, q0, gt
      <4>. QED OBVIOUS
    <3>3. A \subseteq A
      OBVIOUS
    <3>. HIDE DEF A, B, C
    <3>. QED BY <3>1, <3>2, <3>3, TurnsWeaker DEF A, C
  <2>. QED BY <2>1, <2>2
<1>3. Turns(l, p, {x, P, L, gt, q0, k0, v0}, qkv, {x, P, L, gt, v1, q1, k1})
      /\ Turns(l, p, {x, P, L, gt, v1, q1, k1}, rot, {x, P, L, gt, q3, k2, v1})
  <2>1. Turns(l, p, {x, P, L, gt, q0, k0, v0}, qkv, {x, P, L, gt, v1, q1, k1})
    BY RotateTurns
  <2>2. Turns(l, p, {x, P, L, gt, v1, q1, k1}, rot, {x, P, L, gt, q3, k2, v1})
    BY RotateTurns
  <2>. QED BY <2>1, <2>2
<1>4. /\ Turns(l, p, {x, gt, a0}, gate, {x, a1})
      /\ Turns(l, p, {x, a1}, out, {x, o})
      /\ Turns(l, p, {x, o}, add, {x, r})
  BY AttentionOutTurns
<1>on. x[1] = h /\ a0 = <<"attn_context", 0, Val("ctx", "f32", l, 0, p)>> /\ gt[1] \in {h, "gate_attn"}
  <2>1. x[1] = h /\ Now(l, p, "gate_attn", "gate")[1] = "gate_attn"
    BY FactOn
  <2>. QED BY <2>1 DEF Now, In
<1>. HIDE DEF x, P, L, gt, q0, q1, k0, k1, v0, a1, o, r, project, qkv, rot, gate, out, add, head
<1>5. Turns(l, p, {x, P, L}, head, {x, P, L, gt, q3, k2, v1})
  <2>1. Turns(l, p, {x, P, L}, project \o qkv, {x, P, L, gt, v1, q1, k1})
    BY <1>2, <1>3, TurnsConcat
  <2>2. Turns(l, p, {x, P, L}, project \o qkv \o rot, {x, P, L, gt, q3, k2, v1})
    BY <2>1, <1>3, TurnsConcat
  <2>. QED BY <2>2 DEF head
<1>6. PICK d1 : Leads(d, head, d1) /\ Holds(d1, {x, P, L, gt, q3, k2, v1}) /\ Kept(d, d1, l)
  <2>1. Holds(d, {x, P, L})
    BY DEF x, P, L
  <2>. QED BY <1>5, <2>1 DEF Turns
<1>7. PICK d2 : Leads(d1, store, d2) /\ Holds(d2, {x, L, gt, q3}) /\ Grown(d1, d2, l, p, own)
  <2>1. CASE m.parent = 0
    <3>. DEFINE d2 == AddRow(d1, <<"kv", l>>, p, row)
    <3>1. Holds(d1, {P, k2, v1})
      BY <1>6 DEF Holds
    <3>2. k2 = Now(l, p, "k", "kr") /\ v1 = Now(l, p, "v", ValueName(m))
      BY <2>1
    <3>3. Gives(d1, Store(l, m), d2)
      BY <2>1, <3>1, <3>2, StoreGives DEF P
    <3>4. /\ \A c : Cell(d2, c) = Cell(d1, c)
          /\ \A c, s : RowIn(d2, c, s) = IF c = <<"kv", l>> /\ s = p THEN row ELSE RowIn(d1, c, s)
      BY AddedRow
    <3>. HIDE DEF d2
    <3>5. Leads(d1, store, d2)
      BY <2>1, <3>3, LeadsOne DEF When
    <3>6. Holds(d2, {x, L, gt, q3})
      BY <1>6, <3>4 DEF Holds
    <3>7. Grown(d1, d2, l, p, own)
      BY <2>1, <3>4 DEF Grown
    <3>. QED BY <3>5, <3>6, <3>7
  <2>2. CASE m.parent # 0
    <3>1. Leads(d1, store, d1)
      BY <2>2, LeadsNone DEF When
    <3>2. Holds(d1, {x, L, gt, q3})
      BY <1>6 DEF Holds
    <3>3. Grown(d1, d1, l, p, own)
      BY <2>2 DEF Grown
    <3>. QED BY <3>1, <3>2, <3>3
  <2>. QED BY <2>1, <2>2
<1>8. Cached(d2, src, p + 1)
  <2>1. ASSUME NEW i \in 0 .. p + 1 - 1 PROVE RowIn(d2, <<"kv", src>>, i) = Val("kv", "f32", src, 0, i)
    <3>1. RowIn(d1, <<"kv", src>>, i) = RowIn(d, <<"kv", src>>, i)
      BY <1>6 DEF Kept, RowIn
    <3>2. RowIn(d2, <<"kv", src>>, i)
          = IF own /\ <<"kv", src>> = <<"kv", l>> /\ i = p THEN row ELSE RowIn(d1, <<"kv", src>>, i)
      BY <1>7 DEF Grown
    <3>3. CASE m.parent = 0
      <4>1. src = l
        BY <3>3
      <4>2. CASE i = p
        BY <3>2, <3>3, <4>1, <4>2
      <4>3. CASE i # p
        <5>1. i \in 0 .. p - 1 /\ Cached(d, l, p)
          BY <4>3, <3>3
        <5>2. RowIn(d, <<"kv", l>>, i) = Val("kv", "f32", l, 0, i)
          BY <5>1 DEF Cached
        <5>. HIDE DEF src
        <5>. QED BY <3>1, <3>2, <4>1, <4>3, <5>2
      <4>. QED BY <4>2, <4>3
    <3>4. CASE m.parent # 0
      <4>1. Cached(d, src, p + 1)
        BY <3>4
      <4>2. RowIn(d, <<"kv", src>>, i) = Val("kv", "f32", src, 0, i)
        BY <4>1 DEF Cached
      <4>. QED BY <3>1, <3>2, <3>4, <4>2
    <3>. QED BY <3>3, <3>4
  <2>. HIDE DEF src
  <2>. QED BY <2>1 DEF Cached
<1>9. PICK d3 : Leads(d2, attend, d3) /\ Holds(d3, {x, gt, a0}) /\ Kept(d2, d3, l)
  <2>. DEFINE d3 == Stored(d2, <<"attn_context", 0>>, Val("ctx", "f32", l, 0, p))
  <2>1. Holds(d2, {L, q3})
    BY <1>7 DEF Holds
  <2>2. Gives(d2, Attend(l, m, a), d3)
    BY <1>8, <2>1, AttendGives DEF L
  <2>3. (\A c : Cell(d3, c) = IF c = <<"attn_context", 0>> THEN Val("ctx", "f32", l, 0, p) ELSE Cell(d2, c))
        /\ d3.rows = d2.rows
    BY StoredIn
  <2>. HIDE DEF d3
  <2>4. Leads(d2, attend, d3)
    BY <2>2, LeadsOne
  <2>5. Cell(d2, <<x[1], x[2]>>) = x[3] /\ Cell(d2, <<gt[1], gt[2]>>) = gt[3]
    BY <1>7 DEF Holds
  <2>6. x[1] # "attn_context" /\ gt[1] # "attn_context"
    BY <1>on DEF Buffers
  <2>7. Holds(d3, {x, gt, a0})
    <3>1. Cell(d3, <<a0[1], a0[2]>>) = a0[3]
      BY <1>on, <2>3
    <3>. HIDE DEF a0
    <3>2. Cell(d3, <<x[1], x[2]>>) = x[3] /\ Cell(d3, <<gt[1], gt[2]>>) = gt[3]
      BY <2>3, <2>5, <2>6
    <3>. QED BY <3>1, <3>2 DEF Holds
  <2>8. Free(l, "attn_context", 0)
    BY DEF Free, Lasting
  <2>9. Kept(d2, d3, l)
    BY <2>3, <2>8 DEF Kept
  <2>. QED BY <2>4, <2>7, <2>9
<1>. HIDE DEF a0, attend, store
<1>10. PICK d4 : Leads(d3, gate, d4) /\ Holds(d4, {x, a1}) /\ Kept(d3, d4, l)
  BY <1>4, <1>9 DEF Turns
<1>11. PICK d5 : Leads(d4, out, d5) /\ Holds(d5, {x, o}) /\ Kept(d4, d5, l)
  BY <1>4, <1>10 DEF Turns
<1>12. PICK e : Leads(d5, add, e) /\ Holds(e, {x, r}) /\ Kept(d5, e, l)
  BY <1>4, <1>11 DEF Turns
<1>13. Leads(d, whole, e)
  <2>1. Leads(d, head \o store, d2)
    BY <1>6, <1>7, LeadsConcat
  <2>2. Leads(d, head \o store \o attend, d3)
    BY <2>1, <1>9, LeadsConcat
  <2>3. Leads(d, head \o store \o attend \o gate, d4)
    BY <2>2, <1>10, LeadsConcat
  <2>4. Leads(d, head \o store \o attend \o gate \o out, d5)
    BY <2>3, <1>11, LeadsConcat
  <2>. QED BY <2>4, <1>12, LeadsConcat
<1>. HIDE DEF whole
<1>14. Grown(d, e, l, p, own)
  <2>1. own \in BOOLEAN
    OBVIOUS
  <2>. HIDE DEF own
  <2>2. Grown(d, d2, l, p, own)
    BY <2>1, <1>6, <1>7, GrownThen
  <2>3. Grown(d, d3, l, p, own)
    BY <2>1, <2>2, <1>9, GrownThen
  <2>4. Grown(d, d4, l, p, own)
    BY <2>1, <2>3, <1>10, GrownThen
  <2>5. Grown(d, d5, l, p, own)
    BY <2>1, <2>4, <1>11, GrownThen
  <2>. QED BY <2>1, <2>5, <1>12, GrownThen
<1>. QED BY <1>1, <1>12, <1>13, <1>14 DEF x, r

(* A kernel with any inputs, at least one of which has a position.         *)
LEMMA OpTurns ==
    ASSUME NEW z, NEW l, NEW p \in Nat, NEW A, NEW B, NEW out, NEW n, NEW f, NEW q, NEW k, NEW in, NEW u \in in,
           u.back = 0, u.name # "zero", \A w \in in : Granted(A, w, p), n # "junk", z = 0 \/ out \notin Lasting,
           \A x \in B : (x \in A /\ x[1] # out) \/ x = In(q, k, p, out, n, f)
    PROVE  Turns(z, p, A, <<Op("kernel", "compute", out, n, f, q, k, in)>>, B)
<1>. DEFINE op == Op("kernel", "compute", out, n, f, q, k, in)
            v == Val(n, f, q, k, p)
<1>1. /\ op.kind = "kernel" /\ op.stream = "compute" /\ op.host = {} /\ op.name = n /\ op.out = <<out, 0>>
      /\ op.in = in /\ op.form = f /\ op.layer = q /\ op.slot = k
  BY DEF Op
<1>. HIDE DEF op
<1>2. Anchored(op)
  BY <1>1 DEF Anchored
<1>3. IsKernel(op, out, 0, v, p)
  BY <1>1, <1>2 DEF IsKernel
<1>. HIDE DEF v
<1>4. Free(z, out, 0)
  BY DEF Free
<1>5. \A x \in B : (x \in A /\ x[1] # out) \/ x = <<out, 0, v>>
  BY DEF In, v
<1>6. \A w \in op.in : Granted(A, w, p)
  BY <1>1
<1>7. Turns(z, p, A, <<op>>, B)
  BY <1>3, <1>4, <1>5, <1>6, KernelTurns
<1>. QED BY <1>7 DEF op

(* Two inputs of any form.                                                 *)
LEMMA TwoTurns ==
    ASSUME NEW z, NEW l, NEW p \in Nat, NEW A, NEW B, NEW out, NEW n, NEW f, NEW q, NEW k,
           NEW b, NEW bn, NEW g, NEW j, NEW i, NEW c, NEW cn, NEW cg, NEW cj, NEW ci,
           bn # "zero", cn # "zero", n # "junk", z = 0 \/ out \notin Lasting,
           In(j, i, p, b, bn, g) \in A, In(cj, ci, p, c, cn, cg) \in A,
           \A x \in B : (x \in A /\ x[1] # out) \/ x = In(q, k, p, out, n, f)
    PROVE  Turns(z, p, A, <<Op("kernel", "compute", out, n, f, q, k, {Want(b, bn, g, j, i), Want(c, cn, cg, cj, ci)})>>, B)
<1>. DEFINE u == Want(b, bn, g, j, i)
            w == Want(c, cn, cg, cj, ci)
            in == {u, w}
<1>1. u.back = 0 /\ u.name # "zero"
  BY DEF Want
<1>2. Granted(A, u, p) /\ Granted(A, w, p)
  BY WantGranted
<1>. HIDE DEF u, w
<1>3. u \in in /\ \A y \in in : Granted(A, y, p)
  BY <1>2
<1>. HIDE DEF in
<1>4. Turns(z, p, A, <<Op("kernel", "compute", out, n, f, q, k, in)>>, B)
  BY <1>1, <1>3, OpTurns
<1>. QED BY <1>4 DEF in, u, w

(* Zeroes are written, from zeroes or from nothing.                        *)
LEMMA ZeroTurns ==
    ASSUME NEW l, NEW p \in Nat, NEW A, NEW B, NEW out, NEW op,
           op.kind = "zero", op.stream = "compute", op.host = {}, op.name = "zero", op.out = <<out, 0>>,
           out \notin Lasting, \A w \in op.in : w.name = "zero" /\ Granted(A, w, p),
           \A x \in B : (x \in A /\ x[1] # out) \/ x = Zeroed(out)
    PROVE  Turns(l, p, A, <<op>>, B)
<1>. DEFINE v == Val("zero", "f32", 0, 0, 0)
<1>2. Zeroed(out) = <<out, 0, v>> /\ Free(l, out, 0)
  BY DEF Zeroed, Free
<1>. HIDE DEF v
<1>3. ASSUME NEW d, Holds(d, A) PROVE Gives(d, op, Stored(d, <<out, 0>>, v))
  <2>. DEFINE e == Stored(d, <<out, 0>>, v)
  <2>1. e = Stored(d, op.out, Val("zero", "f32", 0, 0, 0))
    BY DEF v
  <2>. HIDE DEF e
  <2>2. Yields(d, op, p, e)
    BY <2>1 DEF Yields
  <2>3. ASSUME NEW w \in op.in PROVE Meets(Cell(d, w.buf), w, p)
    <3>1. PICK x \in A : w.buf = <<x[1], x[2]>> /\ Meets(x[3], w, p)
      BY DEF Granted
    <3>2. Cell(d, w.buf) = x[3]
      BY <1>3, <3>1 DEF Holds
    <3>. QED BY <3>1, <3>2
  <2>4. Gives(d, op, e)
    BY <2>2, <2>3 DEF Gives
  <2>. QED BY <2>4 DEF e
<1>4. \A x \in B : (x \in A /\ x[1] # out) \/ x = <<out, 0, v>>
  BY <1>2
<1>. QED BY ONLY <1>2, <1>3, <1>4, StoredTurns, Zenon

(* Without inputs.                                                         *)
LEMMA ZeroedTurns ==
    ASSUME NEW l, NEW p \in Nat, NEW A, NEW B, NEW out, out \notin Lasting,
           \A x \in B : (x \in A /\ x[1] # out) \/ x = Zeroed(out)
    PROVE  Turns(l, p, A, <<Zero(out)>>, B)
<1>. DEFINE op == Zero(out)
<1>1. /\ op.kind = "zero" /\ op.stream = "compute" /\ op.host = {} /\ op.name = "zero" /\ op.out = <<out, 0>>
      /\ op.in = {}
  BY DEF Op, Zero
<1>. HIDE DEF op
<1>2. \A w \in op.in : w.name = "zero" /\ Granted(A, w, p)
  BY <1>1
<1>3. Turns(l, p, A, <<op>>, B)
  BY <1>1, <1>2, ZeroTurns
<1>. QED BY <1>3 DEF op

(* Zero where zero is wanted.                                              *)
LEMMA ZeroGranted ==
    ASSUME NEW A, NEW p, NEW b, NEW f, NEW l, NEW k, Zeroed(b) \in A
    PROVE  Granted(A, Want(b, "zero", f, l, k), p)
<1>. DEFINE w == Want(b, "zero", f, l, k)
            x == Zeroed(b)
<1>1. w.buf = <<b, 0>> /\ w.back = 0 /\ w.name = "zero" /\ x[1] = b /\ x[2] = 0 /\ x[3].name = "zero"
  BY DEF Want, Zeroed, Val
<1>. HIDE DEF w, x
<1>2. Granted(A, w, p)
  BY <1>1 DEF Granted, Meets, x
<1>. QED BY <1>2 DEF w

(* The gate and the up projection, in the formats there are.               *)
LEMMA GateUpNativeTurns ==
    ASSUME NEW z, NEW l \in Nat, NEW p \in Nat, NEW m \in LayerType, m.gateup = "native"
    PROVE  LET r == Now(l, p, "residual", "residual")
               I == IF m.ple THEN Now(0, p, "per_layer_inputs", "inputs") ELSE r
           IN  Turns(z, p, {r, I}, GateUp(l, m), {r, I, Now(l, p, "gate", "g"), Now(l, p, "up", "u")})
<1>0. m.gateup \in Formats /\ m.down \in Formats /\ m.sameScale \in BOOLEAN /\ m.post \in BOOLEAN /\ m.ple \in BOOLEAN
  BY DEF LayerType
<1>. DEFINE sa == Scale(m, TRUE)
            sb == Scale(m, FALSE)
<1>. HIDE DEF sa, sb
<1>. DEFINE r == Now(l, p, "residual", "residual")
            I == IF m.ple THEN Now(0, p, "per_layer_inputs", "inputs") ELSE r
            y == Now(l, p, "post_normed", "normed2")
            mx == In(l, 0, p, "mxfp4_hidden", "normed2", "mxfp4")
            g == Now(l, p, "gate", "g")
            u == Now(l, p, "up", "u")
            c1 == K(l, "post_normed", "normed2", {<<"residual", "residual">>})
            c2 == MatvecReuse(l, "native", "post_normed", "normed2", "quant_hidden", sa, "mxfp4_hidden", FALSE, "gate", "g")
            c3 == MatvecReuse(l, "native", "post_normed", "normed2", "quant_hidden", sb, "mxfp4_hidden", TRUE, "up", "u")
            g1 == <<c1>>
<1>on. r[1] = "residual" /\ I[1] = (IF m.ple THEN "per_layer_inputs" ELSE "residual") /\ y[1] = "post_normed"
       /\ mx[1] = "mxfp4_hidden" /\ g[1] = "gate" /\ u[1] = "up"
  <2>1. r[1] = "residual" /\ y[1] = "post_normed" /\ mx[1] = "mxfp4_hidden" /\ g[1] = "gate" /\ u[1] = "up"
    BY FactOn
  <2>2. I[1] = IF m.ple THEN "per_layer_inputs" ELSE "residual"
    BY FactOn
  <2>. QED BY <2>1, <2>2
<1>eq. GateUp(l, m) = g1 \o c2 \o c3
  BY DEF GateUp, sa, sb
<1>. HIDE DEF r, I, y, mx, g, u
<1>c1. Turns(z, p, {r, I}, <<c1>>, {r, I, y})
  BY <1>0, <1>on, K1Turns DEF r, y, Lasting
<1>c2. Turns(z, p, {r, I, y}, c2, {r, I, y, mx, g})
  BY <1>0, <1>on, MatvecReuseTurns DEF y, mx, g, Lasting
<1>c3. Turns(z, p, {r, I, y, mx, g}, c3, {r, I, g, u})
  BY <1>0, <1>on, MatvecReuseTurns DEF y, mx, u, Lasting
<1>. HIDE DEF c1, c2, c3
<1>g1. Turns(z, p, {r, I}, g1, {r, I, y})
  BY <1>c1
<1>. HIDE DEF g1
<1>all. Turns(z, p, {r, I}, g1 \o c2 \o c3, {r, I, g, u})
  BY <1>g1, <1>c2, <1>c3, TurnsConcat
<1>. QED BY <1>eq, <1>all DEF r, I, g, u

(* With the CUTLASS format: one quantised form for both projections.       *)
LEMMA GateUpCutlassTurns ==
    ASSUME NEW z, NEW l \in Nat, NEW p \in Nat, NEW m \in LayerType, m.gateup = "cutlass"
    PROVE  LET r == Now(l, p, "residual", "residual")
               I == IF m.ple THEN Now(0, p, "per_layer_inputs", "inputs") ELSE r
           IN  Turns(z, p, {r, I}, GateUp(l, m), {r, I, Now(l, p, "gate", "g"), Now(l, p, "up", "u")})
<1>0. m.gateup \in Formats /\ m.down \in Formats /\ m.sameScale \in BOOLEAN /\ m.post \in BOOLEAN /\ m.ple \in BOOLEAN
  BY DEF LayerType
<1>. DEFINE r == Now(l, p, "residual", "residual")
            I == IF m.ple THEN Now(0, p, "per_layer_inputs", "inputs") ELSE r
            y == Now(l, p, "post_normed", "normed2")
            cp == In(l, 0, p, "cutlass_payload", "normed2", "cutlass")
            g == Now(l, p, "gate", "g")
            u == Now(l, p, "up", "u")
            c1 == K(l, "post_normed", "normed2", {<<"residual", "residual">>})
            c2 == Quantise(l, 0, "post_normed", "normed2", "cutlass_payload", "cutlass")
            c3 == Op("kernel", "compute", "gate", "g", "f32", l, 0, {Want("cutlass_payload", "normed2", "cutlass", l, 0)})
            c4 == Op("kernel", "compute", "up", "u", "f32", l, 0, {Want("cutlass_payload", "normed2", "cutlass", l, 0)})
            g1 == <<c1>>
            g3 == <<c3, c4>>
<1>on. r[1] = "residual" /\ I[1] = (IF m.ple THEN "per_layer_inputs" ELSE "residual") /\ y[1] = "post_normed"
       /\ cp[1] = "cutlass_payload" /\ g[1] = "gate" /\ u[1] = "up"
  <2>1. r[1] = "residual" /\ y[1] = "post_normed" /\ cp[1] = "cutlass_payload" /\ g[1] = "gate" /\ u[1] = "up"
    BY FactOn
  <2>2. I[1] = IF m.ple THEN "per_layer_inputs" ELSE "residual"
    BY FactOn
  <2>. QED BY <2>1, <2>2
<1>eq. GateUp(l, m) = g1 \o c2 \o g3
  BY DEF GateUp
<1>. HIDE DEF r, I, y, cp, g, u
<1>c1. Turns(z, p, {r, I}, <<c1>>, {r, I, y})
  BY <1>0, <1>on, K1Turns DEF r, y, Lasting
<1>c2. Turns(z, p, {r, I, y}, c2, {r, I, cp})
  BY <1>0, <1>on, OneTurns DEF y, cp, Lasting, Now, Quantise
<1>c3. Turns(z, p, {r, I, cp}, <<c3>>, {r, I, cp, g})
  BY <1>0, <1>on, OneTurns DEF cp, g, Lasting, Now
<1>c4. Turns(z, p, {r, I, cp, g}, <<c4>>, {r, I, g, u})
  BY <1>0, <1>on, OneTurns DEF cp, u, Lasting, Now
<1>. HIDE DEF c1, c2, c3, c4
<1>g1. Turns(z, p, {r, I}, g1, {r, I, y})
  BY <1>c1
<1>g3. Turns(z, p, {r, I, cp}, g3, {r, I, g, u})
  BY <1>c3, <1>c4, TurnsTwo
<1>. HIDE DEF g1, g3
<1>all. Turns(z, p, {r, I}, g1 \o c2 \o g3, {r, I, g, u})
  BY <1>g1, <1>c2, <1>g3, TurnsConcat
<1>. QED BY <1>eq, <1>all DEF r, I, g, u

(* With weights that take a quantised input, of one or of two scales.      *)
LEMMA GateUpPrequantTurns ==
    ASSUME NEW z, NEW l \in Nat, NEW p \in Nat, NEW m \in LayerType, m.gateup = "prequant"
    PROVE  LET r == Now(l, p, "residual", "residual")
               I == IF m.ple THEN Now(0, p, "per_layer_inputs", "inputs") ELSE r
           IN  Turns(z, p, {r, I}, GateUp(l, m), {r, I, Now(l, p, "gate", "g"), Now(l, p, "up", "u")})
<1>0. m.gateup \in Formats /\ m.down \in Formats /\ m.sameScale \in BOOLEAN /\ m.post \in BOOLEAN /\ m.ple \in BOOLEAN
  BY DEF LayerType
<1>. DEFINE sa == Scale(m, TRUE)
            sb == Scale(m, FALSE)
<1>. HIDE DEF sa, sb
<1>. DEFINE r == Now(l, p, "residual", "residual")
            I == IF m.ple THEN Now(0, p, "per_layer_inputs", "inputs") ELSE r
            y == Now(l, p, "post_normed", "normed2")
            qa == In(l, 0, p, "quant_hidden", "normed2", sa)
            qb == In(l, 0, p, "quant_hidden", "normed2", sb)
            g == Now(l, p, "gate", "g")
            u == Now(l, p, "up", "u")
            c1 == K(l, "post_normed", "normed2", {<<"residual", "residual">>})
            c2 == Quantise(l, 0, "post_normed", "normed2", "quant_hidden", sa)
            c3 == MatvecReuse(l, "prequant", "post_normed", "normed2", "quant_hidden", sa, "mxfp4_hidden", FALSE, "gate",
                  "g")
            c4 == Prepare(l, "post_normed", "normed2", sa, sb, "quant_hidden")
            c5 == MatvecReuse(l, "prequant", "post_normed", "normed2", "quant_hidden", sb, "mxfp4_hidden", FALSE, "up", "u")
            g1 == <<c1>>
<1>on. r[1] = "residual" /\ I[1] = (IF m.ple THEN "per_layer_inputs" ELSE "residual") /\ y[1] = "post_normed"
       /\ qa[1] = "quant_hidden" /\ qb[1] = "quant_hidden" /\ g[1] = "gate" /\ u[1] = "up"
  <2>1. r[1] = "residual" /\ y[1] = "post_normed" /\ qa[1] = "quant_hidden" /\ qb[1] = "quant_hidden" /\ g[1] =
        "gate" /\ u[1] = "up"
    BY FactOn
  <2>2. I[1] = IF m.ple THEN "per_layer_inputs" ELSE "residual"
    BY FactOn
  <2>. QED BY <2>1, <2>2
<1>eq. GateUp(l, m) = g1 \o c2 \o c3 \o c4 \o c5
  BY DEF GateUp, sa, sb
<1>. HIDE DEF r, I, y, qa, qb, g, u
<1>c1. Turns(z, p, {r, I}, <<c1>>, {r, I, y})
  BY <1>0, <1>on, K1Turns DEF r, y, Lasting
<1>c2. Turns(z, p, {r, I, y}, c2, {r, I, y, qa})
  BY <1>0, <1>on, OneTurns DEF y, qa, Lasting, Now, Quantise
<1>c3. Turns(z, p, {r, I, y, qa}, c3, {r, I, y, qa, g})
  BY <1>0, <1>on, MatvecReuseTurns DEF qa, g, Lasting
<1>c4. Turns(z, p, {r, I, y, qa, g}, c4, {r, I, qb, g})
  BY <1>0, <1>on, PrepareTurns DEF y, qa, qb, Lasting
<1>c5. Turns(z, p, {r, I, qb, g}, c5, {r, I, g, u})
  BY <1>0, <1>on, MatvecReuseTurns DEF qb, u, Lasting
<1>. HIDE DEF c1, c2, c3, c4, c5
<1>g1. Turns(z, p, {r, I}, g1, {r, I, y})
  BY <1>c1
<1>. HIDE DEF g1
<1>all. Turns(z, p, {r, I}, g1 \o c2 \o c3 \o c4 \o c5, {r, I, g, u})
  BY <1>g1, <1>c2, <1>c3, <1>c4, <1>c5, TurnsConcat
<1>. QED BY <1>eq, <1>all DEF r, I, g, u

(* With weights that take the input as it is.                              *)
LEMMA GateUpPlainTurns ==
    ASSUME NEW z, NEW l \in Nat, NEW p \in Nat, NEW m \in LayerType, m.gateup = "plain"
    PROVE  LET r == Now(l, p, "residual", "residual")
               I == IF m.ple THEN Now(0, p, "per_layer_inputs", "inputs") ELSE r
           IN  Turns(z, p, {r, I}, GateUp(l, m), {r, I, Now(l, p, "gate", "g"), Now(l, p, "up", "u")})
<1>0. m.gateup \in Formats /\ m.down \in Formats /\ m.sameScale \in BOOLEAN /\ m.post \in BOOLEAN /\ m.ple \in BOOLEAN
  BY DEF LayerType
<1>. DEFINE r == Now(l, p, "residual", "residual")
            I == IF m.ple THEN Now(0, p, "per_layer_inputs", "inputs") ELSE r
            y == Now(l, p, "post_normed", "normed2")
            g == Now(l, p, "gate", "g")
            u == Now(l, p, "up", "u")
            c1 == K(l, "post_normed", "normed2", {<<"residual", "residual">>})
            c2 == K(l, "gate", "g", {<<"post_normed", "normed2">>})
            c3 == K(l, "up", "u", {<<"post_normed", "normed2">>})
            g1 == <<c1>>
            g2 == <<c2, c3>>
<1>on. r[1] = "residual" /\ I[1] = (IF m.ple THEN "per_layer_inputs" ELSE "residual") /\ y[1] = "post_normed"
       /\ g[1] = "gate" /\ u[1] = "up"
  <2>1. r[1] = "residual" /\ y[1] = "post_normed" /\ g[1] = "gate" /\ u[1] = "up"
    BY FactOn
  <2>2. I[1] = IF m.ple THEN "per_layer_inputs" ELSE "residual"
    BY FactOn
  <2>. QED BY <2>1, <2>2
<1>eq. GateUp(l, m) = g1 \o g2
  BY DEF GateUp
<1>. HIDE DEF r, I, y, g, u
<1>c1. Turns(z, p, {r, I}, <<c1>>, {r, I, y})
  BY <1>0, <1>on, K1Turns DEF r, y, Lasting
<1>c2. Turns(z, p, {r, I, y}, <<c2>>, {r, I, y, g})
  BY <1>0, <1>on, K1Turns DEF y, g, Lasting
<1>c3. Turns(z, p, {r, I, y, g}, <<c3>>, {r, I, g, u})
  BY <1>0, <1>on, K1Turns DEF y, u, Lasting
<1>. HIDE DEF c1, c2, c3
<1>g1. Turns(z, p, {r, I}, g1, {r, I, y})
  BY <1>c1
<1>g2. Turns(z, p, {r, I, y}, g2, {r, I, g, u})
  BY <1>c2, <1>c3, TurnsTwo
<1>. HIDE DEF g1, g2
<1>all. Turns(z, p, {r, I}, g1 \o g2, {r, I, g, u})
  BY <1>g1, <1>g2, TurnsConcat
<1>. QED BY <1>eq, <1>all DEF r, I, g, u

(* In any of them.                                                         *)
LEMMA GateUpTurns ==
    ASSUME NEW z, NEW l \in Nat, NEW p \in Nat, NEW m \in LayerType
    PROVE  LET r == Now(l, p, "residual", "residual")
               I == IF m.ple THEN Now(0, p, "per_layer_inputs", "inputs") ELSE r
           IN  Turns(z, p, {r, I}, GateUp(l, m), {r, I, Now(l, p, "gate", "g"), Now(l, p, "up", "u")})
<1>1. m.gateup \in {"native", "prequant", "plain", "cutlass"}
  BY DEF LayerType, Formats
<1>. QED BY <1>1, GateUpNativeTurns, GateUpCutlassTurns, GateUpPrequantTurns, GateUpPlainTurns

(* The down projection.                                                    *)
LEMMA DownCutlassTurns ==
    ASSUME NEW z, NEW l \in Nat, NEW p \in Nat, NEW m \in LayerType, m.down = "cutlass"
    PROVE  LET r == Now(l, p, "residual", "residual")
               I == IF m.ple THEN Now(0, p, "per_layer_inputs", "inputs") ELSE r
           IN  Turns(z, p, {r, I, Now(l, p, "gate", "g"), Now(l, p, "up", "u")}, Down(l, m),
                     {r, I, Now(l, p, "mlp_out", "mlp")})
<1>0. m.gateup \in Formats /\ m.down \in Formats /\ m.sameScale \in BOOLEAN /\ m.post \in BOOLEAN /\ m.ple \in BOOLEAN
  BY DEF LayerType
<1>. DEFINE r == Now(l, p, "residual", "residual")
            I == IF m.ple THEN Now(0, p, "per_layer_inputs", "inputs") ELSE r
            g == Now(l, p, "gate", "g")
            u == Now(l, p, "up", "u")
            cp == In(l, 0, p, "cutlass_payload", "act", "cutlass")
            d == Now(l, p, "mlp_out", "mlp")
            c1 == Op("kernel", "compute", "cutlass_payload", "act", "cutlass", l, 0, {Want("gate", "g", "f32", l, 0),
                  Want("up", "u", "f32", l, 0)})
            c2 == Op("kernel", "compute", "mlp_out", "mlp", "f32", l, 0, {Want("cutlass_payload", "act", "cutlass", l, 0)})
            g1 == <<c1, c2>>
<1>on. r[1] = "residual" /\ I[1] = (IF m.ple THEN "per_layer_inputs" ELSE "residual") /\ g[1] = "gate" /\ u[1]
       = "up" /\ cp[1] = "cutlass_payload" /\ d[1] = "mlp_out"
  <2>1. r[1] = "residual" /\ g[1] = "gate" /\ u[1] = "up" /\ cp[1] = "cutlass_payload" /\ d[1] = "mlp_out"
    BY FactOn
  <2>2. I[1] = IF m.ple THEN "per_layer_inputs" ELSE "residual"
    BY FactOn
  <2>. QED BY <2>1, <2>2
<1>eq. Down(l, m) = g1
  BY DEF Down
<1>. HIDE DEF r, I, g, u, cp, d
<1>c1. Turns(z, p, {r, I, g, u}, <<c1>>, {r, I, cp})
  BY <1>0, <1>on, TwoTurns DEF g, u, cp, Lasting, Now
<1>c2. Turns(z, p, {r, I, cp}, <<c2>>, {r, I, d})
  BY <1>0, <1>on, OneTurns DEF cp, d, Lasting, Now
<1>. HIDE DEF c1, c2
<1>g1. Turns(z, p, {r, I, g, u}, g1, {r, I, d})
  BY <1>c1, <1>c2, TurnsTwo
<1>. HIDE DEF g1
<1>all. Turns(z, p, {r, I, g, u}, g1, {r, I, d})
  BY <1>g1
<1>. QED BY <1>eq, <1>all DEF r, I, g, u, d

(* The down projection.                                                    *)
LEMMA DownOtherTurns ==
    ASSUME NEW z, NEW l \in Nat, NEW p \in Nat, NEW m \in LayerType, m.down # "cutlass"
    PROVE  LET r == Now(l, p, "residual", "residual")
               I == IF m.ple THEN Now(0, p, "per_layer_inputs", "inputs") ELSE r
           IN  Turns(z, p, {r, I, Now(l, p, "gate", "g"), Now(l, p, "up", "u")}, Down(l, m),
                     {r, I, Now(l, p, "mlp_out", "mlp")})
<1>0. m.gateup \in Formats /\ m.down \in Formats /\ m.sameScale \in BOOLEAN /\ m.post \in BOOLEAN /\ m.ple \in BOOLEAN
  BY DEF LayerType
<1>. DEFINE r == Now(l, p, "residual", "residual")
            I == IF m.ple THEN Now(0, p, "per_layer_inputs", "inputs") ELSE r
            g == Now(l, p, "gate", "g")
            u == Now(l, p, "up", "u")
            a == Now(l, p, "swiglu", "act")
            d == Now(l, p, "mlp_out", "mlp")
            c1 == K(l, "swiglu", "act", {<<"gate", "g">>, <<"up", "u">>})
            c2 == Matvec(l, 0, m.down, "swiglu", "act", "quant_intermediate", "mxfp4_intermediate", "mlp_out", "mlp")
            g1 == <<c1>>
<1>on. r[1] = "residual" /\ I[1] = (IF m.ple THEN "per_layer_inputs" ELSE "residual") /\ g[1] = "gate" /\ u[1]
       = "up" /\ a[1] = "swiglu" /\ d[1] = "mlp_out"
  <2>1. r[1] = "residual" /\ g[1] = "gate" /\ u[1] = "up" /\ a[1] = "swiglu" /\ d[1] = "mlp_out"
    BY FactOn
  <2>2. I[1] = IF m.ple THEN "per_layer_inputs" ELSE "residual"
    BY FactOn
  <2>. QED BY <2>1, <2>2
<1>eq. Down(l, m) = g1 \o c2
  BY DEF Down
<1>. HIDE DEF r, I, g, u, a, d
<1>c1. Turns(z, p, {r, I, g, u}, <<c1>>, {r, I, a})
  BY <1>0, <1>on, K2Turns DEF g, u, a, Lasting
<1>c2. Turns(z, p, {r, I, a}, c2, {r, I, d})
  BY <1>0, <1>on, MatvecTurns DEF a, d, Lasting, Now
<1>. HIDE DEF c1, c2
<1>g1. Turns(z, p, {r, I, g, u}, g1, {r, I, a})
  BY <1>c1
<1>. HIDE DEF g1
<1>all. Turns(z, p, {r, I, g, u}, g1 \o c2, {r, I, d})
  BY <1>g1, <1>c2, TurnsConcat
<1>. QED BY <1>eq, <1>all DEF r, I, g, u, d

(* The contribution of the per-layer inputs.                               *)
LEMMA PleTurns ==
    ASSUME NEW z, NEW l \in Nat, NEW p \in Nat, NEW o \in Buffers
    PROVE  Turns(z, p, {Now(0, p, "per_layer_inputs", "inputs"), Now(l, p, o, "y")}, PleContribution(l, o),
                 {Now(l, p, o, "yp")})
<1>0. o \in {"bufA", "bufB"}
  BY DEF Buffers
<1>. DEFINE I == Now(0, p, "per_layer_inputs", "inputs")
            y == Now(l, p, o, "y")
            b1 == In(l, 0, p, "ple_bf16_in", "y", "bf16")
            pg == Now(l, p, "ple_gate", "pg")
            pi == Now(l, p, "ple_gate", "pgi")
            b2 == In(l, 0, p, "ple_bf16_in", "pgi", "bf16")
            pc == Now(l, p, "ple_contrib", "pc")
            pn == Now(l, p, "ple_contrib_normed", "pcn")
            y1 == Now(l, p, o, "yp")
            c1 == Op("kernel", "compute", "ple_bf16_in", "y", "bf16", l, 0, {Want(o, "y", "f32", l, 0)})
            c2 == Op("kernel", "compute", "ple_gate", "pg", "f32", l, 0, {Want("ple_bf16_in", "y", "bf16", l, 0)})
            c3 == Also(K(l, "ple_gate", "pgi", {<<"ple_gate", "pg">>}), {Want("per_layer_inputs", "inputs", "f32", 0, 0)})
            c4 == Op("kernel", "compute", "ple_bf16_in", "pgi", "bf16", l, 0, {Want("ple_gate", "pgi", "f32", l, 0)})
            c5 == Op("kernel", "compute", "ple_contrib", "pc", "f32", l, 0, {Want("ple_bf16_in", "pgi", "bf16", l, 0)})
            c6 == K(l, "ple_contrib_normed", "pcn", {<<"ple_contrib", "pc">>})
            c7 == K(l, o, "yp", {<<o, "y">>, <<"ple_contrib_normed", "pcn">>})
            g1 == <<c1, c2, c3, c4, c5, c6, c7>>
<1>on. I[1] = "per_layer_inputs" /\ y[1] = o /\ b1[1] = "ple_bf16_in" /\ pg[1] = "ple_gate" /\ pi[1] =
       "ple_gate" /\ b2[1] = "ple_bf16_in" /\ pc[1] = "ple_contrib" /\ pn[1] = "ple_contrib_normed" /\ y1[1] = o
  BY FactOn
<1>eq. PleContribution(l, o) = g1
  BY DEF PleContribution
<1>. HIDE DEF I, y, b1, pg, pi, b2, pc, pn, y1
<1>c1. Turns(z, p, {I, y}, <<c1>>, {I, y, b1})
  BY <1>0, <1>on, OneTurns DEF y, b1, Lasting, Now
<1>c2. Turns(z, p, {I, y, b1}, <<c2>>, {I, y, pg})
  BY <1>0, <1>on, OneTurns DEF b1, pg, Lasting, Now
<1>c3. Turns(z, p, {I, y, pg}, <<c3>>, {y, pi})
  BY <1>0, <1>on, AlsoTurns DEF I, pg, pi, Lasting
<1>c4. Turns(z, p, {y, pi}, <<c4>>, {y, b2})
  BY <1>0, <1>on, OneTurns DEF pi, b2, Lasting, Now
<1>c5. Turns(z, p, {y, b2}, <<c5>>, {y, pc})
  BY <1>0, <1>on, OneTurns DEF b2, pc, Lasting, Now
<1>c6. Turns(z, p, {y, pc}, <<c6>>, {y, pn})
  BY <1>0, <1>on, K1Turns DEF pc, pn, Lasting
<1>c7. Turns(z, p, {y, pn}, <<c7>>, {y1})
  BY <1>0, <1>on, K2Turns DEF y, pn, y1, Lasting
<1>. HIDE DEF c1, c2, c3, c4, c5, c6, c7
<1>g1. Turns(z, p, {I, y}, g1, {y1})
  <2>1. g1 = <<c1, c2, c3, c4>> \o <<c5, c6, c7>>
    OBVIOUS
  <2>2. Turns(z, p, {I, y}, <<c1, c2, c3, c4>>, {y, b2})
    BY <1>c1, <1>c2, <1>c3, <1>c4, TurnsFour
  <2>3. Turns(z, p, {y, b2}, <<c5, c6, c7>>, {y1})
    BY <1>c5, <1>c6, <1>c7, TurnsThree
  <2>. QED BY <2>1, <2>2, <2>3, TurnsConcat
<1>. HIDE DEF g1
<1>all. Turns(z, p, {I, y}, g1, {y1})
  BY <1>g1
<1>. QED BY <1>eq, <1>all DEF I, y, y1

(* A dense MLP.                                                            *)
LEMMA DenseTurns ==
    ASSUME NEW z, NEW l \in Nat, NEW p \in Nat, NEW m \in LayerType, NEW o \in Buffers, NEW next, next = l + 1
    PROVE  LET r == Now(l, p, "residual", "residual")
               I == IF m.ple THEN Now(0, p, "per_layer_inputs", "inputs") ELSE r
           IN  Turns(z, p, {r, I}, DenseMlp(l, m, o), {Now(next, p, o, "x")})
<1>. SUFFICES LET r == Now(l, p, "residual", "residual")
                  I == IF m.ple THEN Now(0, p, "per_layer_inputs", "inputs") ELSE r
              IN  Turns(z, p, {r, I}, DenseMlp(l, m, o), {Now(l + 1, p, o, "x")})
  OBVIOUS
<1>0. m.post \in BOOLEAN /\ m.ple \in BOOLEAN /\ o \in {"bufA", "bufB"}
  BY DEF LayerType, Buffers
<1>. DEFINE r == Now(l, p, "residual", "residual")
            I == IF m.ple THEN Now(0, p, "per_layer_inputs", "inputs") ELSE r
            g == Now(l, p, "gate", "g")
            u == Now(l, p, "up", "u")
            d == Now(l, p, "mlp_out", "mlp")
            pn == Now(l, p, "post_normed", "mlpn")
            y == Now(l, p, o, "y")
            y1 == Now(l, p, o, IF m.ple THEN "yp" ELSE "y")
            x1 == Now(l + 1, p, o, "x")
            c1 == GateUp(l, m)
            c2 == Down(l, m)
            c3 == IF m.post
                  THEN <<K(l, "post_normed", "mlpn", {<<"mlp_out", "mlp">>}),
                         K(l, o, "y", {<<"residual", "residual">>, <<"post_normed", "mlpn">>})>>
                  ELSE <<K(l, o, "y", {<<"residual", "residual">>, <<"mlp_out", "mlp">>})>>
            c4 == When(m.ple, PleContribution(l, o))
            c5 == Output(l, o, IF m.ple THEN "yp" ELSE "y")
<1>on. r[1] = "residual" /\ I[1] = (IF m.ple THEN "per_layer_inputs" ELSE "residual") /\ g[1] = "gate" /\ u[1]
       = "up" /\ d[1] = "mlp_out" /\ pn[1] = "post_normed" /\ y[1] = o /\ y1[1] = o /\ x1[1] = o
  <2>1. r[1] = "residual" /\ g[1] = "gate" /\ u[1] = "up" /\ d[1] = "mlp_out" /\ pn[1] = "post_normed" /\ y[1]
        = o /\ y1[1] = o /\ x1[1] = o
    BY FactOn
  <2>2. I[1] = IF m.ple THEN "per_layer_inputs" ELSE "residual"
    BY FactOn
  <2>. QED BY <2>1, <2>2
<1>eq. DenseMlp(l, m, o) = c1 \o c2 \o c3 \o c4 \o c5
  BY DEF DenseMlp
<1>. HIDE DEF r, I, g, u, d, pn, y, y1, x1
<1>c1. Turns(z, p, {r, I}, c1, {r, I, g, u})
  BY <1>0, <1>on, GateUpTurns DEF r, I, g, u, Lasting
<1>c2. Turns(z, p, {r, I, g, u}, c2, {r, I, d})
  BY <1>0, <1>on, DownCutlassTurns, DownOtherTurns DEF r, I, g, u, d, Lasting
<1>c3. Turns(z, p, {r, I, d}, c3, {I, y})
  <2>1. CASE m.post
    <3>1. Turns(z, p, {r, I, d}, <<K(l, "post_normed", "mlpn", {<<"mlp_out", "mlp">>})>>, {r, I, pn})
      BY <1>0, <1>on, K1Turns DEF d, pn, Lasting
    <3>2. Turns(z, p, {r, I, pn}, <<K(l, o, "y", {<<"residual", "residual">>, <<"post_normed", "mlpn">>})>>, {I, y})
      BY <1>0, <1>on, K2Turns DEF r, pn, y, Lasting
    <3>. QED BY <2>1, <3>1, <3>2, TurnsTwo
  <2>2. CASE ~m.post
    <3>1. Turns(z, p, {r, I, d}, <<K(l, o, "y", {<<"residual", "residual">>, <<"mlp_out", "mlp">>})>>, {I, y})
      BY <1>0, <1>on, K2Turns DEF r, d, y, Lasting
    <3>. QED BY <2>2, <3>1
  <2>. QED BY <2>1, <2>2
<1>c4. Turns(z, p, {I, y}, c4, {y1})
  <2>1. ASSUME m.ple PROVE Turns(z, p, {I, y}, PleContribution(l, o), {y1})
    <3>1. {I, y} = {Now(0, p, "per_layer_inputs", "inputs"), Now(l, p, o, "y")} /\ {y1} = {Now(l, p, o, "yp")}
      BY <2>1 DEF I, y, y1
    <3>. QED BY <1>0, <3>1, PleTurns
  <2>2. m.ple \/ {y1} \subseteq {I, y}
    BY DEF y, y1
  <2>. QED BY <2>1, <2>2, TurnsWhen
<1>c5. Turns(z, p, {y1}, c5, {x1})
  BY <1>0, <1>on, OneTurns DEF y1, x1, Lasting, Now, Output
<1>. HIDE DEF c1, c2, c3, c4, c5
<1>all. Turns(z, p, {r, I}, c1 \o c2 \o c3 \o c4 \o c5, {x1})
  BY <1>c1, <1>c2, <1>c3, <1>c4, <1>c5, TurnsConcat
<1>. QED BY <1>eq, <1>all DEF r, I, x1

(* A kernel of a slot with two inputs.                                     *)
LEMMA KS2Turns ==
    ASSUME NEW z, NEW l, NEW p \in Nat, NEW A, NEW B, NEW k, NEW out, NEW n, NEW b, NEW bn, NEW c, NEW cn,
           bn # "zero", cn # "zero", n # "junk", z = 0 \/ out \notin Lasting,
           In(l, k, p, b, bn, "f32") \in A, In(l, k, p, c, cn, "f32") \in A,
           \A x \in B : (x \in A /\ x[1] # out) \/ x = In(l, k, p, out, n, "f32")
    PROVE  Turns(z, p, A, <<KS(l, k, out, n, {<<b, bn>>, <<c, cn>>})>>, B)
<1>. DEFINE in == {<<b, bn>>, <<c, cn>>}
<1>1. in # {} /\ From0(A, l, k, p, in)
  BY DEF From0
<1>. HIDE DEF in
<1>2. Turns(z, p, A, <<KS(l, k, out, n, in)>>, B)
  BY <1>1, KSTurns
<1>. QED BY <1>2 DEF in

(* A product with the gathered experts.                                    *)
LEMMA ProductTurns ==
    ASSUME NEW z, NEW l, NEW p \in Nat, NEW A, NEW B, NEW k, NEW out, NEW nn, NEW b, NEW n, NEW f,
           n # "zero", nn # "junk", out \notin Lasting,
           Now(l, p, "bulk_expert", "experts") \in A, In(l, k, p, b, n, f) \in A,
           \A x \in B : (x \in A /\ x[1] # out) \/ x = In(l, k, p, out, nn, "f32")
    PROVE  Turns(z, p, A, <<Op("kernel", "compute", out, nn, "f32", l, k, Weights(l) \cup {Want(b, n, f, l, k)})>>, B)
<1>1. Weights(l) \cup {Want(b, n, f, l, k)} = {Want("bulk_expert", "experts", "f32", l, 0), Want(b, n, f, l, k)}
  BY DEF Weights
<1>2. In(l, 0, p, "bulk_expert", "experts", "f32") \in A
  BY DEF Now
<1>3. Turns(z, p, A, <<Op("kernel", "compute", out, nn, "f32", l, k,
                          {Want("bulk_expert", "experts", "f32", l, 0), Want(b, n, f, l, k)})>>, B)
  BY <1>2, TwoTurns
<1>. QED BY <1>1, <1>3

(* The experts that were chosen add up.                                    *)
LEMMA AccumulateTurns ==
    ASSUME NEW z, NEW l, NEW p \in Nat, NEW A, NEW B, NEW k, NEW w, NEW u, NEW c, NEW in, in = {w, u, c},
           u.back = 0, u.name # "zero", Granted(A, w, p), Granted(A, u, p), Granted(A, c, p),
           \A x \in B : (x \in A /\ x[1] # "routed_acc") \/ x = In(l, k, p, "routed_acc", "acc", "f32")
    PROVE  Turns(z, p, A, <<Accumulate(l, k, in)>>, B)
<1>1. u \in in /\ (\A y \in in : Granted(A, y, p)) /\ "routed_acc" \notin Lasting
  BY DEF Lasting
<1>. QED BY <1>1, OpTurns DEF Accumulate

(* The router, and what the experts get.                                   *)
LEMMA RouterTurns ==
    ASSUME NEW z, NEW l \in Nat, NEW p \in Nat, NEW m \in LayerType, NEW o \in Buffers, NEW a
    PROVE  LET r == Now(l, p, "residual", "residual")
               n2 == Now(l, p, "post_normed", "normed2")
               tk == Now(l, p, "packed_topk_device", "topk")
           IN  /\ Turns(z, p, {r}, Router(l, m, a), {r, n2, tk})
               /\ Turns(z, p, {r, n2, tk}, ExpertInput(l, m, o), {r, n2, tk, Now(l, p, o, "ein")})
<1>0. m.gateup \in Formats /\ m.post \in BOOLEAN /\ m.shared \in BOOLEAN /\ m.rscale \in BOOLEAN /\ o \in {"bufA", "bufB"}
  BY DEF LayerType, Buffers
<1>. DEFINE r == Now(l, p, "residual", "residual")
            n2 == Now(l, p, "post_normed", "normed2")
            ri == Now(l, p, "router_input", "rin")
            rl == Now(l, p, "router_logits", "rl")
            tk == Now(l, p, "packed_topk_device", "topk")
            ei == Now(l, p, o, "ein")
            c1 == K(l, "post_normed", "normed2", {<<"residual", "residual">>})
            c2 == IF m.rscale
                  THEN <<K(l, "router_input", "rin", {<<"residual", "residual">>}),
                         K(l, "router_logits", "rl", {<<"router_input", "rin">>})>>
                  ELSE <<K(l, "router_logits", "rl", {<<"post_normed", "normed2">>})>>
            c3 == K(l, "packed_topk_device", "topk", {<<"router_logits", "rl">>})
            c4 == K(l, o, "ein", IF m.post THEN {<<"residual", "residual">>} ELSE {<<"post_normed", "normed2">>})
            g1 == <<c1>>
            g3 == <<c3>>
            g4 == <<c4>>
<1>on. r[1] = "residual" /\ n2[1] = "post_normed" /\ ri[1] = "router_input" /\ rl[1] = "router_logits" /\ tk[1]
       = "packed_topk_device" /\ ei[1] = o
  BY FactOn
<1>eq1. Router(l, m, a) = g1 \o c2 \o g3
  BY DEF Router
<1>eq2. ExpertInput(l, m, o) = g4
  BY DEF ExpertInput
<1>. HIDE DEF r, n2, ri, rl, tk, ei
<1>c1. Turns(z, p, {r}, <<c1>>, {r, n2})
  BY <1>0, <1>on, K1Turns DEF r, n2, Lasting
<1>c2. Turns(z, p, {r, n2}, c2, {r, n2, rl})
  <2>1. CASE m.rscale
    <3>1. Turns(z, p, {r, n2}, <<K(l, "router_input", "rin", {<<"residual", "residual">>})>>, {r, n2, ri})
      BY <1>0, <1>on, K1Turns DEF r, ri, Lasting
    <3>2. Turns(z, p, {r, n2, ri}, <<K(l, "router_logits", "rl", {<<"router_input", "rin">>})>>, {r, n2, rl})
      BY <1>0, <1>on, K1Turns DEF ri, rl, Lasting
    <3>. QED BY <2>1, <3>1, <3>2, TurnsTwo
  <2>2. CASE ~m.rscale
    <3>1. Turns(z, p, {r, n2}, <<K(l, "router_logits", "rl", {<<"post_normed", "normed2">>})>>, {r, n2, rl})
      BY <1>0, <1>on, K1Turns DEF n2, rl, Lasting
    <3>. QED BY <2>2, <3>1
  <2>. QED BY <2>1, <2>2
<1>c3. Turns(z, p, {r, n2, rl}, <<c3>>, {r, n2, tk})
  BY <1>0, <1>on, K1Turns DEF rl, tk, Lasting
<1>c4. Turns(z, p, {r, n2, tk}, <<c4>>, {r, n2, tk, ei})
  <2>1. CASE m.post
    <3>1. Turns(z, p, {r, n2, tk}, <<K(l, o, "ein", {<<"residual", "residual">>})>>, {r, n2, tk, ei})
      BY <1>0, <1>on, K1Turns DEF r, ei, Lasting
    <3>. QED BY <2>1, <3>1
  <2>2. CASE ~m.post
    <3>1. Turns(z, p, {r, n2, tk}, <<K(l, o, "ein", {<<"post_normed", "normed2">>})>>, {r, n2, tk, ei})
      BY <1>0, <1>on, K1Turns DEF n2, ei, Lasting
    <3>. QED BY <2>2, <3>1
  <2>. QED BY <2>1, <2>2
<1>. HIDE DEF c1, c2, c3, c4
<1>g1. Turns(z, p, {r}, g1, {r, n2})
  BY <1>c1
<1>g3. Turns(z, p, {r, n2, rl}, g3, {r, n2, tk})
  BY <1>c3
<1>g4. Turns(z, p, {r, n2, tk}, g4, {r, n2, tk, ei})
  BY <1>c4
<1>. HIDE DEF g1, g3, g4
<1>all1. Turns(z, p, {r}, g1 \o c2 \o g3, {r, n2, tk})
  BY <1>g1, <1>c2, <1>g3, TurnsConcat
<1>all2. Turns(z, p, {r, n2, tk}, g4, {r, n2, tk, ei})
  BY <1>g4
<1>. QED BY <1>eq1, <1>eq2, <1>all1, <1>all2 DEF r, n2, tk, ei

(* A shared expert.                                                        *)
LEMMA SharedTurns ==
    ASSUME NEW z, NEW l \in Nat, NEW p \in Nat, NEW m \in LayerType, NEW o \in Buffers, m.shared
    PROVE  LET r == Now(l, p, "residual", "residual")
               tk == Now(l, p, "packed_topk_device", "topk")
               ei == Now(l, p, o, "ein")
               ms == Now(l, p, "moe_acc", "shared")
           IN  /\ Turns(z, p, {r, Now(l, p, "post_normed", "normed2"), tk, ei}, SharedExpert(l, m), {r, tk, ei, ms})
               /\ Turns(z, p, {r, tk, ei, ms}, SharedNorm(l, m), {r, tk, ei, Now(l, p, "post_normed", "sn")})
<1>0. m.gateup \in Formats /\ m.post \in BOOLEAN /\ m.shared \in BOOLEAN /\ m.rscale \in BOOLEAN /\ o \in {"bufA", "bufB"}
  BY DEF LayerType, Buffers
<1>. DEFINE r == Now(l, p, "residual", "residual")
            n2 == Now(l, p, "post_normed", "normed2")
            tk == Now(l, p, "packed_topk_device", "topk")
            ei == Now(l, p, o, "ein")
            sg == Now(l, p, "expert_gate", "sg")
            su == Now(l, p, "expert_up", "su")
            sa == Now(l, p, "expert_swiglu", "sact")
            sd == Now(l, p, "moe_acc", "sdown")
            sl == Now(l, p, "shared_gate_logit", "slog")
            ms == Now(l, p, "moe_acc", "shared")
            sn == Now(l, p, "post_normed", "sn")
            c1 == Matvec(l, 0, m.gateup, "post_normed", "normed2", "quant_expert", "mxfp4_expert", "expert_gate", "sg")
            c2 == Matvec(l, 0, m.gateup, "post_normed", "normed2", "quant_expert", "mxfp4_expert", "expert_up", "su")
            c3 == K(l, "expert_swiglu", "sact", {<<"expert_gate", "sg">>, <<"expert_up", "su">>})
            c4 == Matvec(l, 0, m.gateup, "expert_swiglu", "sact", "quant_expert", "mxfp4_expert", "moe_acc", "sdown")
            c5 == K(l, "shared_gate_logit", "slog", {<<"post_normed", "normed2">>})
            c6 == K(l, "moe_acc", "shared", {<<"moe_acc", "sdown">>, <<"shared_gate_logit", "slog">>})
            c7 == K(l, "post_normed", "sn", {<<"moe_acc", "shared">>})
            g3 == <<c3>>
            g5 == <<c5, c6>>
            g6 == <<c7>>
<1>on. r[1] = "residual" /\ n2[1] = "post_normed" /\ tk[1] = "packed_topk_device" /\ ei[1] = o /\ sg[1] =
       "expert_gate" /\ su[1] = "expert_up" /\ sa[1] = "expert_swiglu" /\ sd[1] = "moe_acc" /\ sl[1] =
       "shared_gate_logit" /\ ms[1] = "moe_acc" /\ sn[1] = "post_normed"
  BY FactOn
<1>eq1. SharedExpert(l, m) = c1 \o c2 \o g3 \o c4 \o g5
  BY DEF SharedExpert
<1>eq2. SharedNorm(l, m) = g6
  BY DEF SharedNorm
<1>. HIDE DEF r, n2, tk, ei, sg, su, sa, sd, sl, ms, sn
<1>c1. Turns(z, p, {r, n2, tk, ei}, c1, {r, n2, tk, ei, sg})
  BY <1>0, <1>on, MatvecTurns DEF n2, sg, Lasting, Now
<1>c2. Turns(z, p, {r, n2, tk, ei, sg}, c2, {r, n2, tk, ei, sg, su})
  BY <1>0, <1>on, MatvecTurns DEF n2, su, Lasting, Now
<1>c3. Turns(z, p, {r, n2, tk, ei, sg, su}, <<c3>>, {r, n2, tk, ei, sa})
  BY <1>0, <1>on, K2Turns DEF sg, su, sa, Lasting
<1>c4. Turns(z, p, {r, n2, tk, ei, sa}, c4, {r, n2, tk, ei, sd})
  BY <1>0, <1>on, MatvecTurns DEF sa, sd, Lasting, Now
<1>c5. Turns(z, p, {r, n2, tk, ei, sd}, <<c5>>, {r, tk, ei, sd, sl})
  BY <1>0, <1>on, K1Turns DEF n2, sl, Lasting
<1>c6. Turns(z, p, {r, tk, ei, sd, sl}, <<c6>>, {r, tk, ei, ms})
  BY <1>0, <1>on, K2Turns DEF sd, sl, ms, Lasting
<1>c7. Turns(z, p, {r, tk, ei, ms}, <<c7>>, {r, tk, ei, sn})
  BY <1>0, <1>on, K1Turns DEF ms, sn, Lasting
<1>. HIDE DEF c1, c2, c3, c4, c5, c6, c7
<1>g3. Turns(z, p, {r, n2, tk, ei, sg, su}, g3, {r, n2, tk, ei, sa})
  BY <1>c3
<1>g5. Turns(z, p, {r, n2, tk, ei, sd}, g5, {r, tk, ei, ms})
  BY <1>c5, <1>c6, TurnsTwo
<1>g6. Turns(z, p, {r, tk, ei, ms}, g6, {r, tk, ei, sn})
  BY <1>c7
<1>. HIDE DEF g3, g5, g6
<1>all1. Turns(z, p, {r, n2, tk, ei}, c1 \o c2 \o g3 \o c4 \o g5, {r, tk, ei, ms})
  BY <1>c1, <1>c2, <1>g3, <1>c4, <1>g5, TurnsConcat
<1>all2. Turns(z, p, {r, tk, ei, ms}, g6, {r, tk, ei, sn})
  BY <1>g6
<1>. QED BY <1>eq1, <1>eq2, <1>all1, <1>all2 DEF r, n2, tk, ei, ms, sn

(* None.                                                                   *)
LEMMA UnsharedTurns ==
    ASSUME NEW z, NEW l \in Nat, NEW p \in Nat, NEW m \in LayerType, NEW o \in Buffers, ~m.shared
    PROVE  LET r == Now(l, p, "residual", "residual")
               tk == Now(l, p, "packed_topk_device", "topk")
               ei == Now(l, p, o, "ein")
               ms == Zeroed("moe_acc")
           IN  /\ Turns(z, p, {r, Now(l, p, "post_normed", "normed2"), tk, ei}, SharedExpert(l, m), {r, tk, ei, ms})
               /\ Turns(z, p, {r, tk, ei, ms}, SharedNorm(l, m), {r, tk, ei, Zeroed("post_normed")})
<1>0. m.gateup \in Formats /\ m.post \in BOOLEAN /\ m.shared \in BOOLEAN /\ m.rscale \in BOOLEAN /\ o \in {"bufA", "bufB"}
  BY DEF LayerType, Buffers
<1>. DEFINE r == Now(l, p, "residual", "residual")
            n2 == Now(l, p, "post_normed", "normed2")
            tk == Now(l, p, "packed_topk_device", "topk")
            ei == Now(l, p, o, "ein")
            ms == Zeroed("moe_acc")
            sn == Zeroed("post_normed")
            c1 == Zero("moe_acc")
            c2 == [Zero("post_normed") EXCEPT !.in = {Want("moe_acc", "zero", "f32", l, 0)}]
            g1 == <<c1>>
            g2 == <<c2>>
<1>on. r[1] = "residual" /\ n2[1] = "post_normed" /\ tk[1] = "packed_topk_device" /\ ei[1] = o /\ ms[1] =
       "moe_acc" /\ sn[1] = "post_normed"
  BY FactOn
<1>eq1. SharedExpert(l, m) = g1
  BY DEF SharedExpert
<1>eq2. SharedNorm(l, m) = g2
  BY DEF SharedNorm
<1>. HIDE DEF r, n2, tk, ei, ms, sn
<1>c1. Turns(z, p, {r, n2, tk, ei}, <<c1>>, {r, tk, ei, ms})
  BY <1>0, <1>on, ZeroedTurns DEF ms, Lasting
<1>c2. Turns(z, p, {r, tk, ei, ms}, <<c2>>, {r, tk, ei, sn})
  <2>. DEFINE w == Want("moe_acc", "zero", "f32", l, 0)
              op == [Zero("post_normed") EXCEPT !.in = {w}]
  <2>1. /\ op.kind = "zero" /\ op.stream = "compute" /\ op.host = {} /\ op.name = "zero"
        /\ op.out = <<"post_normed", 0>> /\ op.in = {w} /\ w.name = "zero"
    BY DEF Zero, Op, Want
  <2>2. Granted({r, tk, ei, ms}, w, p)
    BY ZeroGranted DEF ms
  <2>. HIDE DEF w, op
  <2>3. \A u \in op.in : u.name = "zero" /\ Granted({r, tk, ei, ms}, u, p)
    BY <2>1, <2>2
  <2>4. Turns(z, p, {r, tk, ei, ms}, <<op>>, {r, tk, ei, sn})
    BY <1>0, <1>on, <2>1, <2>3, ZeroTurns DEF sn, Lasting
  <2>. QED BY <2>4 DEF op, w
<1>. HIDE DEF c1, c2
<1>g1. Turns(z, p, {r, n2, tk, ei}, g1, {r, tk, ei, ms})
  BY <1>c1
<1>g2. Turns(z, p, {r, tk, ei, ms}, g2, {r, tk, ei, sn})
  BY <1>c2
<1>. HIDE DEF g1, g2
<1>all1. Turns(z, p, {r, n2, tk, ei}, g1, {r, tk, ei, ms})
  BY <1>g1
<1>all2. Turns(z, p, {r, tk, ei, ms}, g2, {r, tk, ei, sn})
  BY <1>g2
<1>. QED BY <1>eq1, <1>eq2, <1>all1, <1>all2 DEF r, n2, tk, ei, ms, sn

(* One of the chosen experts, from the gathered weights.                   *)
LEMMA SlotTurns ==
    ASSUME NEW z, NEW l \in Nat, NEW p \in Nat, NEW m \in LayerType, NEW o \in Buffers, NEW k \in Nat,
           NEW sn, sn[1] = "post_normed"
    PROVE  LET r == Now(l, p, "residual", "residual")
               tk == Now(l, p, "packed_topk_device", "topk")
               ei == Now(l, p, o, "ein")
               be == Now(l, p, "bulk_expert", "experts")
           IN  Turns(z, p, {r, sn, tk, ei, be,
                            IF k = 1 THEN Zeroed("routed_acc") ELSE In(l, k - 1, p, "routed_acc", "acc", "f32")},
                     Slot(l, k, o, Weights(l), {Want("packed_topk_device", "topk", "f32", l, 0)}),
                     {r, sn, tk, ei, be, In(l, k, p, "routed_acc", "acc", "f32")})
<1>0. o \in {"bufA", "bufB"}
  BY DEF Buffers
<1>. DEFINE r == Now(l, p, "residual", "residual")
            tk == Now(l, p, "packed_topk_device", "topk")
            ei == Now(l, p, o, "ein")
            be == Now(l, p, "bulk_expert", "experts")
            ac == IF k = 1 THEN Zeroed("routed_acc") ELSE In(l, k - 1, p, "routed_acc", "acc", "f32")
            qg == In(l, k, p, "quant_expert", "ein", "gate")
            eg == In(l, k, p, "expert_gate", "eg", "f32")
            qu == In(l, k, p, "quant_expert", "ein", "up")
            eu == In(l, k, p, "expert_up", "eu", "f32")
            es == In(l, k, p, "expert_swiglu", "eact", "f32")
            qd == In(l, k, p, "quant_expert", "eact", "down")
            eo == In(l, k, p, "expert_out", "eo", "f32")
            ad == In(l, k, p, "routed_acc", "acc", "f32")
            c1 == Op("kernel", "compute", "quant_expert", "ein", "gate", l, k, {Want(o, "ein", "f32", l, 0)})
            c2 == Op("kernel", "compute", "expert_gate", "eg", "f32", l, k, Weights(l) \cup {Want("quant_expert", "ein",
                  "gate", l, k)})
            c3 == Op("kernel", "compute", "quant_expert", "ein", "up", l, k, {Want(o, "ein", "f32", l, 0)})
            c4 == Op("kernel", "compute", "expert_up", "eu", "f32", l, k, Weights(l) \cup {Want("quant_expert", "ein",
                  "up", l, k)})
            c5 == KS(l, k, "expert_swiglu", "eact", {<<"expert_gate", "eg">>, <<"expert_up", "eu">>})
            c6 == Op("kernel", "compute", "quant_expert", "eact", "down", l, k, {Want("expert_swiglu", "eact", "f32", l,
                  k)})
            c7 == Op("kernel", "compute", "expert_out", "eo", "f32", l, k, Weights(l) \cup {Want("quant_expert", "eact",
                  "down", l, k)})
            c8 == Accumulate(l, k, {Before(l, k), Want("expert_out", "eo", "f32", l, k)} \cup {Want("packed_topk_device",
                  "topk", "f32", l, 0)})
            g1 == <<c1>>
            g2 == <<c2>>
            g3 == <<c3>>
            g4 == <<c4>>
            g5 == <<c5>>
            g6 == <<c6>>
            g7 == <<c7>>
            g8 == <<c8>>
<1>on. r[1] = "residual" /\ sn[1] = "post_normed" /\ tk[1] = "packed_topk_device" /\ ei[1] = o /\ be[1] =
       "bulk_expert" /\ ac[1] = "routed_acc" /\ qg[1] = "quant_expert" /\ eg[1] = "expert_gate" /\ qu[1] =
       "quant_expert" /\ eu[1] = "expert_up" /\ es[1] = "expert_swiglu" /\ qd[1] = "quant_expert" /\ eo[1] =
       "expert_out" /\ ad[1] = "routed_acc"
  <2>1. r[1] = "residual" /\ sn[1] = "post_normed" /\ tk[1] = "packed_topk_device" /\ ei[1] = o /\ be[1] =
        "bulk_expert" /\ qg[1] = "quant_expert" /\ eg[1] = "expert_gate" /\ qu[1] = "quant_expert" /\ eu[1] =
        "expert_up" /\ es[1] = "expert_swiglu" /\ qd[1] = "quant_expert" /\ eo[1] = "expert_out" /\ ad[1] =
        "routed_acc"
    BY FactOn
  <2>2. ac[1] = "routed_acc"
    BY DEF In, Now, Zeroed
  <2>. QED BY <2>1, <2>2
<1>eq. Slot(l, k, o, Weights(l), {Want("packed_topk_device", "topk", "f32", l, 0)}) = g1 \o g2 \o g3 \o g4 \o
         g5 \o g6 \o g7 \o g8
  BY DEF Slot
<1>. HIDE DEF r, tk, ei, be, ac, qg, eg, qu, eu, es, qd, eo, ad
<1>c1. Turns(z, p, {r, sn, tk, ei, be, ac}, <<c1>>, {r, sn, tk, ei, be, ac, qg})
  BY <1>0, <1>on, OneTurns DEF ei, qg, Lasting, Now
<1>c2. Turns(z, p, {r, sn, tk, ei, be, ac, qg}, <<c2>>, {r, sn, tk, ei, be, ac, eg})
  BY <1>0, <1>on, ProductTurns DEF be, qg, eg, Lasting
<1>c3. Turns(z, p, {r, sn, tk, ei, be, ac, eg}, <<c3>>, {r, sn, tk, ei, be, ac, eg, qu})
  BY <1>0, <1>on, OneTurns DEF ei, qu, Lasting, Now
<1>c4. Turns(z, p, {r, sn, tk, ei, be, ac, eg, qu}, <<c4>>, {r, sn, tk, ei, be, ac, eg, eu})
  BY <1>0, <1>on, ProductTurns DEF be, qu, eu, Lasting
<1>c5. Turns(z, p, {r, sn, tk, ei, be, ac, eg, eu}, <<c5>>, {r, sn, tk, ei, be, ac, es})
  BY <1>0, <1>on, KS2Turns DEF eg, eu, es, Lasting
<1>c6. Turns(z, p, {r, sn, tk, ei, be, ac, es}, <<c6>>, {r, sn, tk, ei, be, ac, qd})
  BY <1>0, <1>on, OneTurns DEF es, qd, Lasting, Now
<1>c7. Turns(z, p, {r, sn, tk, ei, be, ac, qd}, <<c7>>, {r, sn, tk, ei, be, ac, eo})
  BY <1>0, <1>on, ProductTurns DEF be, qd, eo, Lasting
<1>c8. Turns(z, p, {r, sn, tk, ei, be, ac, eo}, <<c8>>, {r, sn, tk, ei, be, ad})
  <2>. DEFINE w == Before(l, k)
              u == Want("expert_out", "eo", "f32", l, k)
              c == Want("packed_topk_device", "topk", "f32", l, 0)
              in == {w, u} \cup {c}
  <2>1. in = {w, u, c}
    OBVIOUS
  <2>2. u.back = 0 /\ u.name # "zero"
    BY DEF Want
  <2>3. Granted({r, sn, tk, ei, be, ac, eo}, u, p) /\ Granted({r, sn, tk, ei, be, ac, eo}, c, p)
    <3>. HIDE DEF u, c, in, w
    <3>1. Granted({r, sn, tk, ei, be, ac, eo}, u, p)
      BY WantGranted DEF eo, u
    <3>2. Granted({r, sn, tk, ei, be, ac, eo}, c, p)
      BY WantGranted DEF tk, c, Now
    <3>. QED BY <3>1, <3>2
  <2>4. Granted({r, sn, tk, ei, be, ac, eo}, w, p)
    <3>1. CASE k = 1
      BY <3>1, ZeroGranted DEF Before, ac
    <3>2. CASE k # 1
      <4>. DEFINE j == k - 1
      <4>1. w = Want("routed_acc", "acc", "f32", l, j) /\ ac = In(l, j, p, "routed_acc", "acc", "f32")
        BY <3>2 DEF Before, ac
      <4>. HIDE DEF w, j
      <4>. QED BY <4>1, WantGranted
    <3>. QED BY <3>1, <3>2
  <2>. HIDE DEF w, u, c, in
  <2>5. Turns(z, p, {r, sn, tk, ei, be, ac, eo}, <<Accumulate(l, k, in)>>, {r, sn, tk, ei, be, ad})
    BY <1>0, <1>on, <2>1, <2>2, <2>3, <2>4, AccumulateTurns DEF ad
  <2>. QED BY <2>5 DEF in, w, u, c
<1>. HIDE DEF c1, c2, c3, c4, c5, c6, c7, c8
<1>g1. Turns(z, p, {r, sn, tk, ei, be, ac}, g1, {r, sn, tk, ei, be, ac, qg})
  BY <1>c1
<1>g2. Turns(z, p, {r, sn, tk, ei, be, ac, qg}, g2, {r, sn, tk, ei, be, ac, eg})
  BY <1>c2
<1>g3. Turns(z, p, {r, sn, tk, ei, be, ac, eg}, g3, {r, sn, tk, ei, be, ac, eg, qu})
  BY <1>c3
<1>g4. Turns(z, p, {r, sn, tk, ei, be, ac, eg, qu}, g4, {r, sn, tk, ei, be, ac, eg, eu})
  BY <1>c4
<1>g5. Turns(z, p, {r, sn, tk, ei, be, ac, eg, eu}, g5, {r, sn, tk, ei, be, ac, es})
  BY <1>c5
<1>g6. Turns(z, p, {r, sn, tk, ei, be, ac, es}, g6, {r, sn, tk, ei, be, ac, qd})
  BY <1>c6
<1>g7. Turns(z, p, {r, sn, tk, ei, be, ac, qd}, g7, {r, sn, tk, ei, be, ac, eo})
  BY <1>c7
<1>g8. Turns(z, p, {r, sn, tk, ei, be, ac, eo}, g8, {r, sn, tk, ei, be, ad})
  BY <1>c8
<1>. HIDE DEF g1, g2, g3, g4, g5, g6, g7, g8
<1>all. Turns(z, p, {r, sn, tk, ei, be, ac}, g1 \o g2 \o g3 \o g4 \o g5 \o g6 \o g7 \o g8, {r, sn, tk, ei, be,
          ad})
  BY <1>g1, <1>g2, <1>g3, <1>g4, <1>g5, <1>g6, <1>g7, <1>g8, TurnsConcat
<1>. QED BY <1>eq, <1>all DEF r, tk, ei, be, ac, ad

(* All of them in a launch.                                                *)
LEMMA AllSlotsTurns ==
    ASSUME NEW z, NEW l \in Nat, NEW p \in Nat, NEW m \in LayerType, NEW o \in Buffers, NEW sn, sn[1] = "post_normed"
    PROVE  LET r == Now(l, p, "residual", "residual")
               tk == Now(l, p, "packed_topk_device", "topk")
               ei == Now(l, p, o, "ein")
               be == Now(l, p, "bulk_expert", "experts")
           IN  Turns(z, p, {r, sn, tk, ei, be, Zeroed("routed_acc")}, AllSlots(l, o),
                     {r, sn, In(l, TopK, p, "routed_acc", "acc", "f32")})
<1>0. o \in {"bufA", "bufB"}
  BY DEF Buffers
<1>. DEFINE r == Now(l, p, "residual", "residual")
            tk == Now(l, p, "packed_topk_device", "topk")
            ei == Now(l, p, o, "ein")
            be == Now(l, p, "bulk_expert", "experts")
            za == Zeroed("routed_acc")
            qg == In(l, 0, p, "quant_b", "ein", "gate")
            eg == In(l, 0, p, "expert_gate_b", "eg", "f32")
            qu == In(l, 0, p, "quant_b", "ein", "up")
            eu == In(l, 0, p, "expert_up_b", "eu", "f32")
            es == In(l, 0, p, "expert_swiglu_b", "eact", "f32")
            qd == In(l, 0, p, "quant_b", "eact", "down")
            eo == In(l, 0, p, "expert_out_b", "eo", "f32")
            ad == In(l, TopK, p, "routed_acc", "acc", "f32")
            c1 == Quantise(l, 0, o, "ein", "quant_b", "gate")
            c2 == Op("kernel", "compute", "expert_gate_b", "eg", "f32", l, 0, Weights(l) \cup {Want("quant_b", "ein",
                  "gate", l, 0)})
            c3 == Quantise(l, 0, o, "ein", "quant_b", "up")
            c4 == Op("kernel", "compute", "expert_up_b", "eu", "f32", l, 0, Weights(l) \cup {Want("quant_b", "ein", "up",
                  l, 0)})
            c5 == K(l, "expert_swiglu_b", "eact", {<<"expert_gate_b", "eg">>, <<"expert_up_b", "eu">>})
            c6 == Quantise(l, 0, "expert_swiglu_b", "eact", "quant_b", "down")
            c7 == Op("kernel", "compute", "expert_out_b", "eo", "f32", l, 0, Weights(l) \cup {Want("quant_b", "eact",
                  "down", l, 0)})
            c8 == Accumulate(l, TopK, {Before(l, 1), Want("expert_out_b", "eo", "f32", l, 0), Want("packed_topk_device",
                  "topk", "f32", l, 0)})
            g2 == <<c2>>
            g4 == <<c4>>
            g5 == <<c5>>
            g7 == <<c7>>
            g8 == <<c8>>
<1>on. r[1] = "residual" /\ sn[1] = "post_normed" /\ tk[1] = "packed_topk_device" /\ ei[1] = o /\ be[1] =
       "bulk_expert" /\ za[1] = "routed_acc" /\ qg[1] = "quant_b" /\ eg[1] = "expert_gate_b" /\ qu[1] =
       "quant_b" /\ eu[1] = "expert_up_b" /\ es[1] = "expert_swiglu_b" /\ qd[1] = "quant_b" /\ eo[1] =
       "expert_out_b" /\ ad[1] = "routed_acc"
  BY FactOn
<1>eq. AllSlots(l, o) = c1 \o g2 \o c3 \o g4 \o g5 \o c6 \o g7 \o g8
  BY DEF AllSlots
<1>. HIDE DEF r, tk, ei, be, za, qg, eg, qu, eu, es, qd, eo, ad
<1>c1. Turns(z, p, {r, sn, tk, ei, be, za}, c1, {r, sn, tk, ei, be, za, qg})
  BY <1>0, <1>on, OneTurns DEF ei, qg, Lasting, Now, Quantise
<1>c2. Turns(z, p, {r, sn, tk, ei, be, za, qg}, <<c2>>, {r, sn, tk, ei, be, za, eg})
  BY <1>0, <1>on, ProductTurns DEF be, qg, eg, Lasting
<1>c3. Turns(z, p, {r, sn, tk, ei, be, za, eg}, c3, {r, sn, tk, be, za, eg, qu})
  BY <1>0, <1>on, OneTurns DEF ei, qu, Lasting, Now, Quantise
<1>c4. Turns(z, p, {r, sn, tk, be, za, eg, qu}, <<c4>>, {r, sn, tk, be, za, eg, eu})
  BY <1>0, <1>on, ProductTurns DEF be, qu, eu, Lasting
<1>c5. Turns(z, p, {r, sn, tk, be, za, eg, eu}, <<c5>>, {r, sn, tk, be, za, es})
  BY <1>0, <1>on, K2Turns DEF eg, eu, es, Lasting, Now
<1>c6. Turns(z, p, {r, sn, tk, be, za, es}, c6, {r, sn, tk, be, za, qd})
  BY <1>0, <1>on, OneTurns DEF es, qd, Lasting, Now, Quantise
<1>c7. Turns(z, p, {r, sn, tk, be, za, qd}, <<c7>>, {r, sn, tk, za, eo})
  BY <1>0, <1>on, ProductTurns DEF be, qd, eo, Lasting
<1>c8. Turns(z, p, {r, sn, tk, za, eo}, <<c8>>, {r, sn, ad})
  <2>. DEFINE w == Before(l, 1)
              u == Want("expert_out_b", "eo", "f32", l, 0)
              c == Want("packed_topk_device", "topk", "f32", l, 0)
              in == {w, u, c}
  <2>2. u.back = 0 /\ u.name # "zero"
    BY DEF Want
  <2>3. Granted({r, sn, tk, za, eo}, u, p) /\ Granted({r, sn, tk, za, eo}, c, p)
    <3>. HIDE DEF u, c, in, w
    <3>1. Granted({r, sn, tk, za, eo}, u, p)
      BY WantGranted DEF eo, u
    <3>2. Granted({r, sn, tk, za, eo}, c, p)
      BY WantGranted DEF tk, c, Now
    <3>. QED BY <3>1, <3>2
  <2>4. Granted({r, sn, tk, za, eo}, w, p)
    BY ZeroGranted DEF Before, za
  <2>5. in = {w, u, c}
    OBVIOUS
  <2>. HIDE DEF w, u, c, in
  <2>6. Turns(z, p, {r, sn, tk, za, eo}, <<Accumulate(l, TopK, in)>>, {r, sn, ad})
    BY <1>0, <1>on, <2>2, <2>3, <2>4, <2>5, AccumulateTurns DEF ad
  <2>. QED BY <2>6 DEF in, w, u, c
<1>. HIDE DEF c1, c2, c3, c4, c5, c6, c7, c8
<1>g2. Turns(z, p, {r, sn, tk, ei, be, za, qg}, g2, {r, sn, tk, ei, be, za, eg})
  BY <1>c2
<1>g4. Turns(z, p, {r, sn, tk, be, za, eg, qu}, g4, {r, sn, tk, be, za, eg, eu})
  BY <1>c4
<1>g5. Turns(z, p, {r, sn, tk, be, za, eg, eu}, g5, {r, sn, tk, be, za, es})
  BY <1>c5
<1>g7. Turns(z, p, {r, sn, tk, be, za, qd}, g7, {r, sn, tk, za, eo})
  BY <1>c7
<1>g8. Turns(z, p, {r, sn, tk, za, eo}, g8, {r, sn, ad})
  BY <1>c8
<1>. HIDE DEF g2, g4, g5, g7, g8
<1>all. Turns(z, p, {r, sn, tk, ei, be, za}, c1 \o g2 \o c3 \o g4 \o g5 \o c6 \o g7 \o g8, {r, sn, ad})
  BY <1>c1, <1>g2, <1>c3, <1>g4, <1>g5, <1>c6, <1>g7, <1>g8, TurnsConcat
<1>. QED BY <1>eq, <1>all DEF r, tk, ei, be, za, ad

(* The sum of the experts, and the output of the layer.                    *)
LEMMA CombineTurns ==
    ASSUME NEW z, NEW l \in Nat, NEW p \in Nat, NEW m \in LayerType, NEW o \in Buffers
    PROVE  LET r == Now(l, p, "residual", "residual")
               sn == IF m.shared THEN Now(l, p, "post_normed", "sn") ELSE Zeroed("post_normed")
               y == Now(l, p, o, "y")
           IN  /\ Turns(z, p, {r, sn, In(l, TopK, p, "routed_acc", "acc", "f32")}, Combine(l, m, o), {y})
               /\ Turns(z, p, {y}, Output(l, o, "y"), {Now(l + 1, p, o, "x")})
<1>0. o \in {"bufA", "bufB"}
  BY DEF Buffers
<1>. DEFINE r == Now(l, p, "residual", "residual")
            sn == IF m.shared THEN Now(l, p, "post_normed", "sn") ELSE Zeroed("post_normed")
            ad == In(l, TopK, p, "routed_acc", "acc", "f32")
            rn == In(l, 0, p, "expert_out", "rn", "f32")
            su == Now(l, p, "moe_acc", "sum")
            mn == Now(l, p, o, "mn")
            y == Now(l, p, o, "y")
            x1 == Now(l + 1, p, o, "x")
            c1 == Op("kernel", "compute", "expert_out", "rn", "f32", l, 0, {Want("routed_acc", "acc", "f32", l, TopK)})
            c2 == K(l, "moe_acc", "sum", {<<"post_normed", IF m.shared THEN "sn" ELSE "zero">>, <<"expert_out", "rn">>})
            c3 == K(l, o, "mn", {<<"moe_acc", "sum">>})
            c4 == K(l, o, "y", {<<o, "mn">>, <<"residual", "residual">>})
            c5 == Output(l, o, "y")
            g1 == <<c1, c2, c3, c4>>
<1>on. r[1] = "residual" /\ sn[1] = "post_normed" /\ ad[1] = "routed_acc" /\ rn[1] = "expert_out" /\ su[1] =
       "moe_acc" /\ mn[1] = o /\ y[1] = o /\ x1[1] = o
  <2>1. r[1] = "residual" /\ ad[1] = "routed_acc" /\ rn[1] = "expert_out" /\ su[1] = "moe_acc" /\ mn[1] = o /\
        y[1] = o /\ x1[1] = o
    BY FactOn
  <2>2. sn[1] = "post_normed"
    BY DEF In, Now, Zeroed
  <2>. QED BY <2>1, <2>2
<1>eq1. Combine(l, m, o) = g1
  BY DEF Combine
<1>eq2. Output(l, o, "y") = c5
  OBVIOUS
<1>. HIDE DEF r, sn, ad, rn, su, mn, y, x1
<1>c1. Turns(z, p, {r, sn, ad}, <<c1>>, {r, sn, rn})
  BY <1>0, <1>on, OneTurns DEF ad, rn, Lasting
<1>c2. Turns(z, p, {r, sn, rn}, <<c2>>, {r, su})
  <2>. DEFINE a == IF m.shared THEN "sn" ELSE "zero"
              w == Want("post_normed", a, "f32", l, 0)
              u == Want("expert_out", "rn", "f32", l, 0)
              in == {w, u}
  <2>1. K(l, "moe_acc", "sum", {<<"post_normed", a>>, <<"expert_out", "rn">>})
        = Op("kernel", "compute", "moe_acc", "sum", "f32", l, 0, in)
    BY DEF K
  <2>2. u.back = 0 /\ u.name # "zero" /\ u \in in
    BY DEF Want
  <2>3. Granted({r, sn, rn}, u, p)
    <3>. HIDE DEF u, w, in
    <3>. QED BY WantGranted DEF rn, u
  <2>4. Granted({r, sn, rn}, w, p)
    <3>. HIDE DEF u, in
    <3>1. CASE m.shared
      BY <3>1, WantGranted DEF sn, Now
    <3>2. CASE ~m.shared
      BY <3>2, ZeroGranted DEF sn
    <3>. QED BY <3>1, <3>2
  <2>5. \A v \in in : Granted({r, sn, rn}, v, p)
    BY <2>3, <2>4
  <2>. HIDE DEF w, u, in
  <2>6. Turns(z, p, {r, sn, rn}, <<Op("kernel", "compute", "moe_acc", "sum", "f32", l, 0, in)>>, {r, su})
    BY <1>0, <1>on, <2>2, <2>5, OpTurns DEF su, Now, Lasting
  <2>. QED BY <2>1, <2>6
<1>c3. Turns(z, p, {r, su}, <<c3>>, {r, mn})
  BY <1>0, <1>on, K1Turns DEF su, mn, Lasting
<1>c4. Turns(z, p, {r, mn}, <<c4>>, {y})
  BY <1>0, <1>on, K2Turns DEF r, mn, y, Lasting
<1>c5. Turns(z, p, {y}, c5, {x1})
  BY <1>0, <1>on, OneTurns DEF y, x1, Lasting, Now, Output
<1>. HIDE DEF c1, c2, c3, c4, c5
<1>g1. Turns(z, p, {r, sn, ad}, g1, {y})
  BY <1>c1, <1>c2, <1>c3, <1>c4, TurnsFour
<1>. HIDE DEF g1
<1>all1. Turns(z, p, {r, sn, ad}, g1, {y})
  BY <1>g1
<1>all2. Turns(z, p, {y}, c5, {x1})
  BY <1>c5
<1>. QED BY <1>eq1, <1>eq2, <1>all1, <1>all2 DEF r, sn, ad, y, x1

(* The chosen experts.                                                     *)
LEMMA RoutedTurns ==
    ASSUME NEW z, NEW l \in Nat, NEW p \in Nat, NEW m \in LayerType, NEW o \in Buffers, NEW a, NEW primed,
           m.moe \in {"gpu", "slots"}, NEW sn, sn[1] = "post_normed"
    PROVE  LET r == Now(l, p, "residual", "residual")
           IN  Turns(z, p, {r, sn, Now(l, p, "packed_topk_device", "topk"), Now(l, p, o, "ein"), Zeroed("routed_acc")},
                     Routed(l, m, o, a, primed), {r, sn, In(l, TopK, p, "routed_acc", "acc", "f32")})
<1>. DEFINE r == Now(l, p, "residual", "residual")
            tk == Now(l, p, "packed_topk_device", "topk")
            ei == Now(l, p, o, "ein")
            be == Now(l, p, "bulk_expert", "experts")
            za == Zeroed("routed_acc")
            a1 == In(l, 1, p, "routed_acc", "acc", "f32")
            a2 == In(l, 2, p, "routed_acc", "acc", "f32")
            gather == <<K(l, "bulk_expert", "experts", {<<"packed_topk_device", "topk">>})>>
            w == {Want("packed_topk_device", "topk", "f32", l, 0)}
            s1 == Slot(l, 1, o, Weights(l), w)
            s2 == Slot(l, 2, o, Weights(l), w)
            all == AllSlots(l, o)
<1>0. /\ m.moe = "gpu" => Routed(l, m, o, a, primed) = gather \o all
      /\ m.moe = "slots" => Routed(l, m, o, a, primed) = gather \o (s1 \o s2)
  BY DEF Routed
<1>on. /\ r[1] = "residual" /\ tk[1] = "packed_topk_device" /\ ei[1] = o /\ za[1] = "routed_acc" /\ sn[1] = "post_normed"
       /\ TopK = 2
  BY FactOn DEF TopK
<1>1. Turns(z, p, {r, sn, tk, ei, be, za}, all, {r, sn, In(l, TopK, p, "routed_acc", "acc", "f32")})
  BY AllSlotsTurns
<1>2. Turns(z, p, {r, sn, tk, ei, be, za}, s1, {r, sn, tk, ei, be, a1})
  <2>. DEFINE k == 1
  <2>1. k \in Nat /\ za = IF k = 1 THEN Zeroed("routed_acc") ELSE In(l, k - 1, p, "routed_acc", "acc", "f32")
    OBVIOUS
  <2>. HIDE DEF k
  <2>2. Turns(z, p, {r, sn, tk, ei, be, za}, Slot(l, k, o, Weights(l), w),
              {r, sn, tk, ei, be, In(l, k, p, "routed_acc", "acc", "f32")})
    BY <2>1, SlotTurns
  <2>. QED BY <2>2 DEF k
<1>3. Turns(z, p, {r, sn, tk, ei, be, a1}, s2, {r, sn, tk, ei, be, a2})
  <2>. DEFINE k == 2
  <2>1. k \in Nat /\ a1 = IF k = 1 THEN Zeroed("routed_acc") ELSE In(l, k - 1, p, "routed_acc", "acc", "f32")
    <3>1. 2 - 1 = 1
      OBVIOUS
    <3>. QED BY <3>1
  <2>. HIDE DEF k, a1
  <2>2. Turns(z, p, {r, sn, tk, ei, be, a1}, Slot(l, k, o, Weights(l), w),
              {r, sn, tk, ei, be, In(l, k, p, "routed_acc", "acc", "f32")})
    BY <2>1, SlotTurns
  <2>. QED BY <2>2 DEF k
<1>. HIDE DEF r, ei, za, s1, s2, all
<1>4. Turns(z, p, {r, sn, tk, ei, za}, gather, {r, sn, tk, ei, be, za})
  BY <1>on, K1Turns DEF Lasting, Buffers
<1>. HIDE DEF be, gather, tk
<1>5. Turns(z, p, {r, sn, tk, ei, za}, gather \o all, {r, sn, In(l, TopK, p, "routed_acc", "acc", "f32")})
  BY <1>1, <1>4, TurnsConcat
<1>6. Turns(z, p, {r, sn, tk, ei, za}, gather \o (s1 \o s2), {r, sn, In(l, TopK, p, "routed_acc", "acc", "f32")})
  <2>. DEFINE A == {r, sn, tk, ei, be, za}
              B == {r, sn, tk, ei, be, a2}
              C == {r, sn, a2}
  <2>1. A \subseteq A /\ C \subseteq B
    OBVIOUS
  <2>2. Turns(z, p, A, s1 \o s2, B)
    BY <1>2, <1>3, TurnsConcat
  <2>. HIDE DEF A, B, C
  <2>3. Turns(z, p, A, s1 \o s2, C)
    BY <2>1, <2>2, TurnsWeaker
  <2>4. Turns(z, p, {r, sn, tk, ei, za}, gather \o (s1 \o s2), C)
    BY <1>4, <2>3, TurnsConcat DEF A
  <2>. QED BY <2>4, <1>on DEF C
<1>7. CASE m.moe = "gpu"
  BY <1>0, <1>5, <1>7 DEF r, tk, ei, za
<1>8. CASE m.moe = "slots"
  BY <1>0, <1>6, <1>8 DEF r, tk, ei, za
<1>. QED BY <1>7, <1>8

(* A mixture of experts that the device drives.                            *)
LEMMA MoeTurns ==
    ASSUME NEW z, NEW l \in Nat, NEW p \in Nat, NEW m \in LayerType, NEW o \in Buffers, NEW a, NEW primed,
           m.moe \in {"gpu", "slots"}, NEW next, next = l + 1
    PROVE  Turns(z, p, {Now(l, p, "residual", "residual")}, MoeMlp(l, m, o, a, primed), {Now(next, p, o, "x")})
<1>. SUFFICES Turns(z, p, {Now(l, p, "residual", "residual")}, MoeMlp(l, m, o, a, primed), {Now(l + 1, p, o, "x")})
  OBVIOUS
<1>0. o \in {"bufA", "bufB"} /\ m.moe \in {"gpu", "slots"} /\ m.shared \in BOOLEAN
  BY DEF LayerType, Buffers
<1>. DEFINE r == Now(l, p, "residual", "residual")
            n2 == Now(l, p, "post_normed", "normed2")
            tk == Now(l, p, "packed_topk_device", "topk")
            ei == Now(l, p, o, "ein")
            ms == IF m.shared THEN Now(l, p, "moe_acc", "shared") ELSE Zeroed("moe_acc")
            sn == IF m.shared THEN Now(l, p, "post_normed", "sn") ELSE Zeroed("post_normed")
            za == Zeroed("routed_acc")
            ad == In(l, TopK, p, "routed_acc", "acc", "f32")
            y == Now(l, p, o, "y")
            x1 == Now(l + 1, p, o, "x")
            c1 == Router(l, m, a)
            c2 == When(~GpuDriven(m), ReadBack(l, a))
            c3 == ExpertInput(l, m, o)
            c4 == When(m.moe = "cpu", <<OnHost("download", "input", "ein", l, {Want(o, "ein", "f32", l, 0)})>>)
            c5 == SharedExpert(l, m)
            c6 == SharedNorm(l, m)
            c7 == When(~GpuDriven(m), <<[OnHost("read", "topk", "topk", l, {Want("packed_topk_pinned", "topk", "f32", l,
                  0)}) EXCEPT !.id = <<"pinned", l, a>>]>>)
            c8 == Zero("routed_acc")
            c9 == Routed(l, m, o, a, primed)
            c10 == Combine(l, m, o)
            c11 == Output(l, o, "y")
            g8 == <<c8>>
<1>on. r[1] = "residual" /\ n2[1] = "post_normed" /\ tk[1] = "packed_topk_device" /\ ei[1] = o /\ ms[1] =
       "moe_acc" /\ sn[1] = "post_normed" /\ za[1] = "routed_acc" /\ ad[1] = "routed_acc" /\ y[1] = o /\ x1[1]
       = o
  <2>1. r[1] = "residual" /\ n2[1] = "post_normed" /\ tk[1] = "packed_topk_device" /\ ei[1] = o /\ za[1] =
        "routed_acc" /\ ad[1] = "routed_acc" /\ y[1] = o /\ x1[1] = o
    BY FactOn
  <2>2. ms[1] = "moe_acc"
    BY DEF In, Now, Zeroed
  <2>3. sn[1] = "post_normed"
    BY DEF In, Now, Zeroed
  <2>. QED BY <2>1, <2>2, <2>3
<1>eq. MoeMlp(l, m, o, a, primed) = c1 \o c2 \o c3 \o c4 \o c5 \o c6 \o c7 \o g8 \o c9 \o c10 \o c11
  BY DEF MoeMlp
<1>. HIDE DEF r, n2, tk, ei, ms, sn, za, ad, y, x1
<1>c1. Turns(z, p, {r}, c1, {r, n2, tk})
  BY <1>0, <1>on, RouterTurns DEF r, n2, tk, Lasting
<1>c2. Turns(z, p, {r, n2, tk}, c2, {r, n2, tk})
  BY <1>0, TurnsWhen DEF GpuDriven
<1>c3. Turns(z, p, {r, n2, tk}, c3, {r, n2, tk, ei})
  BY <1>0, <1>on, RouterTurns DEF r, n2, tk, ei, Lasting
<1>c4. Turns(z, p, {r, n2, tk, ei}, c4, {r, n2, tk, ei})
  BY <1>0, TurnsWhen DEF GpuDriven
<1>c5. Turns(z, p, {r, n2, tk, ei}, c5, {r, tk, ei, ms})
  <2>1. CASE m.shared
    BY <2>1, <1>0, SharedTurns DEF r, n2, tk, ei, ms
  <2>2. CASE ~m.shared
    BY <2>2, <1>0, UnsharedTurns DEF r, n2, tk, ei, ms
  <2>. QED BY <2>1, <2>2
<1>c6. Turns(z, p, {r, tk, ei, ms}, c6, {r, tk, ei, sn})
  <2>1. CASE m.shared
    BY <2>1, <1>0, SharedTurns DEF r, tk, ei, ms, sn
  <2>2. CASE ~m.shared
    BY <2>2, <1>0, UnsharedTurns DEF r, tk, ei, ms, sn
  <2>. QED BY <2>1, <2>2
<1>c7. Turns(z, p, {r, tk, ei, sn}, c7, {r, tk, ei, sn})
  BY <1>0, TurnsWhen DEF GpuDriven
<1>c8. Turns(z, p, {r, tk, ei, sn}, <<c8>>, {r, tk, ei, sn, za})
  BY <1>0, <1>on, ZeroedTurns DEF za, Lasting
<1>c9. Turns(z, p, {r, tk, ei, sn, za}, c9, {r, sn, ad})
  <2>1. {r, tk, ei, sn, za} = {r, sn, tk, ei, za}
    OBVIOUS
  <2>2. Turns(z, p, {r, sn, tk, ei, za}, c9, {r, sn, ad})
    BY <1>0, <1>on, RoutedTurns DEF r, tk, ei, za, ad
  <2>. HIDE DEF c9
  <2>. QED BY <2>1, <2>2
<1>c10. Turns(z, p, {r, sn, ad}, c10, {y})
  BY <1>0, <1>on, CombineTurns DEF r, sn, ad, y, Lasting
<1>c11. Turns(z, p, {y}, c11, {x1})
  BY <1>0, <1>on, CombineTurns DEF y, x1, Lasting
<1>. HIDE DEF c1, c2, c3, c4, c5, c6, c7, c8, c9, c10, c11
<1>g8. Turns(z, p, {r, tk, ei, sn}, g8, {r, tk, ei, sn, za})
  BY <1>c8
<1>. HIDE DEF g8
<1>all. Turns(z, p, {r}, c1 \o c2 \o c3 \o c4 \o c5 \o c6 \o c7 \o g8 \o c9 \o c10 \o c11, {x1})
  BY <1>c1, <1>c2, <1>c3, <1>c4, <1>c5, <1>c6, <1>c7, <1>g8, <1>c9, <1>c10, <1>c11, TurnsConcat
<1>. QED BY <1>eq, <1>all DEF r, x1

-----------------------------------------------------------------------------
(* One layer, and all of them.                                             *)

(* The models that run on the compute stream alone: no cache is in host    *)
(* memory, the device drives all experts, and a layer that shares a cache  *)
(* shares that of an attention layer before it.                            *)
AllOnDevice(ms) ==
    \A l \in DOMAIN ms :
       /\ InDevice(ms[l])
       /\ ms[l].mixer = "attention" /\ ms[l].parent # 0 =>
             ms[l].parent \in 1 .. l - 1 /\ ms[ms[l].parent].mixer = "attention" /\ ms[ms[l].parent].parent = 0

(* What layer j keeps from one position to the next, after c positions.    *)
KeepsOf(d, m, j, c) ==
    /\ m.mixer = "gdn" => Holds(d, {Carries(j, c, "conv_state"), Carries(j, c, "recurrent")})
    /\ m.mixer = "attention" /\ m.parent = 0 => Cached(d, j, c)

(* The device at position p when k layers are done.                        *)
UsesPle(ms) == \E l \in DOMAIN ms : ms[l].ple
Through(d, ms, h, p, k) ==
    /\ Holds(d, {Now(k + 1, p, HiddenOf(h, k + 1), "x"), Now(0, p, "decode_position", "position"),
                 Now(0, p, "decode_seq_len", "length")})
    /\ UsesPle(ms) => Holds(d, {Now(0, p, "per_layer_inputs", "inputs")})
    /\ \A j \in 1 .. Len(ms) : KeepsOf(d, ms[j], j, IF j <= k THEN p + 1 ELSE p)

(* Only the scratch and what layer l keeps have changed.                   *)
Beside(d, e, l) ==
    /\ \A b : \A j \in Nat : (j # 0 /\ j # l) \/ (j = 0 /\ b \in Lasting) => Cell(e, <<b, j>>) = Cell(d, <<b, j>>)
    /\ \A j, r : j # l => RowIn(e, <<"kv", j>>, r) = RowIn(d, <<"kv", j>>, r)

(* So it is for a layer that stores nothing, and for one that stores a row.*)
LEMMA BesideLayer ==
    ASSUME NEW d, NEW e, NEW l \in Nat \ {0}, NEW p, NEW own \in BOOLEAN
    PROVE  /\ Kept(d, e, l) => Beside(d, e, l)
           /\ Grown(d, e, l, p, own) => Beside(d, e, l)
<1>1. \A b, j : (j # 0 /\ j # l) \/ (j = 0 /\ b \in Lasting) => ~Free(l, b, j)
  BY DEF Free
<1>2. \A j, r : j # l => <<"kv", j>> # <<"kv", l>>
  OBVIOUS
<1>3. Kept(d, e, l) => Beside(d, e, l)
  BY <1>1 DEF Kept, Beside, RowIn
<1>4. Grown(d, e, l, p, own) => Beside(d, e, l)
  BY <1>1, <1>2 DEF Grown, Beside
<1>. QED BY <1>3, <1>4

(* What another layer keeps it still keeps.                                *)
LEMMA BesideKeeps ==
    ASSUME NEW d, NEW e, NEW l, Beside(d, e, l), NEW m, NEW j \in Nat \ {0}, j # l, NEW c, KeepsOf(d, m, j, c)
    PROVE  KeepsOf(e, m, j, c)
<1>1. \A b : Carries(j, c, b)[1] = b /\ Carries(j, c, b)[2] = j
  BY DEF Carries
<1>2. Cell(e, <<"conv_state", j>>) = Cell(d, <<"conv_state", j>>)
      /\ Cell(e, <<"recurrent", j>>) = Cell(d, <<"recurrent", j>>)
      /\ \A r : RowIn(e, <<"kv", j>>, r) = RowIn(d, <<"kv", j>>, r)
  BY DEF Beside
<1>3. Holds(d, {Carries(j, c, "conv_state"), Carries(j, c, "recurrent")})
      => Holds(e, {Carries(j, c, "conv_state"), Carries(j, c, "recurrent")})
  BY <1>1, <1>2 DEF Holds
<1>4. Cached(d, j, c) => Cached(e, j, c)
  BY <1>2 DEF Cached
<1>. QED BY <1>3, <1>4 DEF KeepsOf

(* An MLP writes scratch only, parameter -1 of Kept.                       *)
LEMMA ScratchKeeps ==
    ASSUME NEW d, NEW e, Kept(d, e, -1)
    PROVE  /\ \A l : Beside(d, e, l)
           /\ \A m, j, c : j \in Nat \ {0} /\ KeepsOf(d, m, j, c) => KeepsOf(e, m, j, c)
<1>1. \A b : \A j \in Nat : j # 0 \/ b \in Lasting => ~Free(-1, b, j)
  BY DEF Free
<1>2. \A b : \A j \in Nat : j # 0 \/ b \in Lasting => Cell(e, <<b, j>>) = Cell(d, <<b, j>>)
  BY <1>1 DEF Kept
<1>3. \A b, r : RowIn(e, b, r) = RowIn(d, b, r)
  BY DEF Kept, RowIn
<1>4. ASSUME NEW l PROVE Beside(d, e, l)
  BY <1>2, <1>3 DEF Beside
<1>5. ASSUME NEW m, NEW j \in Nat \ {0}, NEW c, KeepsOf(d, m, j, c) PROVE KeepsOf(e, m, j, c)
  <2>1. Beside(d, e, 0) /\ j # 0
    BY <1>4
  <2>. QED BY <1>5, <2>1, BesideKeeps
<1>. QED BY <1>4, <1>5

(* Mixer and MLP.                                                          *)
LEMMA MixerLeads ==
    ASSUME NEW ms \in Seq(LayerType), AllOnDevice(ms), NEW l \in 1 .. Len(ms), NEW h \in Buffers,
           NEW p \in Nat, NEW a \in Nat, p < GraphMax \/ p <= a, NEW d, Through(d, ms, h, p, l - 1)
    PROVE  LET m == ms[l]
               x == HiddenOf(h, l)
           IN  \E e : /\ Leads(d, IF m.mixer = "gdn" THEN GatedDeltaNet(l, m, x) ELSE Attention(l, m, x, a), e)
                      /\ Holds(e, {Now(l, p, "residual", "residual")})
                      /\ Beside(d, e, l)
                      /\ KeepsOf(e, m, l, p + 1)
<1>. DEFINE m == ms[l]
            x == HiddenOf(h, l)
            r == Now(l, p, "residual", "residual")
            s == Carries(l, p, "conv_state")
            t == Carries(l, p, "recurrent")
            f == Now(l, p, x, "x")
            P == Now(0, p, "decode_position", "position")
            L == Now(0, p, "decode_seq_len", "length")
<1>1. m \in LayerType /\ l \in Nat \ {0} /\ l - 1 + 1 = l
  OBVIOUS
<1>2. x \in Buffers
  BY HiddenIs DEF Buffers
<1>3. Holds(d, {f, P, L}) /\ KeepsOf(d, m, l, p)
  <2>1. ~(l <= l - 1)
    OBVIOUS
  <2>. QED BY <1>1, <2>1 DEF Through
<1>4. ~m.hostKv /\ m.mixer \in {"attention", "gdn"}
  BY <1>1 DEF AllOnDevice, InDevice, LayerType
<1>5. CASE m.mixer = "gdn"
  <2>1. Turns(l, p, {f, s, t}, GatedDeltaNet(l, m, x),
              {f, r, Carries(l, p + 1, "conv_state"), Carries(l, p + 1, "recurrent")})
    <3>. HIDE DEF m, x
    <3>. QED BY <1>1, <1>2, GdnTurns
  <2>2. Holds(d, {f, s, t})
    BY <1>3, <1>5 DEF KeepsOf, Holds
  <2>. HIDE DEF f, s, t, r, m, x
  <2>3. PICK e : /\ Leads(d, GatedDeltaNet(l, m, x), e) /\ Kept(d, e, l)
                 /\ Holds(e, {f, r, Carries(l, p + 1, "conv_state"), Carries(l, p + 1, "recurrent")})
    BY <2>1, <2>2 DEF Turns
  <2>4. Beside(d, e, l)
    BY <1>1, <2>3, BesideLayer
  <2>5. Holds(e, {r}) /\ Holds(e, {Carries(l, p + 1, "conv_state"), Carries(l, p + 1, "recurrent")})
    BY <2>3 DEF Holds
  <2>6. KeepsOf(e, m, l, p + 1)
    BY <1>5, <2>5 DEF KeepsOf
  <2>. QED BY <1>5, <2>3, <2>4, <2>5, <2>6 DEF m, x, r
<1>6. CASE m.mixer = "attention"
  <2>. DEFINE src == IF m.parent = 0 THEN l ELSE m.parent
              n == IF m.parent = 0 THEN p ELSE p + 1
  <2>1. Cached(d, src, n)
    <3>1. CASE m.parent = 0
      BY <1>3, <1>6, <3>1 DEF KeepsOf
    <3>2. CASE m.parent # 0
      <4>. DEFINE q == m.parent
      <4>1. q \in 1 .. l - 1 /\ ms[q].mixer = "attention" /\ ms[q].parent = 0 /\ q \in 1 .. Len(ms)
        BY <1>6, <3>2 DEF AllOnDevice
      <4>. HIDE DEF q
      <4>2. q <= l - 1
        BY <4>1
      <4>3. KeepsOf(d, ms[q], q, p + 1)
        BY <4>1, <4>2 DEF Through
      <4>4. Cached(d, q, p + 1)
        BY <4>1, <4>3 DEF KeepsOf
      <4>. QED BY <3>2, <4>4 DEF q
    <3>. QED BY <3>1, <3>2
  <2>. HIDE DEF m, x
  <2>2. PICK e : /\ Leads(d, Attention(l, m, x, a), e) /\ Holds(e, {f, r}) /\ Grown(d, e, l, p, m.parent = 0)
    BY <1>1, <1>2, <1>3, <1>4, <2>1, AttentionLeads
  <2>3. Beside(d, e, l)
    <3>1. (m.parent = 0) \in BOOLEAN
      OBVIOUS
    <3>. QED BY <1>1, <2>2, <3>1, BesideLayer
  <2>. HIDE DEF f, r
  <2>4. Holds(e, {r})
    BY <2>2 DEF Holds
  <2>5. KeepsOf(e, m, l, p + 1)
    <3>1. ASSUME m.parent = 0, NEW i \in 0 .. p + 1 - 1 PROVE RowIn(e, <<"kv", l>>, i) = Val("kv", "f32", l, 0, i)
      <4>1. RowIn(e, <<"kv", l>>, i) = IF i = p THEN Val("kv", "f32", l, 0, p) ELSE RowIn(d, <<"kv", l>>, i)
        BY <2>2, <3>1 DEF Grown
      <4>2. i # p => i \in 0 .. p - 1
        OBVIOUS
      <4>3. Cached(d, l, p)
        BY <2>1, <3>1
      <4>. QED BY <4>1, <4>2, <4>3 DEF Cached
    <3>2. m.parent = 0 => Cached(e, l, p + 1)
      BY <3>1 DEF Cached
    <3>. QED BY <1>6, <3>2 DEF KeepsOf
  <2>. QED BY <1>6, <2>2, <2>3, <2>4, <2>5 DEF m, x, r
<1>. QED BY <1>4, <1>5, <1>6

(* The buffers change names from layer to layer.                           *)
LEMMA HiddenNext ==
    ASSUME NEW h \in Buffers, NEW l \in Nat
    PROVE  HiddenOf(h, l + 1) = Other(HiddenOf(h, l))
<1>1. l % 2 = 1 <=> (l + 1) % 2 # 1
  OBVIOUS
<1>2. Other(Other(h)) = h
  BY DEF Other, Buffers
<1>. QED BY <1>1, <1>2 DEF HiddenOf

(* A buffer that is the same holds the same.                               *)
LEMMA SameCell ==
    ASSUME NEW d, NEW e, NEW l, NEW p, NEW b, NEW n, Cell(e, <<b, 0>>) = Cell(d, <<b, 0>>), Holds(d, {Now(l, p, b, n)})
    PROVE  Holds(e, {Now(l, p, b, n)})
<1>1. Now(l, p, b, n)[1] = b /\ Now(l, p, b, n)[2] = 0
  BY DEF Now, In
<1>. QED BY <1>1 DEF Holds

(* The part of a layer after the mixer.                                    *)
LEMMA MlpLeads ==
    ASSUME NEW l \in Nat \ {0}, NEW p \in Nat, NEW m \in LayerType, InDevice(m), NEW o \in Buffers,
           NEW a, NEW primed, NEW d, Holds(d, {Now(l, p, "residual", "residual")}),
           m.ple => Holds(d, {Now(0, p, "per_layer_inputs", "inputs")})
    PROVE  \E e : /\ Leads(d, IF m.moe = "none" THEN DenseMlp(l, m, o) ELSE MoeMlp(l, m, o, a, primed), e)
                  /\ Holds(e, {Now(l + 1, p, o, "x")})
                  /\ Kept(d, e, -1)
<1>. DEFINE r == Now(l, p, "residual", "residual")
            I == IF m.ple THEN Now(0, p, "per_layer_inputs", "inputs") ELSE r
            next == l + 1
            f == Now(next, p, o, "x")
            z == -1
<1>0. l \in Nat /\ next = l + 1
  OBVIOUS
<1>. HIDE DEF z, next
<1>1. CASE m.moe = "none"
  <2>1. Turns(z, p, {r, I}, DenseMlp(l, m, o), {f})
    BY <1>0, DenseTurns
  <2>2. I \in {r, Now(0, p, "per_layer_inputs", "inputs")} /\ (m.ple => Holds(d, {I})) /\ (~m.ple => I = r)
    OBVIOUS
  <2>. HIDE DEF r, I, f
  <2>3. Holds(d, {r, I})
    <3>1. Holds(d, {r})
      BY DEF r
    <3>. QED BY <2>2, <3>1 DEF Holds
  <2>. QED BY <1>1, <2>1, <2>3 DEF Turns, f, z, next
<1>2. CASE m.moe # "none"
  <2>1. m.moe \in {"gpu", "slots"}
    BY <1>2 DEF InDevice
  <2>2. Turns(z, p, {r}, MoeMlp(l, m, o, a, primed), {f})
    BY <1>0, <2>1, MoeTurns
  <2>. HIDE DEF r, f
  <2>. QED BY <1>2, <2>2 DEF Turns, r, f, z, next
<1>. QED BY <1>1, <1>2

(* A layer, at position p, as the host issues it for position a.           *)
LEMMA LayerLeads ==
    ASSUME NEW ms \in Seq(LayerType), AllOnDevice(ms), NEW l \in 1 .. Len(ms), NEW h \in Buffers,
           NEW p \in Nat, NEW a \in Nat, p < GraphMax \/ p <= a, NEW first, NEW d, Through(d, ms, h, p, l - 1)
    PROVE  \E e : Leads(d, Layer(ms, l, h, a, first), e) /\ Through(e, ms, h, p, l)
<1>. DEFINE m == ms[l]
            x == HiddenOf(h, l)
            o == Other(x)
            next == Prefetch(ms, l + 1, a)
            await == AwaitStaged(m, l, a)
            mixer == IF m.mixer = "gdn" THEN GatedDeltaNet(l, m, x) ELSE Attention(l, m, x, a)
            last == LastCopy(ms, l, a, first)
            mlp == IF m.moe = "none" THEN DenseMlp(l, m, o) ELSE MoeMlp(l, m, o, a, last)
            back == WriteBack(m, l, a)
<1>1. Layer(ms, l, h, a, first) = next \o await \o mixer \o mlp \o back
  BY DEF Layer
<1>2. next = <<>> /\ await = <<>> /\ back = <<>>
  <2>1. l + 1 <= Len(ms) => ~ms[l + 1].hostKv
    BY DEF AllOnDevice, InDevice
  <2>2. ~m.hostKv
    BY DEF AllOnDevice, InDevice
  <2>. QED BY <2>1, <2>2 DEF Prefetch, AwaitStaged, WriteBack, When
<1>3. m \in LayerType /\ InDevice(m) /\ l \in Nat \ {0} /\ l \in DOMAIN ms
  BY DEF AllOnDevice
<1>4. o \in Buffers /\ HiddenOf(h, l + 1) = o
  BY <1>3, HiddenIs, HiddenNext DEF Buffers
<1>5. PICK c : /\ Leads(d, mixer, c)
               /\ Holds(c, {Now(l, p, "residual", "residual")})
               /\ Beside(d, c, l)
               /\ KeepsOf(c, m, l, p + 1)
  BY MixerLeads
<1>6. UsesPle(ms) => Holds(c, {Now(0, p, "per_layer_inputs", "inputs")})
  <2>1. Cell(c, <<"per_layer_inputs", 0>>) = Cell(d, <<"per_layer_inputs", 0>>)
    BY <1>5 DEF Beside, Lasting
  <2>. QED BY <2>1, SameCell DEF Through
<1>7. m.ple => UsesPle(ms)
  BY <1>3 DEF UsesPle
<1>. HIDE DEF m, x, o, mixer, next, await, back
<1>8. PICK e : Leads(c, mlp, e) /\ Holds(e, {Now(l + 1, p, o, "x")}) /\ Kept(c, e, -1)
  BY <1>3, <1>4, <1>5, <1>6, <1>7, MlpLeads
<1>. HIDE DEF mlp
<1>9. Leads(d, next \o await \o mixer \o mlp \o back, e)
  <2>1. Leads(d, next, d) /\ Leads(d, await, d) /\ Leads(e, back, e)
    BY <1>2, LeadsNone
  <2>2. Leads(d, next \o await, d)
    BY <2>1, LeadsConcat
  <2>3. Leads(d, next \o await \o mixer, c)
    BY <1>5, <2>2, LeadsConcat
  <2>4. Leads(d, next \o await \o mixer \o mlp, e)
    BY <1>8, <2>3, LeadsConcat
  <2>. QED BY <2>1, <2>4, LeadsConcat
<1>10. (\A k : Beside(c, e, k)) /\ \A n, j, i : j \in Nat \ {0} /\ KeepsOf(c, n, j, i) => KeepsOf(e, n, j, i)
  BY <1>8, ScratchKeeps
<1>11. \A b \in Lasting : Cell(e, <<b, 0>>) = Cell(d, <<b, 0>>)
  BY <1>5, <1>10 DEF Beside
<1>12. Through(e, ms, h, p, l)
  <2>1. Holds(e, {Now(l + 1, p, HiddenOf(h, l + 1), "x"), Now(0, p, "decode_position", "position"),
                  Now(0, p, "decode_seq_len", "length")})
    <3>1. Holds(d, {Now(0, p, "decode_position", "position"), Now(0, p, "decode_seq_len", "length")})
      BY DEF Through, Holds
    <3>2. Holds(e, {Now(0, p, "decode_position", "position"), Now(0, p, "decode_seq_len", "length")})
      <4>. DEFINE P == Now(0, p, "decode_position", "position")
                  L == Now(0, p, "decode_seq_len", "length")
      <4>1. Holds(d, {P}) /\ Holds(d, {L})
        BY <3>1 DEF Holds
      <4>2. Holds(e, {P}) /\ Holds(e, {L})
        BY <1>11, <4>1, SameCell DEF Lasting
      <4>. HIDE DEF P, L
      <4>3. Holds(e, {P, L})
        BY <4>2 DEF Holds
      <4>. QED BY <4>3 DEF P, L
    <3>. QED BY <1>4, <1>8, <3>2 DEF Holds
  <2>2. UsesPle(ms) => Holds(e, {Now(0, p, "per_layer_inputs", "inputs")})
    BY <1>11, SameCell DEF Through, Lasting
  <2>3. ASSUME NEW j \in 1 .. Len(ms) PROVE KeepsOf(e, ms[j], j, IF j <= l THEN p + 1 ELSE p)
    <3>1. j \in Nat \ {0}
      OBVIOUS
    <3>2. CASE j = l
      BY <1>5, <1>10, <3>1, <3>2 DEF m
    <3>3. CASE j # l
      <4>. DEFINE i == IF j <= l THEN p + 1 ELSE p
      <4>1. i = IF j <= l - 1 THEN p + 1 ELSE p
        BY <3>3
      <4>2. KeepsOf(d, ms[j], j, i)
        BY <4>1 DEF Through
      <4>. HIDE DEF i
      <4>3. KeepsOf(c, ms[j], j, i)
        BY <1>5, <3>1, <3>3, <4>2, BesideKeeps
      <4>4. KeepsOf(e, ms[j], j, i)
        BY <1>10, <3>1, <4>3
      <4>. QED BY <4>4 DEF i
    <3>. QED BY <3>2, <3>3
  <2>. QED BY <2>1, <2>2, <2>3 DEF Through
<1>. QED BY <1>1, <1>9, <1>12

(* All layers, at position p, as the host issues them for position a.      *)
LEMMA LayersLeads ==
    ASSUME NEW ms \in Seq(LayerType), AllOnDevice(ms), NEW h \in Buffers,
           NEW p \in Nat, NEW a \in Nat, p < GraphMax \/ p <= a, NEW first, NEW d, Through(d, ms, h, p, 0)
    PROVE  \E e : Leads(d, Layers(ms, h, a, first), e) /\ Through(e, ms, h, p, Len(ms))
<1>. DEFINE N == Len(ms)
            L(l) == Layer(ms, l, h, a, first)
            pre == Prefetch(ms, 1, a)
            F(n) == [l \in 1 .. n |-> L(l)]
            To(n, e) == Leads(d, FlattenSeq(F(n)), e) /\ Through(e, ms, h, p, n)
            T == {n \in Nat : n <= N => \E e : To(n, e)}
<1>0. N \in Nat
  OBVIOUS
<1>1. ASSUME NEW l \in 1 .. N PROVE Program(L(l))
  <2>1. InDevice(ms[l])
    BY DEF AllOnDevice
  <2>. DEFINE E == {Staged(l, a), LastCopy(ms, l, a, first)}
  <2>2. Staged(l, a) \in E /\ LastCopy(ms, l, a, first) \in E
    OBVIOUS
  <2>. HIDE DEF E
  <2>3. Calm(L(l))
    BY <2>1, <2>2, LayerSound
  <2>. HIDE DEF L
  <2>. QED BY <2>3, CalmIsProgram
<1>2. Layers(ms, h, a, first) = pre \o FlattenSeq(F(N))
  BY DEF Layers
<1>3. pre = <<>>
  <2>1. 1 <= N => ~ms[1].hostKv
    BY <1>0 DEF AllOnDevice, InDevice
  <2>. QED BY <2>1 DEF Prefetch, When
<1>. HIDE DEF N, L
<1>4. 0 \in T
  <2>1. F(0) = <<>>
    OBVIOUS
  <2>2. FlattenSeq(F(0)) = <<>>
    BY <2>1, FlattenEmpty
  <2>. HIDE DEF F
  <2>3. To(0, d)
    BY <2>2, LeadsNone
  <2>. HIDE DEF To
  <2>. QED BY <2>3
<1>5. ASSUME NEW n \in Nat, n \in T PROVE n + 1 \in T
  <2>. SUFFICES ASSUME n + 1 <= N PROVE \E e : To(n + 1, e)
    OBVIOUS
  <2>. DEFINE l == n + 1
              t == L(l)
  <2>1. n <= N
    BY <1>0
  <2>2. PICK c : To(n, c)
    BY <1>5, <2>1
  <2>3. l \in 1 .. Len(ms) /\ l - 1 = n
    BY <1>0 DEF N
  <2>4. FlattenSeq(F(l)) = FlattenSeq(F(n)) \o t
    <3>. DEFINE f == F(n)
                g == F(l)
    <3>1. f = [i \in 1 .. n |-> f[i]] /\ g = [i \in 1 .. n + 1 |-> g[i]] /\ g[n + 1] = t
          /\ (\A i \in 1 .. n : g[i] = f[i]) /\ \A i \in 1 .. n + 1 : g[i] = L(i)
      OBVIOUS
    <3>2. \A i \in 1 .. n + 1 : i \in 1 .. N
      BY <1>0
    <3>3. \A i \in 1 .. n + 1 : Program(g[i])
      BY <1>1, <3>1, <3>2
    <3>. HIDE DEF f, g, t
    <3>4. FlattenSeq(g) = FlattenSeq(f) \o g[n + 1]
      BY <3>1, <3>3, FlattenNext
    <3>. QED BY <3>1, <3>4 DEF f, g
  <2>. HIDE DEF F, l
  <2>5. Through(c, ms, h, p, l - 1)
    BY <2>2, <2>3
  <2>6. PICK e : Leads(c, t, e) /\ Through(e, ms, h, p, l)
    BY <2>3, <2>5, LayerLeads DEF L
  <2>. HIDE DEF t
  <2>7. Leads(d, FlattenSeq(F(n)) \o t, e)
    BY <2>2, <2>6, LeadsConcat
  <2>8. To(l, e)
    BY <2>4, <2>6, <2>7
  <2>. HIDE DEF To
  <2>. QED BY <2>8 DEF l
<1>. HIDE DEF T
<1>6. N \in T
  BY <1>0, <1>4, <1>5, Induction
<1>7. PICK e : To(N, e)
  BY <1>0, <1>6 DEF T
<1>. HIDE DEF F, pre
<1>8. Leads(d, pre, d)
  BY <1>3, LeadsNone
<1>9. Leads(d, pre \o FlattenSeq(F(N)), e)
  BY <1>7, <1>8, LeadsConcat
<1>. QED BY <1>2, <1>7, <1>9 DEF N

-----------------------------------------------------------------------------
(* Before the layers and after them.                                       *)

(* What the layers keep from one position to the next, after c positions.  *)
Settled(d, ms, c) == \A j \in 1 .. Len(ms) : KeepsOf(d, ms[j], j, c)

(* A device with the same states and caches keeps the same.                *)
LEMMA SettledKept ==
    ASSUME NEW d, NEW e, Kept(d, e, 0), NEW ms, NEW c, Settled(d, ms, c)
    PROVE  Settled(e, ms, c)
<1>1. \A b : \A j \in Nat \ {0} : ~Free(0, b, j)
  BY DEF Free
<1>2. \A b : \A j \in Nat \ {0} : Cell(e, <<b, j>>) = Cell(d, <<b, j>>)
  BY <1>1 DEF Kept
<1>3. \A b, r : RowIn(e, b, r) = RowIn(d, b, r)
  BY DEF Kept, RowIn
<1>4. ASSUME NEW j \in 1 .. Len(ms) PROVE KeepsOf(e, ms[j], j, c)
  <2>1. j \in Nat \ {0}
    OBVIOUS
  <2>2. \A b : Carries(j, c, b)[1] = b /\ Carries(j, c, b)[2] = j
    BY DEF Carries
  <2>3. Holds(d, {Carries(j, c, "conv_state"), Carries(j, c, "recurrent")})
        => Holds(e, {Carries(j, c, "conv_state"), Carries(j, c, "recurrent")})
    BY <1>2, <2>1, <2>2 DEF Holds
  <2>4. Cached(d, j, c) => Cached(e, j, c)
    BY <1>3 DEF Cached
  <2>5. KeepsOf(d, ms[j], j, c)
    BY DEF Settled
  <2>. QED BY <2>3, <2>4, <2>5 DEF KeepsOf
<1>. QED BY <1>4 DEF Settled

(* The host writes a value of position p.                                  *)
LEMMA PutTurns ==
    ASSUME NEW p \in Nat, NEW A, NEW B, NEW out, NEW n, NEW f, NEW l, n # "junk",
           \A x \in B : (x \in A /\ x[1] # out) \/ x = In(l, 0, p, out, n, f)
    PROVE  Turns(0, p, A, <<Put(out, n, f, l, p)>>, B)
<1>. DEFINE op == Put(out, n, f, l, p)
            v == Val(n, f, l, 0, p)
<1>1. /\ op.kind = "put" /\ op.stream = "compute" /\ op.host = {} /\ op.name = n /\ op.out = <<out, 0>>
      /\ op.in = {} /\ op.form = f /\ op.layer = l /\ op.slot = 0 /\ op.at = p
  BY DEF Put, At, Op
<1>. HIDE DEF op, v
<1>2. ASSUME NEW d PROVE Gives(d, op, Stored(d, <<out, 0>>, v))
  <2>1. Yields(d, op, p, Stored(d, <<out, 0>>, v))
    BY <1>1 DEF Yields, v
  <2>2. \A w \in op.in : Meets(Cell(d, w.buf), w, p)
    BY <1>1
  <2>. QED BY <1>1, <2>1, <2>2 DEF Gives
<1>3. Free(0, out, 0)
  BY DEF Free
<1>4. \A x \in B : (x \in A /\ x[1] # out) \/ x = <<out, 0, v>>
  BY DEF In, v
<1>5. Turns(0, p, A, <<op>>, B)
  BY <1>2, <1>3, <1>4, StoredTurns
<1>. QED BY <1>5 DEF op

(* The inputs of all layers.                                               *)
LEMMA PerLayerInputsTurns ==
    ASSUME NEW p \in Nat, NEW h \in Buffers
    PROVE  Turns(0, p, {Now(1, p, h, "x")},
                 PerLayerInputs(h, <<Put("ple_bf16_in", "rowbf16", "f32", 0, p)>>),
                 {Now(1, p, h, "x"), Now(0, p, "per_layer_inputs", "inputs")})
<1>. DEFINE x == Now(1, p, h, "x")
            rb == Now(0, p, "ple_bf16_in", "rowbf16")
            rw == Now(0, p, "per_layer_inputs", "row")
            xb == In(1, 0, p, "ple_bf16_in", "x", "bf16")
            pj == Now(0, p, "ple_projection", "proj")
            pn == Now(0, p, "ple_projection_normed", "projn")
            I  == Now(0, p, "per_layer_inputs", "inputs")
            a == <<Put("ple_bf16_in", "rowbf16", "f32", 0, p)>>
            b1 == K(0, "per_layer_inputs", "row", {<<"ple_bf16_in", "rowbf16">>})
            b2 == Op("kernel", "compute", "ple_bf16_in", "x", "bf16", 1, 0, {Want(h, "x", "f32", 1, 0)})
            b3 == Op("kernel", "compute", "ple_projection", "proj", "f32", 0, 0, {Want("ple_bf16_in", "x", "bf16", 1, 0)})
            b4 == K(0, "ple_projection_normed", "projn", {<<"ple_projection", "proj">>})
            b5 == K(0, "per_layer_inputs", "inputs",
                    {<<"per_layer_inputs", "row">>, <<"ple_projection_normed", "projn">>})
<1>on. /\ x[1] = h /\ rb[1] = "ple_bf16_in" /\ rw[1] = "per_layer_inputs" /\ xb[1] = "ple_bf16_in"
       /\ pj[1] = "ple_projection" /\ pn[1] = "ple_projection_normed" /\ I[1] = "per_layer_inputs"
       /\ h \in Buffers /\ h # "ple_bf16_in" /\ h # "per_layer_inputs" /\ h # "ple_projection"
       /\ h # "ple_projection_normed"
  BY FactOn DEF Buffers
<1>in. rb = In(0, 0, p, "ple_bf16_in", "rowbf16", "f32") /\ x = In(1, 0, p, h, "x", "f32")
       /\ pj = In(0, 0, p, "ple_projection", "proj", "f32")
  BY DEF Now
<1>1. Turns(0, p, {x}, a, {x, rb})
  <2>. HIDE DEF x, rb
  <2>. QED BY <1>on, <1>in, PutTurns
<1>2. Turns(0, p, {x, rb}, <<b1>>, {x, rw})
  <2>1. \A y \in {x, rw} : (y \in {x, rb} /\ y[1] # "per_layer_inputs") \/ y = rw
    <3>. HIDE DEF x, rb, rw
    <3>. QED BY <1>on
  <2>. QED BY <2>1, K1Turns
<1>3. Turns(0, p, {x, rw}, <<b2>>, {x, rw, xb})
  <2>1. \A y \in {x, rw, xb} : (y \in {x, rw} /\ y[1] # "ple_bf16_in") \/ y = xb
    <3>. HIDE DEF x, rw, xb
    <3>. QED BY <1>on
  <2>2. In(1, 0, p, h, "x", "f32") \in {x, rw}
    BY <1>in
  <2>. QED BY <2>1, <2>2, OneTurns
<1>4. Turns(0, p, {x, rw, xb}, <<b3>>, {x, rw, pj})
  <2>1. \A y \in {x, rw, pj} :
           (y \in {x, rw, xb} /\ y[1] # "ple_projection") \/ y = In(0, 0, p, "ple_projection", "proj", "f32")
    <3>. HIDE DEF x, rw, xb, pj
    <3>. QED BY <1>on, <1>in
  <2>. QED BY <2>1, OneTurns
<1>5. Turns(0, p, {x, rw, pj}, <<b4>>, {x, rw, pn})
  <2>1. \A y \in {x, rw, pn} : (y \in {x, rw, pj} /\ y[1] # "ple_projection_normed") \/ y = pn
    <3>. HIDE DEF x, rw, pj, pn
    <3>. QED BY <1>on
  <2>. QED BY <2>1, K1Turns
<1>6. Turns(0, p, {x, rw, pn}, <<b5>>, {x, I})
  <2>1. \A y \in {x, I} : (y \in {x, rw, pn} /\ y[1] # "per_layer_inputs") \/ y = I
    <3>. HIDE DEF x, rw, pn, I
    <3>. QED BY <1>on
  <2>. QED BY <2>1, K2Turns
<1>. HIDE DEF x, rb, rw, xb, pj, pn, I, a, b1, b2, b3, b4, b5
<1>7. Turns(0, p, {x, rb}, <<b1, b2, b3, b4, b5>>, {x, I})
  <2>1. Turns(0, p, {x, rb}, <<b1, b2, b3, b4>>, {x, rw, pn})
    BY <1>2, <1>3, <1>4, <1>5, TurnsFour
  <2>2. Turns(0, p, {x, rb}, <<b1, b2, b3, b4>> \o <<b5>>, {x, I})
    BY <1>6, <2>1, TurnsConcat
  <2>3. <<b1, b2, b3, b4, b5>> = <<b1, b2, b3, b4>> \o <<b5>>
    OBVIOUS
  <2>. QED BY <2>2, <2>3
<1>8. Turns(0, p, {x}, a \o <<b1, b2, b3, b4, b5>>, {x, I})
  BY <1>1, <1>7, TurnsConcat
<1>. QED BY <1>8 DEF PerLayerInputs, x, I, a, b1, b2, b3, b4, b5

(* A step begins: from what the layers keep to the input of the first one. *)
LEMMA PrologueLeads ==
    ASSUME NEW ms \in Seq(LayerType), NEW h \in Buffers, NEW p \in Nat, NEW d, Settled(d, ms, p)
    PROVE  \E e : Leads(d, Prologue(ms, h, p), e) /\ Through(e, ms, h, p, 0)
<1>. DEFINE x == Now(1, p, h, "x")
            I == IF UsesPle(ms) THEN Now(0, p, "per_layer_inputs", "inputs") ELSE x
            P == Now(0, p, "decode_position", "position")
            L == Now(0, p, "decode_seq_len", "length")
            a == <<Put(h, "x", "f32", 1, p)>>
            b == When(UsesPle(ms), PerLayerInputs(h, <<Put("ple_bf16_in", "rowbf16", "f32", 0, p)>>))
            c1 == Put("decode_position", "position", "f32", 0, p)
            c2 == Put("decode_seq_len", "length", "f32", 0, p)
<1>on. x[1] # "decode_position" /\ x[1] # "decode_seq_len" /\ I[1] # "decode_position" /\ I[1] # "decode_seq_len"
       /\ P[1] = "decode_position" /\ L[1] = "decode_seq_len"
  BY FactOn DEF Buffers
<1>in. /\ x = In(1, 0, p, h, "x", "f32") /\ P = In(0, 0, p, "decode_position", "position", "f32")
       /\ L = In(0, 0, p, "decode_seq_len", "length", "f32")
  BY DEF Now
<1>0. Prologue(ms, h, p) = a \o b \o <<c1, c2>>
  BY DEF Prologue, UsesPle
<1>1. Turns(0, p, {}, a, {x})
  <2>. HIDE DEF x
  <2>. QED BY <1>in, PutTurns
<1>2. Turns(0, p, {x}, b, {x, I})
  <2>1. UsesPle(ms) => Turns(0, p, {x}, PerLayerInputs(h, <<Put("ple_bf16_in", "rowbf16", "f32", 0, p)>>), {x, I})
    BY PerLayerInputsTurns
  <2>2. UsesPle(ms) \/ {x, I} \subseteq {x}
    <3>. HIDE DEF x
    <3>. QED OBVIOUS
  <2>. HIDE DEF x, I
  <2>. QED BY <2>1, <2>2, TurnsWhen
<1>3. Turns(0, p, {x, I}, <<c1>>, {x, I, P})
  <2>. HIDE DEF x, I, P
  <2>. QED BY <1>on, <1>in, PutTurns
<1>4. Turns(0, p, {x, I, P}, <<c2>>, {x, I, P, L})
  <2>. HIDE DEF x, I, P, L
  <2>. QED BY <1>on, <1>in, PutTurns
<1>5. I = x \/ I = Now(0, p, "per_layer_inputs", "inputs")
  OBVIOUS
<1>6. UsesPle(ms) => I = Now(0, p, "per_layer_inputs", "inputs")
  OBVIOUS
<1>. HIDE DEF a, b, c1, c2, x, I, P, L
<1>7. Turns(0, p, {}, a \o b \o <<c1, c2>>, {x, I, P, L})
  BY <1>1, <1>2, <1>3, <1>4, TurnsTwo, TurnsConcat
<1>8. PICK e : Leads(d, Prologue(ms, h, p), e) /\ Holds(e, {x, I, P, L}) /\ Kept(d, e, 0)
  <2>1. Holds(d, {})
    BY DEF Holds
  <2>. QED BY <1>0, <1>7, <2>1 DEF Turns
<1>9. Settled(e, ms, p)
  BY <1>8, SettledKept
<1>10. Holds(e, {x, P, L}) /\ Holds(e, {I})
  BY <1>8 DEF Holds
<1>11. HiddenOf(h, 0 + 1) = h
  BY DEF HiddenOf
<1>12. Through(e, ms, h, p, 0)
  <2>1. Holds(e, {Now(0 + 1, p, HiddenOf(h, 0 + 1), "x"), Now(0, p, "decode_position", "position"),
                  Now(0, p, "decode_seq_len", "length")})
    <3>1. 0 + 1 = 1
      OBVIOUS
    <3>. QED BY <1>10, <1>11, <3>1 DEF x, P, L
  <2>2. UsesPle(ms) => Holds(e, {Now(0, p, "per_layer_inputs", "inputs")})
    BY <1>6, <1>10
  <2>3. \A j \in 1 .. Len(ms) : KeepsOf(e, ms[j], j, IF j <= 0 THEN p + 1 ELSE p)
    BY <1>9 DEF Settled
  <2>. QED BY <2>1, <2>2, <2>3 DEF Through
<1>. QED BY <1>8, <1>12

(* After the layers each keeps a position more.                            *)
LEMMA ThroughSettled ==
    ASSUME NEW d, NEW ms, NEW h, NEW p, Len(ms) \in Nat, Through(d, ms, h, p, Len(ms))
    PROVE  Settled(d, ms, p + 1) /\ Holds(d, {Now(Len(ms) + 1, p, HiddenAfter(ms, h), "x")})
BY DEF Through, Settled, HiddenAfter, Holds

(* The logits and the token of position p.                                 *)
Logits(ms, p) == Now(Len(ms) + 1, p, "logits", "logits")
Token(ms, p)  == Now(Len(ms) + 1, p, "sampled_token", "token")
Sample(ms, p) == Now(Len(ms) + 1, p, "sampled_token", "sampled")

(* A step ends with them.                                                  *)
LEMMA FinalTurns ==
    ASSUME NEW ms, NEW g \in Buffers, NEW p \in Nat
    PROVE  /\ Turns(0, p, {Now(Len(ms) + 1, p, g, "x")}, FinalLogits(ms, g), {Logits(ms, p)})
           /\ Turns(0, p, {Logits(ms, p)}, Argmax(ms), {Logits(ms, p), Token(ms, p)})
           /\ Turns(0, p, {Logits(ms, p)}, Sampler(ms), {Sample(ms, p)})
<1>. DEFINE l == Len(ms) + 1
            x == Now(l, p, g, "x")
            f == Now(l, p, "final_hidden", "fh")
            o == Now(l, p, "logits", "logits")
            t == Now(l, p, "sampled_token", "token")
            s == Now(l, p, "sampled_token", "sampled")
<1>on. f[1] = "final_hidden" /\ o[1] = "logits" /\ t[1] = "sampled_token" /\ s[1] = "sampled_token"
  BY FactOn
<1>. HIDE DEF l
<1>1. Turns(0, p, {x}, <<K(l, "final_hidden", "fh", {<<g, "x">>})>>, {f})
  <2>1. \A y \in {f} : (y \in {x} /\ y[1] # "final_hidden") \/ y = f
    OBVIOUS
  <2>. QED BY <2>1, K1Turns
<1>2. Turns(0, p, {f}, <<K(l, "logits", "logits", {<<"final_hidden", "fh">>})>>, {o})
  <2>1. \A y \in {o} : (y \in {f} /\ y[1] # "logits") \/ y = o
    OBVIOUS
  <2>. QED BY <2>1, K1Turns
<1>3. Turns(0, p, {o}, <<K(l, "sampled_token", "token", {<<"logits", "logits">>})>>, {o, t})
  <2>1. \A y \in {o, t} : (y \in {o} /\ y[1] # "sampled_token") \/ y = t
    <3>. HIDE DEF o, t
    <3>. QED BY <1>on
  <2>. QED BY <2>1, K1Turns
<1>4. Turns(0, p, {o}, <<K(l, "sampled_token", "sampled", {<<"logits", "logits">>})>>, {s})
  <2>1. \A y \in {s} : (y \in {o} /\ y[1] # "sampled_token") \/ y = s
    OBVIOUS
  <2>. QED BY <2>1, K1Turns
<1>5. Turns(0, p, {x}, <<K(l, "final_hidden", "fh", {<<g, "x">>}),
                         K(l, "logits", "logits", {<<"final_hidden", "fh">>})>>, {o})
  BY <1>1, <1>2, TurnsTwo
<1>. QED BY <1>3, <1>4, <1>5 DEF FinalLogits, Argmax, Sampler, Logits, Token, Sample, l

-----------------------------------------------------------------------------
(* Programs of the compute stream, as the host issues them.                *)

(* Such a program is a sequence of operations of that stream, which need   *)
(* no argument of the host.                                                *)
Computes(ops) == (\E S : ops \in Seq(S)) /\ \A i \in 1 .. Len(ops) : ops[i].stream = "compute" /\ ops[i].host = {}

(* So are those that find their inputs.                                    *)
LEMMA LeadsComputes ==
    ASSUME NEW d, NEW ops, NEW e, Leads(d, ops, e)
    PROVE  Computes(ops)
BY DEF Leads, Gives, Computes

(* And those that are empty, which do nothing.                             *)
LEMMA LeadsNothing ==
    ASSUME NEW d, NEW e, Leads(d, <<>>, e)
    PROVE  e = d
<1>1. Len(<<>>) = 0
  OBVIOUS
<1>. QED BY <1>1 DEF Leads

(* All of them are of the compute stream ...                               *)
LEMMA ComputesStream ==
    ASSUME NEW ops, Computes(ops)
    PROVE  OfStream(ops, "compute") = ops /\ OfStream(ops, "transfer") = <<>>
<1>1. PICK S : ops \in Seq(S)
  BY DEF Computes
<1>. DEFINE n == Len(ops)
            s == "compute"
<1>2. PICK f : f \in [0 .. n -> Seq(S)] /\ Selected(f, ops, s) /\ OfStream(ops, s) = f[n]
  BY <1>1, StreamSelected
<1>3. n \in Nat /\ \A i \in 1 .. n : ops[i] \in S /\ ops[i].stream = s
  BY <1>1 DEF Computes
<1>. DEFINE T == {i \in Nat : i \in 0 .. n => Len(f[i]) = i /\ \A j \in 1 .. i : f[i][j] = ops[j]}
<1>4. 0 \in T
  <2>1. f[0] = <<>>
    BY <1>2 DEF Selected
  <2>. QED BY <2>1
<1>5. ASSUME NEW i \in Nat, i \in T PROVE i + 1 \in T
  <2>. SUFFICES ASSUME i + 1 \in 0 .. n PROVE Len(f[i + 1]) = i + 1 /\ \A j \in 1 .. i + 1 : f[i + 1][j] = ops[j]
    OBVIOUS
  <2>. DEFINE k == i + 1
              x == ops[k]
              t == <<x>>
  <2>1. k \in 1 .. n /\ k - 1 = i /\ i \in 0 .. n
    BY <1>3
  <2>2. f[k] = f[k - 1] \o When(ops[k].stream = s, <<ops[k]>>)
    <3>. HIDE DEF k, n
    <3>. QED BY <1>2, <2>1 DEF Selected, n
  <2>3. x \in S /\ x.stream = s
    BY <1>3, <2>1
  <2>4. f[k] = f[i] \o t
    BY <2>1, <2>2, <2>3 DEF When
  <2>5. f[i] \in Seq(S) /\ Len(f[i]) = i /\ \A j \in 1 .. i : f[i][j] = ops[j]
    BY <1>2, <1>5, <2>1
  <2>. DEFINE y == f[i]
  <2>6. y \o t \in Seq(S) /\ Len(y \o t) = i + 1 /\ \A j \in 1 .. i + 1 : (y \o t)[j] = IF j <= i THEN y[j] ELSE x
    <3>1. t \in Seq(S) /\ Len(t) = 1 /\ t[1] = x
      <4>. HIDE DEF x
      <4>. QED BY <2>3
    <3>2. y \in Seq(S) /\ Len(y) = i
      BY <2>5
    <3>. HIDE DEF t, y, x
    <3>. DEFINE yt == y \o t
    <3>3. yt \in Seq(S) /\ Len(yt) = i + 1 /\ \A j \in 1 .. i + 1 : yt[j] = IF j <= i THEN y[j] ELSE t[j - i]
      <4>1. /\ yt \in Seq(S) /\ Len(yt) = Len(y) + Len(t)
            /\ \A j \in 1 .. Len(y) + Len(t) : yt[j] = IF j <= Len(y) THEN y[j] ELSE t[j - Len(y)]
        BY <3>1, <3>2, ConcatProperties
      <4>. HIDE DEF yt
      <4>. QED BY <3>1, <3>2, <4>1
    <3>. HIDE DEF yt
    <3>4. ASSUME NEW j \in 1 .. i + 1 PROVE yt[j] = IF j <= i THEN y[j] ELSE x
      <4>1. ~(j <= i) => j - i = 1
        OBVIOUS
      <4>. QED BY <3>1, <3>3, <4>1
    <3>5. yt \in Seq(S) /\ Len(yt) = i + 1 /\ \A j \in 1 .. i + 1 : yt[j] = IF j <= i THEN y[j] ELSE x
      BY <3>3, <3>4
    <3>. QED BY <3>5 DEF yt
  <2>7. \A j \in 1 .. i + 1 : j <= i \/ j = k
    OBVIOUS
  <2>. HIDE DEF k, t
  <2>. QED BY <2>4, <2>5, <2>6, <2>7 DEF k
<1>. HIDE DEF T
<1>6. n \in T
  BY <1>3, <1>4, <1>5, Induction
<1>7. n \in 0 .. n /\ f[n] \in Seq(S)
  BY <1>2, <1>3
<1>8. Len(f[n]) = n /\ \A j \in 1 .. n : f[n][j] = ops[j]
  BY <1>3, <1>6, <1>7 DEF T
<1>9. f[n] = ops
  <2>. DEFINE y == f[n]
  <2>1. y \in Seq(S) /\ Len(y) = Len(ops) /\ \A j \in 1 .. Len(ops) : y[j] = ops[j]
    BY <1>7, <1>8
  <2>. HIDE DEF y
  <2>2. y = ops
    BY <1>1, <2>1, SeqEqual
  <2>. QED BY <2>2 DEF y
<1>10. OfStream(ops, "transfer") = <<>>
  <2>1. \A i \in 1 .. Len(ops) : ops[i].stream # "transfer"
    BY DEF Computes
  <2>. QED BY <1>1, <2>1, StreamSkips
<1>. QED BY <1>2, <1>9, <1>10

(* ... and are issued as they are, up to the first operation of the host.  *)
LEMMA ComputesIssued ==
    ASSUME NEW x, NEW y, Computes(x), y = <<>> \/ y = Download, todo = x \o y
    PROVE  /\ todo # <<>> /\ ~HostIsNext => x # <<>>
           /\ x # <<>> =>
                 /\ Segment = x
                 /\ [i \in DOMAIN x |-> Resolve(x[i])] = x
                 /\ SubSeq(todo, Len(x) + 1, Len(todo)) = y
<1>1. PICK S : x \in Seq(S)
  BY DEF Computes
<1>. DEFINE r == OnHost("return", "answer", "", 0, {})
            U == S \cup {r}
            n == Len(x)
            m == Len(y)
            z == x \o y
<1>2. x \in Seq(U) /\ y \in Seq(U) /\ m \in {0, 1} /\ (m = 1 => y[1] = r)
  <2>1. S \subseteq U
    OBVIOUS
  <2>2. r \in U /\ Download = <<r>>
    BY DEF Download
  <2>. HIDE DEF U, r
  <2>3. x \in Seq(U)
    BY <1>1, <2>1, SeqMonotonic
  <2>4. <<>> \in Seq(U) /\ <<r>> \in Seq(U) /\ Len(<<>>) = 0 /\ Len(<<r>>) = 1 /\ <<r>>[1] = r
    BY <2>2
  <2>5. CASE y = <<>>
    BY <2>3, <2>4, <2>5
  <2>6. CASE y = <<r>>
    BY <2>3, <2>4, <2>6
  <2>. QED BY <2>2, <2>5, <2>6
<1>3. r.stream = "host"
  BY DEF OnHost, Op
<1>. HIDE DEF r, U, z
<1>4. /\ z \in Seq(U) /\ Len(z) = n + m /\ n \in Nat
      /\ \A i \in 1 .. n + m : z[i] = IF i <= n THEN x[i] ELSE y[i - n]
  BY <1>2, ConcatProperties DEF z
<1>5. todo = z
  BY DEF z
<1>6. \A i \in 1 .. n : z[i] = x[i] /\ x[i].stream = "compute" /\ x[i].host = {}
  BY <1>4 DEF Computes
<1>7. m = 1 => z[n + 1] = r
  <2>. SUFFICES ASSUME m = 1 PROVE z[n + 1] = r
    OBVIOUS
  <2>1. n + 1 \in 1 .. n + m /\ ~(n + 1 <= n) /\ n + 1 - n = 1
    BY <1>4
  <2>. HIDE DEF n, m
  <2>. QED BY <1>2, <1>4, <2>1
<1>. HIDE DEF m
<1>8. ASSUME todo # <<>>, ~HostIsNext PROVE x # <<>>
  <2>. SUFFICES ASSUME x = <<>> PROVE FALSE
    OBVIOUS
  <2>1. n = 0
    OBVIOUS
  <2>2. z # <<>> /\ Head(z).stream # "host"
    BY <1>5, <1>8 DEF HostIsNext
  <2>3. Len(z) # 0 /\ Head(z) = z[1]
    BY <1>4, <2>2
  <2>4. m = 1
    BY <1>2, <1>4, <2>1, <2>3
  <2>5. n + 1 = 1
    BY <2>1
  <2>. QED BY <1>3, <1>7, <2>2, <2>3, <2>4, <2>5
<1>. DEFINE stops == {i \in DOMAIN todo : todo[i].stream = "host"}
<1>9. \A i \in stops : i = n + 1 /\ m = 1
  <2>1. DOMAIN todo = 1 .. n + m
    BY <1>4, <1>5
  <2>. SUFFICES ASSUME NEW i \in 1 .. n + m, z[i].stream = "host" PROVE i = n + 1 /\ m = 1
    BY <1>5, <2>1
  <2>2. i \notin 1 .. n
    BY <1>6
  <2>. QED BY <1>2, <1>4, <2>2
<1>10. Segment = x /\ SubSeq(todo, n + 1, Len(todo)) = y
  <2>1. CASE m = 0
    <3>1. y = <<>>
      BY <1>2, <2>1 DEF m
    <3>2. z = x
      <4>1. x \o <<>> = x
        BY <1>1, ConcatEmptySeq
      <4>. QED BY <3>1, <4>1 DEF z
    <3>3. stops = {}
      BY <1>9, <2>1
    <3>4. Segment = todo
      BY <3>3 DEF Segment
    <3>5. SubSeq(todo, n + 1, Len(todo)) = <<>>
      BY <1>1, <1>5, <3>2
    <3>. QED BY <1>5, <3>1, <3>2, <3>4, <3>5
  <2>2. CASE m = 1
    <3>1. n + 1 \in stops
      BY <1>3, <1>4, <1>5, <1>7, <2>2
    <3>2. stops # {} /\ (CHOOSE i \in stops : \A j \in stops : i <= j) = n + 1
      <4>1. \A i, j \in stops : i = j /\ i <= j
        BY <1>4, <1>9
      <4>2. stops = {n + 1}
        BY <1>9, <3>1
      <4>3. n + 1 <= n + 1
        BY <1>4
      <4>. HIDE DEF stops
      <4>4. \E i \in stops : \A j \in stops : i <= j
        BY <4>2, <4>3
      <4>. QED BY <4>2, <4>4
    <3>3. Segment = SubSeq(todo, 1, n)
      <4>. DEFINE i0 == CHOOSE i \in stops : \A j \in stops : i <= j
      <4>1. Segment = IF stops = {} THEN todo ELSE SubSeq(todo, 1, i0 - 1)
        BY Zenon DEF Segment
      <4>. HIDE DEF stops
      <4>2. i0 = n + 1
        BY <3>2
      <4>3. stops # {}
        BY <3>2
      <4>. HIDE DEF i0, n
      <4>4. Segment = SubSeq(todo, 1, i0 - 1)
        BY ONLY <4>1, <4>3, Zenon
      <4>5. i0 - 1 = n
        BY <1>4, <4>2
      <4>. QED BY ONLY <4>4, <4>5, Zenon
    <3>5. SubSeq(z, 1, n) = x /\ SubSeq(z, n + 1, n + m) = y
      <4>. DEFINE u == SubSeq(z, 1, n)
                  v == SubSeq(z, n + 1, n + m)
      <4>1. u \in Seq(U) /\ Len(u) = n /\ \A i \in 1 .. n : u[i] = x[i]
        <5>1. \A i \in 1 .. n : z[i] \in U
          <6>1. \A i \in 1 .. n : i \in 1 .. Len(z)
            BY <1>2, <1>4
          <6>. QED BY <1>4, <6>1
        <5>2. /\ u \in Seq(U) /\ Len(u) = IF 1 <= n THEN n - 1 + 1 ELSE 0
              /\ \A i \in 1 .. n - 1 + 1 : u[i] = z[1 + i - 1]
          BY <1>4, <5>1, SubSeqProperties
        <5>. HIDE DEF u, n
        <5>3. ASSUME NEW i \in 1 .. n PROVE u[i] = x[i]
          <6>1. i \in 1 .. n - 1 + 1 /\ 1 + i - 1 = i
            BY <1>4
          <6>. QED BY <1>6, <5>2, <6>1
        <5>. QED BY <1>4, <5>2, <5>3
      <4>2. v \in Seq(U) /\ Len(v) = 1 /\ v[1] = r
        BY <1>4, <1>7, <2>2
      <4>. HIDE DEF u, v
      <4>3. u = x
        BY <1>2, <4>1, SeqEqual
      <4>4. v = y
        <5>1. Len(y) = 1 /\ y[1] = r
          BY <1>2, <2>2 DEF m
        <5>. QED BY <1>2, <4>2, <5>1, SeqEqual
      <4>. QED BY <4>3, <4>4 DEF u, v
    <3>. QED BY <1>4, <1>5, <3>3, <3>5
  <2>. QED BY <1>2, <2>1, <2>2
<1>11. [i \in DOMAIN x |-> Resolve(x[i])] = x
  <2>1. DOMAIN x = 1 .. n /\ x = [i \in 1 .. n |-> x[i]]
    BY <1>1
  <2>2. ASSUME NEW i \in 1 .. n PROVE Resolve(x[i]) = x[i]
    <3>1. x[i].host = {}
      BY <1>6
    <3>. QED BY <3>1 DEF Resolve
  <2>. HIDE DEF n
  <2>. QED BY <2>1, <2>2
<1>. QED BY <1>8, <1>10, <1>11

-----------------------------------------------------------------------------
(* The device itself.                                                      *)

Device == [mem |-> mem, rows |-> rows]

(* An operation that finds its inputs has the effect it should have.       *)
LEMMA EffectGives ==
    ASSUME NEW op, NEW e, Gives(Device, op, e), Effect(op)
    PROVE  Device' = e
<1>1. PICK p \in Nat : Yields(Device, op, p, e) /\ \A w \in op.in : Meets(Cell(Device, w.buf), w, p)
  BY DEF Gives
<1>2. op.host = {} /\ op.name # "junk"
  BY DEF Gives
<1>3. (\A b : Read(b) = Cell(Device, b)) /\ (\A b, r : Row(b, r) = RowIn(Device, b, r))
  BY DEF Read, Cell, Row, RowIn, Device
<1>4. Device.mem = mem /\ Device.rows = rows
  BY DEF Device
<1>5. \A w \in op.in : Found(w, p)
  <2>. SUFFICES ASSUME NEW w \in op.in PROVE Found(w, p)
    OBVIOUS
  <2>1. Meets(Cell(Device, w.buf), w, p)
    BY <1>1
  <2>2. CASE w.name = "zero"
    <3>1. ~(w.back > 0 /\ p < w.back) /\ Read(w.buf).name = "zero"
      BY <1>3, <2>1, <2>2 DEF Meets
    <3>. QED BY <2>2, <3>1 DEF Found
  <2>3. CASE w.name # "zero" /\ w.back > 0 /\ p < w.back
    BY <1>3, <2>1, <2>3 DEF Meets, Found
  <2>4. CASE w.name # "zero" /\ ~(w.back > 0 /\ p < w.back)
    BY <1>3, <2>1, <2>4 DEF Meets, Found
  <2>. QED BY <2>2, <2>3, <2>4
<1>6. ASSUME NEW w \in op.in, w.back = 0, w.name # "zero" PROVE Read(w.buf).pos = p
  <2>1. ~(w.back > 0) /\ p - w.back = p
    BY <1>6
  <2>2. Read(w.buf) = Val(w.name, w.form, w.layer, w.slot, p)
    BY <1>1, <1>3, <1>6, <2>1 DEF Meets
  <2>. QED BY <2>2 DEF Val
<1>7. Anchored(op) => PositionOf(op) = p
  <2>. SUFFICES ASSUME Anchored(op) PROVE PositionOf(op) = p
    OBVIOUS
  <2>. DEFINE v == CHOOSE w \in op.in : w.back = 0 /\ w.name # "zero"
  <2>1. v \in op.in /\ v.back = 0 /\ v.name # "zero"
    BY DEF Anchored
  <2>2. op.in # {}
    BY DEF Anchored
  <2>3. PositionOf(op) = Read(v.buf).pos
    BY <1>2, <2>2 DEF PositionOf
  <2>. HIDE DEF v
  <2>. QED BY <1>6, <2>1, <2>3
<1>8. CASE op.kind = "kernel" /\ Anchored(op)
  <2>1. e = Stored(Device, op.out, Val(op.name, op.form, op.layer, op.slot, p))
    BY <1>1, <1>8 DEF Yields
  <2>2. Result(op) = Val(op.name, op.form, op.layer, op.slot, p)
    BY <1>2, <1>5, <1>7, <1>8 DEF Result, InputsFound
  <2>3. mem' = Written(mem, op.out, Result(op)) /\ rows' = rows
    BY <1>8 DEF Effect
  <2>. QED BY <1>4, <2>1, <2>2, <2>3 DEF Stored, Device
<1>9. CASE op.kind = "put" /\ op.in = {} /\ op.at = p
  <2>1. e = Stored(Device, op.out, Val(op.name, op.form, op.layer, op.slot, p))
    BY <1>1, <1>9 DEF Yields
  <2>2. Result(op) = Val(op.name, op.form, op.layer, op.slot, p)
    BY <1>2, <1>5, <1>9 DEF Result, InputsFound, PositionOf
  <2>3. mem' = Written(mem, op.out, Result(op)) /\ rows' = rows
    BY <1>9 DEF Effect
  <2>. QED BY <1>4, <2>1, <2>2, <2>3 DEF Stored, Device
<1>10. CASE op.kind = "zero" /\ \A w \in op.in : w.name = "zero"
  <2>1. e = Stored(Device, op.out, Val("zero", "f32", 0, 0, 0))
    BY <1>1, <1>10 DEF Yields
  <2>2. InputsFound(op)
    <3>1. ASSUME NEW w \in op.in PROVE Found(w, PositionOf(op))
      <4>1. w.name = "zero" /\ Meets(Cell(Device, w.buf), w, p)
        BY <1>1, <1>10
      <4>2. w.back = 0 /\ Read(w.buf).name = "zero"
        BY <1>3, <4>1 DEF Meets
      <4>. QED BY <4>1, <4>2 DEF Found
    <3>. QED BY <3>1 DEF InputsFound
  <2>3. Result(op) = Val("zero", "f32", 0, 0, 0)
    BY <1>2, <1>10, <2>2 DEF Result
  <2>4. mem' = Written(mem, op.out, Result(op)) /\ rows' = rows
    BY <1>10 DEF Effect
  <2>. QED BY <1>4, <2>1, <2>3, <2>4 DEF Stored, Device
<1>11. CASE op.kind = "attend" /\ Anchored(op)
  <2>1. /\ p < GraphMax \/ p < op.at
        /\ \A r \in 0 .. p : RowIn(Device, op.id, r) = Val("kv", "f32", op.slot, 0, r)
        /\ e = Stored(Device, op.out, Val(op.name, op.form, op.layer, 0, p))
    BY <1>1, <1>11 DEF Yields
  <2>2. Attended(op) = Val(op.name, op.form, op.layer, 0, p)
    BY <1>3, <1>5, <1>7, <1>11, <2>1 DEF Attended, InputsFound
  <2>3. mem' = Written(mem, op.out, Attended(op)) /\ rows' = rows
    BY <1>11 DEF Effect
  <2>. QED BY <1>4, <2>1, <2>2, <2>3 DEF Stored, Device
<1>12. CASE op.kind = "store" /\ Anchored(op)
  <2>1. /\ op.slot = 0
        /\ \E w \in op.in : w.name = "position"
        /\ \A w \in op.in : w.name = "position" => w.back = 0
        /\ e = AddRow(Device, op.out, p, Val(op.name, "f32", op.layer, 0, p))
    BY <1>1, <1>12 DEF Yields
  <2>. DEFINE v == CHOOSE w \in op.in : w.name = "position"
  <2>2. v \in op.in /\ v.name = "position" /\ v.back = 0
    BY <2>1
  <2>3. Where(op) = Read(v.buf).pos
    BY DEF Where
  <2>. HIDE DEF v
  <2>4. Where(op) = p
    BY <1>6, <2>2, <2>3
  <2>5. InputsFound(op)
    BY <1>5, <1>7, <1>12 DEF InputsFound
  <2>. DEFINE new == [r \in Where(op) - op.slot .. Where(op) |->
                         IF InputsFound(op) THEN Val(op.name, "f32", op.layer, 0, r) ELSE Junk]
  <2>6. new = [r \in {p} |-> Val(op.name, "f32", op.layer, 0, p)]
    <3>1. Where(op) - op.slot .. Where(op) = {p}
      BY <2>1, <2>4
    <3>. QED BY <2>5, <3>1
  <2>7. rows' = PutRows(rows, op.out, new) /\ mem' = mem
    BY <1>12 DEF Effect
  <2>. HIDE DEF new
  <2>. QED BY <1>4, <2>1, <2>6, <2>7 DEF AddRow, Device
<1>. QED BY <1>1, <1>8, <1>9, <1>10, <1>11, <1>12, Zenon DEF Yields

(* The host is next only when such a program has ended.                    *)
LEMMA ComputesFirst ==
    ASSUME NEW x, NEW y, Computes(x), y = <<>> \/ y = Download, todo = x \o y
    PROVE  /\ x = <<>> => todo = y
           /\ x # <<>> => todo # <<>> /\ ~HostIsNext
<1>1. PICK S : x \in Seq(S)
  BY DEF Computes
<1>. DEFINE r == OnHost("return", "answer", "", 0, {})
            U == S \cup {r}
            z == x \o y
<1>2. x \in Seq(U) /\ y \in Seq(U)
  <2>1. S \subseteq U
    OBVIOUS
  <2>2. r \in U /\ Download = <<r>>
    BY DEF Download
  <2>. HIDE DEF U, r
  <2>3. x \in Seq(U)
    BY <1>1, <2>1, SeqMonotonic
  <2>4. <<>> \in Seq(U) /\ <<r>> \in Seq(U)
    BY <2>2
  <2>5. CASE y = <<>>
    BY <2>3, <2>4, <2>5
  <2>6. CASE y = <<r>>
    BY <2>3, <2>4, <2>6
  <2>. QED BY <2>2, <2>5, <2>6
<1>. HIDE DEF U, r
<1>3. ASSUME x = <<>> PROVE todo = y
  <2>1. <<>> \o y = y
    BY <1>2, ConcatEmptySeq
  <2>. QED BY <1>3, <2>1
<1>4. ASSUME x # <<>> PROVE todo # <<>> /\ ~HostIsNext
  <2>1. Len(x) \in Nat \ {0} /\ Len(y) \in Nat
    BY <1>2, <1>4
  <2>2. z \in Seq(U) /\ Len(z) = Len(x) + Len(y) /\ z[1] = x[1]
    BY <1>2, <1>4
  <2>3. x[1].stream = "compute"
    BY <2>1 DEF Computes
  <2>. HIDE DEF z
  <2>4. z # <<>> /\ Head(z) = z[1]
    BY <2>1, <2>2
  <2>. QED BY <2>2, <2>3, <2>4 DEF HostIsNext, z
<1>. QED BY <1>3, <1>4

(* Nothing is behind the last operation.                                   *)
LEMMA ComputesEnd ==
    ASSUME NEW x, Computes(x)
    PROVE  x \o <<>> = x
<1>1. PICK S : x \in Seq(S)
  BY DEF Computes
<1>. QED BY <1>1, ConcatEmptySeq

-----------------------------------------------------------------------------
(* Where a request is.                                                     *)

(* Whether steps of this model may be captured.                            *)
Capturable == GraphMax # 0 /\ (HasStagedLayers => Graphable)

(* The requests of the theorem below: the prompt is run token by token, all*)
(* operations are of the compute stream, and if steps are captured, hidden *)
(* names the same buffer in a replay as in the capture.                    *)
OneStream == ~Chunked /\ AllOnDevice(model) /\ (Capturable => Len(model) % 2 = 0)

(* What runs, or is captured, from the layers on: issued for position q.   *)
OneStep(h, q) == Layers(model, h, q, 0) \o (FinalLogits(model, HiddenAfter(model, h)) \o Argmax(model))

(* What it leads to, and what the call returns.                            *)
Stepped(e) == /\ Settled(e, model, position + 1)
              /\ Holds(e, {Logits(model, position), Token(model, position)})
AnswerName == CASE sampler = "greedy" -> "token" [] sampler = "gpu" -> "sampled" [] sampler = "host" -> "logits"
Answers(e) == /\ Settled(e, model, position)
              /\ Cell(e, <<AnswerBuffer, 0>>) = Val(AnswerName, "f32", Len(model) + 1, 0, position - 1)

(* With c when the compute stream has run dry, what is left leads to the   *)
(* end of the step.                                                        *)
Course(c) ==
    \/ step = "idle" /\ todo = <<>> /\ Settled(c, model, position)
    \/ step = "hidden" /\ \E e : Leads(c, todo, e) /\ Settled(e, model, position + 1)
    \/ step = "layers" /\ \E e : Leads(c, todo, e) /\ Through(e, model, hidden, position, 0)
    \/ step = "next" /\ ~capturing /\ \E e : Leads(c, todo, e) /\ Stepped(e)
    \/ /\ step = "next" /\ capturing /\ Capturable /\ position < GraphMax /\ Through(c, model, hidden, position, 0)
       /\ \/ recorded = <<>> /\ todo = OneStep(hidden, position)
          \/ recorded = OneStep(hidden, position) /\ todo = <<>>
    \/ step = "replay" /\ \E e : Leads(c, todo, e) /\ Stepped(e)
    \/ step = "first" /\ \E x, e : todo = x \o Download /\ Leads(c, x, e) /\ Answers(e)

(* The graph is that of a step at some position.                           *)
Replayable == graph # <<>> => Len(model) % 2 = 0 /\ \E q \in Nat : graph = OneStep(hidden, q)

VInv ==
    /\ Replayable
    /\ capturing => step = "next"
    /\ step # "idle" => answer = None
    /\ TokenOfItsStep
    /\ queue["transfer"] = <<>>
    /\ \E c : Leads(Device, queue["compute"], c) /\ Course(c)

(* A step, run at its position as issued for this one, or for another if   *)
(* there are graphs for it.                                                *)
LEMMA OneStepLeads ==
    ASSUME Situated, OneStream, NEW q \in Nat, position < GraphMax \/ position <= q,
           NEW c, Through(c, model, hidden, position, 0)
    PROVE  \E e : Leads(c, OneStep(hidden, q), e) /\ Stepped(e)
<1>. DEFINE ms == model
            h == hidden
            p == position
            g == HiddenAfter(ms, h)
            l == Len(ms) + 1
            a == Layers(ms, h, q, 0)
            f == FinalLogits(ms, g)
            t == Argmax(ms)
<1>1. ms \in Seq(LayerType) /\ p \in Nat /\ h \in Buffers /\ AllOnDevice(ms) /\ Len(ms) \in Nat
  <2>1. model \in Seq(LayerType) /\ position \in Nat
    BY RequestIs
  <2>2. hidden \in Buffers
    BY DEF Situated, Buffers
  <2>. QED BY <2>1, <2>2 DEF OneStream
<1>2. g \in Buffers
  BY <1>1, HiddenIs DEF HiddenAfter, Buffers
<1>. HIDE DEF ms, h, p, g
<1>3. PICK b : Leads(c, a, b) /\ Through(b, ms, h, p, Len(ms))
  BY <1>1, LayersLeads DEF ms, h, p
<1>4. Settled(b, ms, p + 1) /\ Holds(b, {Now(Len(ms) + 1, p, g, "x")})
  BY <1>1, <1>3, ThroughSettled DEF g
<1>5. /\ Turns(0, p, {Now(Len(ms) + 1, p, g, "x")}, f, {Logits(ms, p)})
      /\ Turns(0, p, {Logits(ms, p)}, t, {Logits(ms, p), Token(ms, p)})
  BY <1>1, <1>2, FinalTurns
<1>. HIDE DEF a, f, t
<1>6. Turns(0, p, {Now(Len(ms) + 1, p, g, "x")}, f \o t, {Logits(ms, p), Token(ms, p)})
  BY <1>5, TurnsConcat
<1>7. PICK e : Leads(b, f \o t, e) /\ Holds(e, {Logits(ms, p), Token(ms, p)}) /\ Kept(b, e, 0)
  BY <1>4, <1>6 DEF Turns
<1>8. Settled(e, ms, p + 1)
  BY <1>4, <1>7, SettledKept
<1>9. Leads(c, a \o (f \o t), e)
  BY <1>3, <1>7, LeadsConcat
<1>. QED BY <1>7, <1>8, <1>9 DEF OneStep, Stepped, ms, h, p, g, a, f, t

(* A step begins, after what the layers keep.                              *)
LEMMA PrologueThrough ==
    ASSUME Situated, NEW c, Settled(c, model, position)
    PROVE  \E e : Leads(c, Prologue(model, hidden, position), e) /\ Through(e, model, hidden, position, 0)
<1>1. model \in Seq(LayerType) /\ position \in Nat
  BY RequestIs
<1>2. hidden \in Buffers
  BY DEF Situated, Buffers
<1>. QED BY <1>1, <1>2, PrologueLeads

(* Where the host is next, the step has run.                               *)
LEMMA HostNextIs ==
    ASSUME Situated, OneStream, VInv, todo # <<>>, HostIsNext
    PROVE  /\ step = "first" /\ todo = Download /\ ~capturing
           /\ \E c : Leads(Device, queue["compute"], c) /\ Answers(c)
<1>1. PICK c : Leads(Device, queue["compute"], c) /\ Course(c)
  BY DEF VInv
<1>2. ASSUME NEW e, Leads(c, todo, e) PROVE FALSE
  <2>1. Computes(todo) /\ todo = todo \o <<>>
    BY <1>2, LeadsComputes, ComputesEnd
  <2>. QED BY <2>1, ComputesFirst
<1>3. ASSUME step = "next", capturing, position < GraphMax, Through(c, model, hidden, position, 0),
             todo = OneStep(hidden, position)
      PROVE  FALSE
  <2>1. position \in Nat
    BY RequestIs
  <2>2. PICK e : Leads(c, OneStep(hidden, position), e)
    BY <1>3, <2>1, OneStepLeads
  <2>. QED BY <1>2, <1>3, <2>2
<1>4. step = "first" /\ \E x, e : todo = x \o Download /\ Leads(c, x, e) /\ Answers(e)
  BY <1>1, <1>2, <1>3 DEF Course
<1>5. PICK x, e : todo = x \o Download /\ Leads(c, x, e) /\ Answers(e)
  BY <1>4
<1>6. x = <<>> /\ todo = Download
  <2>1. Computes(x)
    BY <1>5, LeadsComputes
  <2>. QED BY <1>5, <2>1, ComputesFirst
<1>7. e = c
  BY <1>5, <1>6, LeadsNothing
<1>8. ~capturing
  BY <1>4 DEF VInv
<1>. QED BY <1>1, <1>4, <1>5, <1>6, <1>7, <1>8

-----------------------------------------------------------------------------
(* The steps.                                                              *)

(* The request is the same.                                                *)
LEMMA SameRequest ==
    ASSUME UNCHANGED <<model, prompt, chunk>>
    PROVE  (Capturable' <=> Capturable) /\ (OneStream' <=> OneStream)
<1>1. model' = model /\ prompt' = prompt /\ chunk' = chunk
  OBVIOUS
<1>2. Capturable' <=> Capturable
  BY <1>1 DEF Capturable, HasStagedLayers, HasStagedKv, Graphable
<1>. QED BY <1>1, <1>2 DEF OneStream, Chunked

(* No graph was lost.                                                      *)
LEMMA SameGraph ==
    ASSUME Replayable, UNCHANGED <<model, hidden, graph>>
    PROVE  Replayable'
<1>1. model' = model /\ hidden' = hidden /\ graph' = graph
  OBVIOUS
<1>2. ASSUME NEW q PROVE OneStep(hidden, q)' = OneStep(hidden, q)
  BY <1>1 DEF OneStep
<1>3. ASSUME graph # <<>> PROVE Len(model)' % 2 = 0 /\ (\E q \in Nat : graph = OneStep(hidden, q))'
  <2>1. Len(model) % 2 = 0
    BY <1>3 DEF Replayable
  <2>2. PICK q \in Nat : graph = OneStep(hidden, q)
    BY <1>3 DEF Replayable
  <2>3. graph' = OneStep(hidden, q)'
    BY <1>1, <1>2, <2>2
  <2>. QED BY <1>1, <2>1, <2>3
<1>. QED BY <1>1, <1>3 DEF Replayable

(* At first there is nothing.                                              *)
LEMMA InitV == Init => VInv
<1>. SUFFICES ASSUME Init PROVE VInv
  OBVIOUS
<1>1. mem = <<>> /\ rows = <<>> /\ position = 0 /\ step = "idle" /\ todo = <<>> /\ graph = <<>> /\ capturing = FALSE
      /\ answer = None /\ queue["compute"] = <<>> /\ queue["transfer"] = <<>>
  BY DEF Init
<1>2. \A b, r : Cell(Device, b) = None
  BY <1>1 DEF Cell, Device
<1>3. Settled(Device, model, position)
  <2>1. \A m, j : KeepsOf(Device, m, j, 0)
    <3>1. \A j, b : Carries(j, 0, b)[3] = None
      BY DEF Carries
    <3>2. \A j : Holds(Device, {Carries(j, 0, "conv_state"), Carries(j, 0, "recurrent")})
      BY <1>2, <3>1 DEF Holds
    <3>3. \A j : Cached(Device, j, 0)
      BY DEF Cached
    <3>. QED BY <3>2, <3>3 DEF KeepsOf
  <2>. QED BY <1>1, <2>1 DEF Settled
<1>4. Leads(Device, queue["compute"], Device)
  BY <1>1, LeadsNone
<1>5. Course(Device)
  BY <1>1, <1>3 DEF Course
<1>6. Replayable /\ TokenOfItsStep
  BY <1>1 DEF Replayable, TokenOfItsStep
<1>. QED BY <1>1, <1>4, <1>5, <1>6 DEF VInv

(* The device executes the next operation.                                 *)
LEMMA ExecuteRuns ==
    ASSUME DInv, OneStream, VInv, Compute \/ Transfer
    PROVE  VInv'
<1>1. PICK c : Leads(Device, queue["compute"], c) /\ Course(c)
  BY DEF VInv
<1>2. queue["transfer"] = <<>> /\ DOMAIN queue = {"compute", "transfer"}
  BY DEF VInv, DInv, Queued
<1>3. Execute("compute")
  BY <1>2 DEF Compute, Transfer, Execute
<1>4. queue["compute"] # <<>> /\ Effect(Head(queue["compute"])) /\ queue' = [queue EXCEPT !["compute"] = Tail(@)]
      /\ UNCHANGED <<chosen, hidden, capturing, recorded, graph, position, todo, step, answer>>
  BY <1>3 DEF Execute
<1>5. PICK d : Gives(Device, Head(queue["compute"]), d) /\ Leads(d, Tail(queue["compute"]), c)
  BY <1>1, <1>4, LeadsHead
<1>6. Device' = d
  BY <1>4, <1>5, EffectGives
<1>7. queue'["compute"] = Tail(queue["compute"]) /\ queue'["transfer"] = <<>>
  BY <1>2, <1>4
<1>8. UNCHANGED <<model, sampler, prompt, chunk>>
  BY <1>4 DEF chosen
<1>9. Course(c)'
  BY <1>1, <1>4, <1>8, SameRequest DEF Course, Stepped, Answers, AnswerBuffer, AnswerName, OneStep
<1>10. Replayable'
  BY <1>4, <1>8, SameGraph DEF VInv
<1>11. TokenOfItsStep'
  BY <1>4, <1>8 DEF VInv, TokenOfItsStep
<1>. QED BY <1>4, <1>5, <1>6, <1>7, <1>9, <1>10, <1>11 DEF VInv

(* What is enqueued runs after what has been.                              *)
LEMMA EnqueueRuns ==
    ASSUME DInv, queue["transfer"] = <<>>, NEW x, Enqueue(x), UNCHANGED <<mem, rows>>, NEW c, NEW e,
           Leads(Device, queue["compute"], c), Leads(c, x, e)
    PROVE  Leads(Device, queue["compute"], e)' /\ queue'["transfer"] = <<>>
<1>1. OfStream(x, "compute") = x /\ OfStream(x, "transfer") = <<>>
  BY LeadsComputes, ComputesStream
<1>2. queue'["compute"] = queue["compute"] \o x /\ queue'["transfer"] = <<>> \o <<>>
  BY <1>1 DEF Enqueue
<1>3. <<>> \o <<>> = <<>>
  OBVIOUS
<1>4. Leads(Device, queue["compute"] \o x, e)
  BY LeadsConcat
<1>5. Device' = Device
  BY DEF Device
<1>. QED BY <1>2, <1>3, <1>4, <1>5

(* The host issues a program.                                              *)
LEMMA IssueRuns ==
    ASSUME DInv, Situated, OneStream, VInv, Issue
    PROVE  VInv'
<1>1. PICK c : Leads(Device, queue["compute"], c) /\ Course(c)
  BY DEF VInv
<1>. DEFINE ops == [i \in DOMAIN Segment |-> Resolve(Segment[i])]
<1>2. /\ todo # <<>> /\ ~HostIsNext
      /\ IF capturing THEN recorded' = recorded \o ops /\ UNCHANGED queue ELSE Enqueue(ops) /\ UNCHANGED recorded
      /\ todo' = SubSeq(todo, Len(Segment) + 1, Len(todo))
      /\ UNCHANGED <<chosen, mem, rows, hidden, capturing, graph, position, step, answer>>
  BY DEF Issue
<1>3. UNCHANGED <<model, sampler, prompt, chunk>>
  BY <1>2 DEF chosen
<1>4. queue["transfer"] = <<>>
  BY DEF VInv
<1>5. ASSUME NEW x, NEW y, Computes(x), y = <<>> \/ y = Download, todo = x \o y
      PROVE  x # <<>> /\ ops = x /\ todo' = y
  <2>1. x # <<>>
    BY <1>2, <1>5, ComputesIssued
  <2>2. /\ Segment = x
        /\ [i \in DOMAIN x |-> Resolve(x[i])] = x
        /\ SubSeq(todo, Len(x) + 1, Len(todo)) = y
    BY <1>5, <2>1, ComputesIssued
  <2>. QED BY <1>2, <2>1, <2>2
<1>. HIDE DEF ops
<1>6. ASSUME NEW x, NEW y, NEW e, Leads(c, x, e), y = <<>> \/ y = Download, todo = x \o y, ~capturing
      PROVE  todo' = y /\ Leads(Device, queue["compute"], e)' /\ queue'["transfer"] = <<>>
  <2>1. Computes(x)
    BY <1>6, LeadsComputes
  <2>2. ops = x /\ todo' = y
    BY <1>5, <1>6, <2>1
  <2>3. Enqueue(x) /\ UNCHANGED <<mem, rows>>
    BY <1>2, <1>6, <2>2
  <2>. QED BY <1>1, <1>4, <1>6, <2>2, <2>3, EnqueueRuns
<1>7. ASSUME NEW e, Leads(c, todo, e), ~capturing
      PROVE  todo' = <<>> /\ Leads(Device, queue["compute"], e)' /\ Leads(e, <<>>, e) /\ queue'["transfer"] = <<>>
  <2>1. todo = todo \o <<>>
    BY <1>7, LeadsComputes, ComputesEnd
  <2>. QED BY <1>6, <1>7, <2>1, LeadsNone
<1>8. ~capturing \/ step = "next"
  BY DEF VInv
<1>9. (\E e : Leads(Device, queue["compute"], e)' /\ Course(e)') /\ queue'["transfer"] = <<>>
  <2>1. CASE step = "hidden" /\ \E e : Leads(c, todo, e) /\ Settled(e, model, position + 1)
    <3>1. PICK e : Leads(c, todo, e) /\ Settled(e, model, position + 1)
      BY <2>1
    <3>2. todo' = <<>> /\ Leads(Device, queue["compute"], e)' /\ Leads(e, <<>>, e) /\ queue'["transfer"] = <<>>
      BY <1>7, <1>8, <2>1, <3>1
    <3>3. Course(e)'
      BY <1>2, <1>3, <2>1, <3>1, <3>2 DEF Course
    <3>. QED BY <3>2, <3>3
  <2>2. CASE step = "layers" /\ \E e : Leads(c, todo, e) /\ Through(e, model, hidden, position, 0)
    <3>1. PICK e : Leads(c, todo, e) /\ Through(e, model, hidden, position, 0)
      BY <2>2
    <3>2. todo' = <<>> /\ Leads(Device, queue["compute"], e)' /\ Leads(e, <<>>, e) /\ queue'["transfer"] = <<>>
      BY <1>7, <1>8, <2>2, <3>1
    <3>3. Course(e)'
      BY <1>2, <1>3, <2>2, <3>1, <3>2 DEF Course
    <3>. QED BY <3>2, <3>3
  <2>3. CASE ((step = "next" /\ ~capturing) \/ step = "replay") /\ \E e : Leads(c, todo, e) /\ Stepped(e)
    <3>1. PICK e : Leads(c, todo, e) /\ Stepped(e)
      BY <2>3
    <3>2. todo' = <<>> /\ Leads(Device, queue["compute"], e)' /\ Leads(e, <<>>, e) /\ queue'["transfer"] = <<>>
      BY <1>7, <1>8, <2>3, <3>1
    <3>3. Stepped(e)'
      BY <1>2, <1>3, <3>1 DEF Stepped
    <3>4. Course(e)'
      BY <1>2, <2>3, <3>2, <3>3 DEF Course
    <3>. QED BY <3>2, <3>4
  <2>4. CASE /\ step = "next" /\ capturing /\ Capturable /\ position < GraphMax /\ Through(c, model, hidden, position, 0)
             /\ \/ recorded = <<>> /\ todo = OneStep(hidden, position)
                \/ recorded = OneStep(hidden, position) /\ todo = <<>>
    <3>. DEFINE x == OneStep(hidden, position)
    <3>1. recorded = <<>> /\ todo = x
      BY <1>2, <2>4
    <3>2. PICK e : Leads(c, x, e)
      <4>1. position \in Nat
        BY RequestIs
      <4>. QED BY <2>4, <4>1, OneStepLeads
    <3>3. Computes(x) /\ x \o <<>> = x /\ <<>> \o x = x
      <4>. HIDE DEF x
      <4>1. Computes(x) /\ x \o <<>> = x
        BY <3>2, LeadsComputes, ComputesEnd
      <4>2. PICK S : x \in Seq(S)
        BY <4>1 DEF Computes
      <4>. QED BY <4>1, <4>2, ConcatEmptySeq
    <3>4. ops = x /\ todo' = <<>>
      BY <1>5, <3>1, <3>3
    <3>5. recorded' = x /\ queue' = queue
      BY <1>2, <2>4, <3>1, <3>3, <3>4
    <3>6. Course(c)'
      <4>1. recorded' = OneStep(hidden, position)'
        BY <1>2, <1>3, <3>5 DEF OneStep
      <4>. QED BY <1>2, <1>3, <2>4, <3>4, <4>1, SameRequest DEF Course
    <3>7. Device' = Device
      BY <1>2 DEF Device
    <3>. QED BY <1>1, <1>4, <3>5, <3>6, <3>7
  <2>5. CASE step = "first" /\ \E x, e : todo = x \o Download /\ Leads(c, x, e) /\ Answers(e)
    <3>1. PICK x, e : todo = x \o Download /\ Leads(c, x, e) /\ Answers(e)
      BY <2>5
    <3>2. todo' = Download /\ Leads(Device, queue["compute"], e)' /\ queue'["transfer"] = <<>>
      BY <1>6, <1>8, <2>5, <3>1
    <3>3. Answers(e)'
      BY <1>2, <1>3, <3>1 DEF Answers, AnswerBuffer, AnswerName
    <3>4. Leads(e, <<>>, e) /\ <<>> \o Download = Download /\ Download' = Download
      BY LeadsNone DEF Download
    <3>5. Course(e)'
      BY <1>2, <2>5, <3>2, <3>3, <3>4 DEF Course
    <3>. QED BY <3>2, <3>5
  <2>. QED BY <1>1, <1>2, <2>1, <2>2, <2>3, <2>4, <2>5 DEF Course
<1>10. Replayable'
  BY <1>2, <1>3, SameGraph DEF VInv
<1>11. TokenOfItsStep'
  BY <1>2, <1>3 DEF VInv, TokenOfItsStep
<1>. QED BY <1>2, <1>9, <1>10, <1>11 DEF VInv

(* No operation of the host is left but the last one, which returns the    *)
(* answer of the step.                                                     *)
LEMMA HostRuns ==
    ASSUME Situated, OneStream, VInv, Fail \/ Refuse \/ HostReads \/ HostWaits \/ HostExperts \/ Return
    PROVE  VInv'
<1>1. todo # <<>> /\ HostIsNext
  BY DEF Fail, Refuse, HostReads, HostWaits, HostExperts, Return, AtHost
<1>2. PICK c : /\ step = "first" /\ todo = Download /\ ~capturing
               /\ Leads(Device, queue["compute"], c) /\ Answers(c)
  BY <1>1, HostNextIs
<1>3. Head(todo).kind = "return"
  <2>. DEFINE r == OnHost("return", "answer", "", 0, {})
  <2>1. r.kind = "return" /\ todo = <<r>>
    BY <1>2 DEF OnHost, Op, Download
  <2>. HIDE DEF r
  <2>. QED BY <2>1
<1>4. Return
  BY <1>3 DEF Fail, Refuse, HostReads, HostWaits, HostExperts, AtHost
<1>5. /\ queue["compute"] = <<>> /\ answer' = Read(<<AnswerBuffer, 0>>) /\ step' = "idle" /\ todo' = <<>>
      /\ UNCHANGED <<chosen, mem, rows, queue, hidden, capturing, recorded, graph, position>>
  BY <1>4 DEF Return
<1>6. UNCHANGED <<model, sampler, prompt, chunk>>
  BY <1>5 DEF chosen
<1>7. c = Device /\ Device' = Device
  BY <1>2, <1>5, LeadsNothing DEF Device
<1>8. Read(<<AnswerBuffer, 0>>) = Cell(Device, <<AnswerBuffer, 0>>)
  BY DEF Read, Cell, Device
<1>9. Course(c)'
  BY <1>2, <1>5, <1>6 DEF Course, Answers
<1>10. TokenOfItsStep'
  <2>1. answer' = Val(AnswerName, "f32", Len(model) + 1, 0, position - 1)
    BY <1>2, <1>5, <1>7, <1>8 DEF Answers
  <2>. QED BY <1>5, <1>6, <2>1 DEF TokenOfItsStep, AnswerName
<1>11. Replayable'
  BY <1>5, <1>6, SameGraph DEF VInv
<1>12. queue'["transfer"] = <<>>
  BY <1>5 DEF VInv
<1>. QED BY <1>2, <1>5, <1>7, <1>9, <1>10, <1>11, <1>12 DEF VInv

(* When there are graphs the layers end in the buffer they began with.     *)
LEMMA HiddenStays ==
    ASSUME Situated, OneStream, Capturable
    PROVE  HiddenAfter(model, hidden) = hidden
<1>1. Len(model) \in Nat /\ Len(model) % 2 = 0
  BY RequestIs DEF OneStream
<1>2. Other(hidden) # hidden
  BY DEF Situated, Other
<1>3. (Len(model) + 1) % 2 = 1
  BY <1>1
<1>. QED BY <1>3 DEF HiddenAfter, HiddenOf

(* forward_hidden begins.                                                  *)
LEMMA HiddenBegins ==
    ASSUME Situated, OneStream, VInv, ForwardHidden
    PROVE  VInv'
<1>1. PICK c : Leads(Device, queue["compute"], c) /\ Course(c)
  BY DEF VInv
<1>2. /\ step = "idle" /\ todo = <<>> /\ step' = "hidden" /\ answer' = None
      /\ todo' = Prologue(model, hidden, position) \o Layers(model, hidden, position, FirstStep)
      /\ UNCHANGED <<chosen, mem, rows, queue, fired, host, hidden, capturing, recorded, graph, position>>
  BY DEF ForwardHidden, Idle
<1>3. UNCHANGED <<model, sampler, prompt, chunk>>
  BY <1>2 DEF chosen
<1>4. Settled(c, model, position)
  BY <1>1, <1>2 DEF Course
<1>5. PICK d : Leads(c, Prologue(model, hidden, position), d) /\ Through(d, model, hidden, position, 0)
  BY <1>4, PrologueThrough
<1>6. PICK e : Leads(d, Layers(model, hidden, position, FirstStep), e)
               /\ Through(e, model, hidden, position, Len(model))
  <2>1. model \in Seq(LayerType) /\ position \in Nat /\ position <= position
    BY RequestIs
  <2>2. hidden \in Buffers /\ AllOnDevice(model)
    BY DEF Situated, Buffers, OneStream
  <2>. QED BY <1>5, <2>1, <2>2, LayersLeads
<1>7. Settled(e, model, position + 1)
  <2>1. Len(model) \in Nat
    BY RequestIs
  <2>. QED BY <1>6, <2>1, ThroughSettled
<1>8. Leads(c, todo', e)
  BY <1>2, <1>5, <1>6, LeadsConcat
<1>9. Course(c)'
  BY <1>2, <1>3, <1>7, <1>8 DEF Course
<1>10. Replayable'
  BY <1>2, <1>3, SameGraph DEF VInv
<1>11. Leads(Device, queue["compute"], c)' /\ queue'["transfer"] = <<>>
  BY <1>1, <1>2 DEF VInv, Device
<1>. QED BY <1>2, <1>9, <1>10, <1>11 DEF VInv, TokenOfItsStep

(* It ends.                                                                *)
LEMMA HiddenEnds ==
    ASSUME Situated, OneStream, VInv, HiddenDone
    PROVE  VInv'
<1>1. PICK c : Leads(Device, queue["compute"], c) /\ Course(c)
  BY DEF VInv
<1>2. /\ step = "hidden" /\ todo = <<>> /\ step' = "idle" /\ position' = position + 1
      /\ hidden' = HiddenAfter(model, hidden)
      /\ UNCHANGED <<chosen, mem, rows, queue, fired, host, capturing, recorded, graph, todo, answer>>
  BY DEF HiddenDone
<1>3. UNCHANGED <<model, sampler, prompt, chunk>>
  BY <1>2 DEF chosen
<1>4. Settled(c, model, position + 1)
  BY <1>1, <1>2, LeadsNothing DEF Course
<1>5. Course(c)'
  BY <1>2, <1>3, <1>4 DEF Course
<1>6. Replayable'
  <2>1. CASE graph = <<>>
    BY <1>2, <2>1 DEF Replayable
  <2>2. CASE graph # <<>>
    <3>1. Len(model) \in Nat /\ Len(model) % 2 = 0
      BY <2>2, RequestIs DEF VInv, Replayable
    <3>2. HiddenAfter(model, hidden) = hidden
      <4>1. (Len(model) + 1) % 2 = 1
        BY <3>1
      <4>. QED BY <4>1 DEF HiddenAfter, HiddenOf
    <3>. QED BY <1>2, <1>3, <3>2, SameGraph DEF VInv
  <2>. QED BY <2>1, <2>2
<1>7. Leads(Device, queue["compute"], c)' /\ queue'["transfer"] = <<>>
  BY <1>1, <1>2 DEF VInv, Device
<1>8. capturing' = FALSE /\ answer' = None
  BY <1>2 DEF VInv
<1>. QED BY <1>2, <1>5, <1>6, <1>7, <1>8 DEF VInv, TokenOfItsStep

(* forward_next_token begins, and runs the graph if there is one.          *)
LEMMA NextBegins ==
    ASSUME Situated, OneStream, VInv, ForwardNextToken
    PROVE  VInv'
<1>1. PICK c : Leads(Device, queue["compute"], c) /\ Course(c)
  BY DEF VInv
<1>2. /\ step = "idle" /\ todo = <<>> /\ answer' = None
      /\ UNCHANGED <<chosen, mem, rows, queue, fired, host, hidden, capturing, recorded, graph, position>>
      /\ \/ /\ position + 1 <= GraphMax /\ graph # <<>> /\ step' = "replay"
            /\ todo' = Prologue(model, hidden, position) \o graph
         \/ step' = "layers" /\ todo' = Prologue(model, hidden, position)
  BY DEF ForwardNextToken, Idle
<1>3. UNCHANGED <<model, sampler, prompt, chunk>>
  BY <1>2 DEF chosen
<1>4. Settled(c, model, position)
  BY <1>1, <1>2 DEF Course
<1>5. PICK d : Leads(c, Prologue(model, hidden, position), d) /\ Through(d, model, hidden, position, 0)
  BY <1>4, PrologueThrough
<1>6. Course(c)'
  <2>1. CASE step' = "layers" /\ todo' = Prologue(model, hidden, position)
    <3>1. Leads(c, todo', d) /\ Through(d, model', hidden', position', 0)
      BY <1>2, <1>3, <1>5, <2>1
    <3>. QED BY <2>1, <3>1 DEF Course
  <2>2. CASE /\ position + 1 <= GraphMax /\ graph # <<>> /\ step' = "replay"
             /\ todo' = Prologue(model, hidden, position) \o graph
    <3>1. PICK q \in Nat : graph = OneStep(hidden, q)
      BY <2>2 DEF VInv, Replayable
    <3>2. position < GraphMax
      BY <2>2, RequestIs, DecodeAssumption
    <3>3. PICK e : Leads(d, OneStep(hidden, q), e) /\ Stepped(e)
      BY <1>5, <3>2, OneStepLeads
    <3>4. Leads(c, todo', e)
      BY <1>5, <2>2, <3>1, <3>3, LeadsConcat
    <3>5. Stepped(e)'
      BY <1>2, <1>3, <3>3 DEF Stepped
    <3>. QED BY <2>2, <3>4, <3>5 DEF Course
  <2>. QED BY <1>2, <2>1, <2>2
<1>7. Replayable'
  BY <1>2, <1>3, SameGraph DEF VInv
<1>8. Leads(Device, queue["compute"], c)' /\ queue'["transfer"] = <<>>
  BY <1>1, <1>2 DEF VInv, Device
<1>9. capturing' = FALSE
  BY <1>2 DEF VInv
<1>. QED BY <1>2, <1>6, <1>7, <1>8, <1>9 DEF VInv, TokenOfItsStep

(* The layers begin, in a capture or not.                                  *)
LEMMA LayersBegin ==
    ASSUME Situated, OneStream, VInv, BeginLayers
    PROVE  VInv'
<1>1. PICK c : Leads(Device, queue["compute"], c) /\ Course(c)
  BY DEF VInv
<1>2. /\ step = "layers" /\ todo = <<>> /\ step' = "next" /\ recorded' = <<>> /\ capturing' = CanCapture
      /\ todo' = Layers(model, hidden, position, FirstStep) \o AfterLayers
      /\ UNCHANGED <<chosen, mem, rows, queue, fired, host, hidden, graph, position, answer>>
  BY DEF BeginLayers
<1>3. UNCHANGED <<model, sampler, prompt, chunk>>
  BY <1>2 DEF chosen
<1>4. Through(c, model, hidden, position, 0)
  BY <1>1, <1>2, LeadsNothing DEF Course
<1>5. todo' = OneStep(hidden, position)
  BY <1>2 DEF OneStream, FirstStep, AfterLayers, OneStep
<1>6. OneStep(hidden, position)' = OneStep(hidden, position)
  BY <1>2, <1>3 DEF OneStep
<1>7. Course(c)'
  <2>1. CASE CanCapture
    <3>1. position < GraphMax
      BY <2>1, RequestIs, DecodeAssumption DEF CanCapture
    <3>2. todo' = OneStep(hidden, position)' /\ capturing'
      BY <1>2, <1>5, <1>6, <2>1
    <3>3. Through(c, model, hidden, position, 0)' /\ (position < GraphMax)'
      BY <1>2, <1>3, <1>4, <3>1
    <3>4. Capturable'
      <4>1. GraphMax # 0
        BY <3>1, RequestIs, DecodeAssumption
      <4>2. Capturable
        BY <2>1, <4>1 DEF CanCapture, Capturable
      <4>. QED BY <1>3, <4>2, SameRequest
    <3>. QED BY <1>2, <3>2, <3>3, <3>4 DEF Course
  <2>2. CASE ~CanCapture
    <3>1. position \in Nat /\ position <= position
      BY RequestIs
    <3>2. PICK e : Leads(c, OneStep(hidden, position), e) /\ Stepped(e)
      BY <1>4, <3>1, OneStepLeads
    <3>3. Stepped(e)'
      BY <1>2, <1>3, <3>2 DEF Stepped
    <3>4. Leads(c, todo', e) /\ ~capturing'
      BY <1>2, <1>5, <2>2, <3>2
    <3>. QED BY <1>2, <3>3, <3>4 DEF Course
  <2>. QED BY <2>1, <2>2
<1>8. Replayable'
  BY <1>2, <1>3, SameGraph DEF VInv
<1>9. Leads(Device, queue["compute"], c)' /\ queue'["transfer"] = <<>> /\ answer' = None
  BY <1>1, <1>2 DEF VInv, Device
<1>. QED BY <1>2, <1>7, <1>8, <1>9 DEF VInv, TokenOfItsStep

(* They end; what has been captured is run.                                *)
LEMMA LayersEnd ==
    ASSUME DInv, Situated, OneStream, VInv, EndLayers
    PROVE  VInv'
<1>1. PICK c : Leads(Device, queue["compute"], c) /\ Course(c)
  BY DEF VInv
<1>2. /\ step = "next" /\ todo = <<>> /\ step' = "replay" /\ capturing' = FALSE
      /\ hidden' = HiddenAfter(model, hidden)
      /\ IF capturing THEN graph' = recorded /\ Enqueue(recorded) ELSE UNCHANGED <<graph, queue>>
      /\ UNCHANGED <<chosen, mem, rows, fired, host, position, todo, answer>>
  BY DEF EndLayers
<1>3. UNCHANGED <<model, sampler, prompt, chunk>>
  BY <1>2 DEF chosen
<1>4. answer' = None /\ queue["transfer"] = <<>>
  BY <1>2 DEF VInv
<1>5. CASE capturing
  <2>1. PICK e : Leads(c, recorded, e) /\ Stepped(e)
    <3>1. position \in Nat
      BY RequestIs
    <3>2. PICK e : Leads(c, OneStep(hidden, position), e) /\ Stepped(e)
      BY <1>1, <1>2, <1>5, <3>1, OneStepLeads DEF Course
    <3>3. recorded # <<>> => recorded = OneStep(hidden, position)
      BY <1>1, <1>2, <1>5 DEF Course
    <3>4. recorded = <<>> => OneStep(hidden, position) = <<>>
      BY <1>1, <1>2, <1>5 DEF Course
    <3>. QED BY <3>2, <3>3, <3>4
  <2>2. position \in Nat /\ Capturable
    BY <1>1, <1>2, <1>5, RequestIs DEF Course
  <2>3. hidden' = hidden /\ Len(model) % 2 = 0
    BY <1>2, <2>2, HiddenStays DEF OneStream
  <2>4. Leads(Device, queue["compute"], e)' /\ queue'["transfer"] = <<>>
    BY <1>1, <1>2, <1>4, <1>5, <2>1, EnqueueRuns
  <2>5. Replayable'
    <3>1. recorded = OneStep(hidden, position)
      BY <1>1, <1>2, <1>5 DEF Course
    <3>2. OneStep(hidden, position)' = OneStep(hidden, position)
      BY <1>2, <1>3, <2>3 DEF OneStep
    <3>3. graph' = OneStep(hidden, position)' /\ position' \in Nat
      BY <1>2, <1>5, <2>2, <3>1, <3>2
    <3>4. (\E q \in Nat : graph = OneStep(hidden, q))'
      BY <3>3
    <3>5. (Len(model) % 2 = 0)'
      BY <1>3, <2>3
    <3>. QED BY <3>4, <3>5 DEF Replayable
  <2>6. Course(e)'
    <3>1. Stepped(e)'
      BY <1>2, <1>3, <2>1 DEF Stepped
    <3>2. Leads(e, todo', e)
      BY <1>2, LeadsNone
    <3>. QED BY <1>2, <3>1, <3>2 DEF Course
  <2>. QED BY <1>2, <1>4, <2>4, <2>5, <2>6 DEF VInv, TokenOfItsStep
<1>6. CASE ~capturing
  <2>1. Stepped(c)
    BY <1>1, <1>2, <1>6, LeadsNothing DEF Course
  <2>2. Replayable'
    <3>1. CASE graph = <<>>
      BY <1>2, <1>6, <3>1 DEF Replayable
    <3>2. CASE graph # <<>>
      <4>1. Len(model) \in Nat /\ Len(model) % 2 = 0
        BY <3>2, RequestIs DEF VInv, Replayable
      <4>2. HiddenAfter(model, hidden) = hidden
        <5>1. (Len(model) + 1) % 2 = 1
          BY <4>1
        <5>. QED BY <5>1 DEF HiddenAfter, HiddenOf
      <4>. QED BY <1>2, <1>3, <1>6, <4>2, SameGraph DEF VInv
    <3>. QED BY <3>1, <3>2
  <2>3. Course(c)'
    <3>1. Stepped(c)'
      BY <1>2, <1>3, <2>1 DEF Stepped
    <3>2. Leads(c, todo', c)
      BY <1>2, LeadsNone
    <3>. QED BY <1>2, <3>1, <3>2 DEF Course
  <2>4. Leads(Device, queue["compute"], c)' /\ queue'["transfer"] = <<>>
    BY <1>1, <1>2, <1>4, <1>6 DEF Device
  <2>. QED BY <1>2, <1>4, <2>2, <2>3, <2>4 DEF VInv, TokenOfItsStep
<1>. QED BY <1>5, <1>6

(* The step ends with what the sampler chooses.                            *)
LEMMA StepEnds ==
    ASSUME DInv, Situated, OneStream, VInv, AfterReplay
    PROVE  VInv'
<1>1. PICK c : Leads(Device, queue["compute"], c) /\ Course(c)
  BY DEF VInv
<1>2. /\ step = "replay" /\ todo = <<>> /\ step' = "first" /\ position' = position + 1 /\ todo' = AfterStep
      /\ UNCHANGED <<chosen, mem, rows, queue, fired, host, hidden, capturing, recorded, graph, answer>>
  BY DEF AfterReplay
<1>3. UNCHANGED <<model, sampler, prompt, chunk>>
  BY <1>2 DEF chosen
<1>4. Stepped(c)
  BY <1>1, <1>2, LeadsNothing DEF Course
<1>5. position \in Nat /\ sampler \in {"greedy", "gpu", "host"}
  BY DEF DInv, Placed
<1>. DEFINE x == When(sampler = "gpu", Sampler(model))
            l == Len(model) + 1
            A == {Logits(model, position), Token(model, position)}
            o == IF sampler = "gpu" THEN {Logits(model, position), Sample(model, position)} ELSE A
<1>6. PICK e : /\ Leads(c, x, e) /\ Settled(e, model, position + 1)
               /\ Cell(e, <<AnswerBuffer, 0>>) = Val(AnswerName, "f32", l, 0, position)
  <2>1. CASE sampler = "gpu"
    <3>1. Turns(0, position, {Logits(model, position)}, Sampler(model), {Sample(model, position)})
      BY <1>5, FinalTurns DEF Buffers
    <3>2. Holds(c, {Logits(model, position)}) /\ Settled(c, model, position + 1)
      BY <1>4 DEF Stepped, Holds
    <3>3. PICK e : Leads(c, Sampler(model), e) /\ Holds(e, {Sample(model, position)}) /\ Kept(c, e, 0)
      BY <3>1, <3>2 DEF Turns
    <3>4. Settled(e, model, position + 1)
      BY <3>2, <3>3, SettledKept
    <3>5. Cell(e, <<"sampled_token", 0>>) = Val("sampled", "f32", l, 0, position)
      BY <3>3 DEF Holds, Sample, Now, In
    <3>. QED BY <2>1, <3>3, <3>4, <3>5 DEF When, AnswerBuffer, AnswerName
  <2>2. CASE sampler = "greedy"
    <3>1. Cell(c, <<"sampled_token", 0>>) = Val("token", "f32", l, 0, position)
      BY <1>4 DEF Stepped, Holds, Token, Now, In
    <3>2. x = <<>> /\ Settled(c, model, position + 1)
      BY <1>4, <2>2 DEF When, Stepped
    <3>. QED BY <2>2, <3>1, <3>2, LeadsNone DEF AnswerBuffer, AnswerName
  <2>3. CASE sampler = "host"
    <3>1. Cell(c, <<"logits", 0>>) = Val("logits", "f32", l, 0, position)
      BY <1>4 DEF Stepped, Holds, Logits, Now, In
    <3>2. x = <<>> /\ Settled(c, model, position + 1)
      BY <1>4, <2>3 DEF When, Stepped
    <3>. QED BY <2>3, <3>1, <3>2, LeadsNone DEF AnswerBuffer, AnswerName
  <2>. QED BY <1>5, <2>1, <2>2, <2>3
<1>7. Answers(e)'
  <2>1. position' - 1 = position
    BY <1>2, <1>5
  <2>2. AnswerBuffer' = AnswerBuffer /\ AnswerName' = AnswerName
    BY <1>3 DEF AnswerBuffer, AnswerName
  <2>3. Settled(e, model', position')
    BY <1>2, <1>3, <1>6
  <2>4. Cell(e, <<AnswerBuffer', 0>>) = Val(AnswerName', "f32", Len(model') + 1, 0, position' - 1)
    BY <1>3, <1>6, <2>1, <2>2
  <2>. QED BY <2>3, <2>4 DEF Answers
<1>8. Course(c)'
  <2>1. todo' = x \o Download /\ Download' = Download
    BY <1>2 DEF AfterStep, Download
  <2>. QED BY <1>2, <1>6, <1>7, <2>1 DEF Course
<1>9. Replayable'
  BY <1>2, <1>3, SameGraph DEF VInv
<1>10. Leads(Device, queue["compute"], c)' /\ queue'["transfer"] = <<>> /\ answer' = None /\ capturing' = FALSE
  BY <1>1, <1>2 DEF VInv, Device
<1>. QED BY <1>2, <1>8, <1>9, <1>10 DEF VInv, TokenOfItsStep

(* Every step.                                                             *)
LEMMA NextRuns ==
    ASSUME DInv, TInv, OneStream => VInv, [Next]_vars
    PROVE  (OneStream => VInv)'
<1>1. UNCHANGED chosen
  BY DEF Next, Host, vars, chosen, Compute, Transfer, Execute, Issue, Fail, Refuse, HostReads, HostWaits, HostExperts,
         HiddenDone, BeginChunk, ChunkDone, SampleFirst, BeginLayers, EndLayers, AfterReplay, Return,
         ForwardHidden, PrefillPrompt, ForwardNextToken
<1>2. OneStream' <=> OneStream
  BY <1>1, SameRequest DEF chosen
<1>. SUFFICES ASSUME OneStream, VInv PROVE VInv'
  BY <1>2
<1>3. Situated
  BY DEF TInv
<1>4. step \notin {"chunks", "chunk"}
  BY DEF DInv, Placed, OneStream
<1>5. CASE UNCHANGED vars
  <2>1. UNCHANGED <<model, sampler, prompt, chunk, mem, rows, queue, hidden, capturing, recorded, graph, position, todo,
                    step, answer>>
    BY <1>5 DEF vars
  <2>2. Replayable'
    BY <2>1, SameGraph DEF VInv
  <2>3. PICK c : Leads(Device, queue["compute"], c) /\ Course(c)
    BY DEF VInv
  <2>4. OneStep(hidden, position)' = OneStep(hidden, position) /\ Download' = Download
    BY <2>1 DEF OneStep, Download
  <2>5. \A e : (Stepped(e)' <=> Stepped(e)) /\ (Answers(e)' <=> Answers(e))
    BY <2>1 DEF Stepped, Answers, AnswerBuffer, AnswerName
  <2>6. Course(c)'
    BY <2>1, <2>3, <2>4, <2>5, SameRequest DEF Course
  <2>7. Leads(Device, queue["compute"], c)'
    BY <2>1, <2>3 DEF Device
  <2>. QED BY <2>1, <2>2, <2>6, <2>7 DEF VInv, TokenOfItsStep
<1>6. CASE Issue
  BY <1>3, <1>6, IssueRuns
<1>7. CASE Fail \/ Refuse \/ HostReads \/ HostWaits \/ HostExperts \/ Return
  BY <1>3, <1>7, HostRuns
<1>8. CASE Compute \/ Transfer
  BY <1>8, ExecuteRuns
<1>9. CASE ForwardHidden
  BY <1>3, <1>9, HiddenBegins
<1>10. CASE HiddenDone
  BY <1>3, <1>10, HiddenEnds
<1>11. CASE ForwardNextToken
  BY <1>3, <1>11, NextBegins
<1>12. CASE BeginLayers
  BY <1>3, <1>12, LayersBegin
<1>13. CASE EndLayers
  BY <1>3, <1>13, LayersEnd
<1>14. CASE AfterReplay
  BY <1>3, <1>14, StepEnds
<1>15. CASE PrefillPrompt \/ BeginChunk \/ ChunkDone \/ SampleFirst
  BY <1>4, <1>15 DEF PrefillPrompt, BeginChunk, ChunkDone, SampleFirst, OneStream
<1>. QED BY <1>5, <1>6, <1>7, <1>8, <1>9, <1>10, <1>11, <1>12, <1>13, <1>14, <1>15, Zenon DEF Next, Host

(* forward_next_token returns the token (or the logits) of its own step:   *)
(* computed from its own token through every layer, from the rows and the  *)
(* states of exactly the positions before, by experts that its own router  *)
(* chose, whether the step ran eagerly, was captured, or replayed a graph  *)
(* captured for another position - for models of any number of layers, of  *)
(* every kind whose operations are all of the compute stream.              *)
THEOREM TokenCorrect == Spec => [](OneStream => TokenOfItsStep)
<1>1. VInv => TokenOfItsStep
  BY DEF VInv
<1>2. Init => (OneStream => VInv)
  BY InitV
<1>3. (OneStream => VInv) => (OneStream => TokenOfItsStep)
  BY <1>1
<1>. QED BY <1>2, <1>3, NextRuns, TypeInvariant, PTL DEF Spec
===============================================================================
