------------------------- MODULE ChatServer_proofs -------------------------
(***************************************************************************)
(* For every server, vocabulary and number of requests (ChatServer):       *)
(*                                                                         *)
(*  - the counters of /metrics agree with what happened to the requests;   *)
(*  - a connection has at most one end;                                    *)
(*  - the calls a client of a stream puts together are the first ones of   *)
(*    the finished answer, and all of them when its channels are closed;   *)
(*  - its text is the beginning of the text of the finished answer, and    *)
(*    all of it when nothing is held back;                                 *)
(*  - its reasoning is that of the finished answer, but for white space.   *)
(*                                                                         *)
(* The finished answer is that of a plain response, which decodes all      *)
(* tokens together; where a token cuts a character, it is what the pieces  *)
(* of the stream add up to, Raw.  TextPieces says that the two are the     *)
(* same where no token cuts one (Unbroken): bytes whose other half is in   *)
(* the same token decode in their places (CharactersConcat), and the       *)
(* strings that begin and end a sequence are removed from the whole as     *)
(* from the tokens (StripWhole).                                           *)
(*                                                                         *)
(* The counters are updated at another step than the one that decides how  *)
(* a request ends: MInv says what is owed to them in between.              *)
(*                                                                         *)
(* The parser reads the whole answer again at every token and compares the *)
(* parse with the last one.  That a client keeps up with the calls rests   *)
(* on three facts about texts: the calls of a content stay when it grows   *)
(* (CallsGrow); the content grows with the answer but for a "<" at its end *)
(* that a marker takes back (ContentGrows); and no call ends there         *)
(* (CallsHeld).  A push then brings the client from the calls of one parse *)
(* to those of the next (PushKeepsUp), and SInv says so of every state.    *)
(*                                                                         *)
(* The text goes through one more stage, which removes the markers that    *)
(* remain, one kind after the other.  Where a text is cut behind anything  *)
(* but a "<", removing them from the whole is removing them from the parts *)
(* (StripsBase).  What is said before a held "<", the Base of an answer,   *)
(* is cut so, hence the text of the parse only grows (LiveTextGrows) and   *)
(* begins that of the finished answer (WholeTextBegins): TInv.  The        *)
(* reasoning may lose white space when a channel is closed                 *)
(* (ReasoningGains): RInv.                                                 *)
(***************************************************************************)
EXTENDS ChatServer, SequenceTheorems, WellFoundedInduction, TLAPS

-----------------------------------------------------------------------------
(* Texts: what stands before and after a place, and the place of a marker. *)

(* A set of numbers that is not empty has a least element.                 *)
LEMMA LeastNat ==
    ASSUME NEW T, T \subseteq Nat, T # {}
    PROVE  \E x \in T : \A y \in T : x <= y
<1>. DEFINE R == { ss \in Nat \X Nat : ss[1] < ss[2] }
<1>1. IsWellFoundedOn(R, Nat)
  BY NatLessThanWellFounded DEF OpToRel
<1>2. PICK x \in T : \A y \in T : ~(<<y, x>> \in R)
  <2>. HIDE DEF R
  <2>. QED BY <1>1, WFMin
<1>3. ASSUME NEW y \in T PROVE x <= y
  <2>1. <<y, x>> \in Nat \X Nat /\ x \in Nat /\ y \in Nat
    OBVIOUS
  <2>2. ~(y < x)
    BY <1>2, <2>1
  <2>. QED BY <2>1, <2>2
<1>. QED BY <1>3

(* A set of numbers with 0 and the successor of each of its elements has   *)
(* them all.                                                               *)
LEMMA Induction ==
    ASSUME NEW T, 0 \in T, \A n \in Nat : n \in T => n + 1 \in T
    PROVE  Nat \subseteq T
<1>1. SUFFICES ASSUME Nat \ T # {} PROVE FALSE
  OBVIOUS
<1>2. PICK x \in Nat \ T : \A y \in Nat \ T : x <= y
  BY <1>1, LeastNat
<1>3. x - 1 \in Nat /\ x - 1 \in T
  BY <1>2
<1>. QED BY <1>2, <1>3

(* Min is the least element.                                               *)
LEMMA MinIs ==
    ASSUME NEW T, T \subseteq Nat, T # {}
    PROVE  Min(T) \in T /\ \A y \in T : Min(T) <= y
BY LeastNat DEF Min

(* Before is what stands before position i.                                *)
LEMMA BeforeIs ==
    ASSUME NEW S, NEW t \in Seq(S), NEW i \in 1 .. Len(t) + 1
    PROVE  /\ Before(t, i) \in Seq(S)
           /\ Len(Before(t, i)) = i - 1
           /\ \A j \in 1 .. i - 1 : Before(t, i)[j] = t[j]
<1>1. i - 1 \in Int /\ 1 \in Int /\ \A j \in 1 .. i - 1 : t[j] \in S
  OBVIOUS
<1>. QED BY <1>1, SubSeqProperties DEF Before

(* After is what stands after position i.                                  *)
LEMMA AfterIs ==
    ASSUME NEW S, NEW t \in Seq(S), NEW i \in 0 .. Len(t)
    PROVE  /\ After(t, i) \in Seq(S)
           /\ Len(After(t, i)) = Len(t) - i
           /\ \A j \in 1 .. Len(t) - i : After(t, i)[j] = t[i + j]
<1>1. i + 1 \in Int /\ Len(t) \in Int /\ \A j \in i + 1 .. Len(t) : t[j] \in S
  OBVIOUS
<1>. QED BY <1>1, SubSeqProperties DEF After

(* What stands before a position of a text stays when the text grows.      *)
LEMMA BeforeConcat ==
    ASSUME NEW S, NEW t \in Seq(S), NEW u \in Seq(S), NEW i \in 1 .. Len(t) + 1
    PROVE  Before(t \o u, i) = Before(t, i)
<1>1. t \o u \in Seq(S) /\ Len(t \o u) = Len(t) + Len(u) /\ i \in 1 .. Len(t \o u) + 1
  OBVIOUS
<1>2. \A j \in 1 .. i - 1 : Before(t \o u, i)[j] = (t \o u)[j] /\ Before(t, i)[j] = t[j]
  BY <1>1, BeforeIs
<1>3. \A j \in 1 .. i - 1 : (t \o u)[j] = t[j]
  OBVIOUS
<1>4. /\ Before(t \o u, i) \in Seq(S) /\ Before(t, i) \in Seq(S)
      /\ Len(Before(t \o u, i)) = i - 1 /\ Len(Before(t, i)) = i - 1
  BY <1>1, BeforeIs
<1>. QED BY <1>2, <1>3, <1>4, SeqEqual

(* What stands after a position of a text grows with it.                   *)
LEMMA AfterConcat ==
    ASSUME NEW S, NEW t \in Seq(S), NEW u \in Seq(S), NEW i \in 0 .. Len(t)
    PROVE  After(t \o u, i) = After(t, i) \o u
<1>1. t \o u \in Seq(S) /\ Len(t \o u) = Len(t) + Len(u) /\ i \in 0 .. Len(t \o u)
  OBVIOUS
<1>2. /\ After(t, i) \in Seq(S) /\ Len(After(t, i)) = Len(t) - i
      /\ \A j \in 1 .. Len(t) - i : After(t, i)[j] = t[i + j]
  BY AfterIs
<1>3. /\ After(t \o u, i) \in Seq(S) /\ Len(After(t \o u, i)) = Len(t) + Len(u) - i
      /\ \A j \in 1 .. Len(t) + Len(u) - i : After(t \o u, i)[j] = (t \o u)[i + j]
  <2>. DEFINE x == t \o u
  <2>. HIDE DEF x
  <2>1. x \in Seq(S) /\ Len(x) = Len(t) + Len(u) /\ i \in 0 .. Len(x)
    BY <1>1 DEF x
  <2>2. /\ After(x, i) \in Seq(S) /\ Len(After(x, i)) = Len(x) - i
        /\ \A j \in 1 .. Len(x) - i : After(x, i)[j] = x[i + j]
    BY <2>1, AfterIs
  <2>. QED BY <2>1, <2>2 DEF x
<1>. DEFINE v == After(t, i)
            w == After(t \o u, i)
<1>7. v \in Seq(S) /\ Len(v) = Len(t) - i /\ \A j \in 1 .. Len(t) - i : v[j] = t[i + j]
  BY <1>2
<1>8. \A j \in 1 .. Len(t) + Len(u) - i : w[j] = (t \o u)[i + j]
  BY <1>3
<1>. HIDE DEF v, w
<1>4. v \o u \in Seq(S) /\ Len(v \o u) = Len(t) - i + Len(u)
  <2>1. v \o u \in Seq(S) /\ Len(v \o u) = Len(v) + Len(u)
    BY <1>7, ConcatProperties
  <2>. QED BY <1>7, <2>1
<1>5. ASSUME NEW j \in 1 .. Len(t) + Len(u) - i PROVE w[j] = (v \o u)[j]
  <2>1. w[j] = (t \o u)[i + j]
    BY <1>8
  <2>2. CASE j <= Len(t) - i
    <3>1. (t \o u)[i + j] = t[i + j]
      BY <2>2
    <3>2. (v \o u)[j] = v[j] /\ v[j] = t[i + j]
      BY <1>7, <2>2
    <3>. QED BY <2>1, <3>1, <3>2
  <2>3. CASE j > Len(t) - i
    <3>1. (t \o u)[i + j] = u[i + j - Len(t)]
      BY <2>3, SMTT(60)
    <3>2. (v \o u)[j] = u[j - (Len(t) - i)]
      BY <1>7, <2>3, SMTT(60)
    <3>3. i + j - Len(t) = j - (Len(t) - i) /\ Len(t) \in Nat /\ i \in Nat /\ j \in Nat
      OBVIOUS
    <3>4. u[i + j - Len(t)] = u[j - (Len(t) - i)]
      BY <3>3
    <3>. QED BY <2>1, <3>1, <3>2, <3>4
  <2>4. j <= Len(t) - i \/ j > Len(t) - i
    OBVIOUS
  <2>. QED BY <2>2, <2>3, <2>4, Zenon
<1>6. Len(w) = Len(v \o u) /\ w \in Seq(S) /\ \A j \in 1 .. Len(w) : w[j] = (v \o u)[j]
  BY <1>3, <1>4, <1>5 DEF w
<1>. QED BY <1>4, <1>6, SeqEqual DEF v, w

(* A marker m occurs at i.                                                 *)
Stands(t, m, i) == t[i] = m[1] /\ t[i + 1] = m[2]

(* Find is the first place of a marker, or 0.                              *)
LEMMA FindIs ==
    ASSUME NEW S, NEW t \in Seq(S), NEW m
    PROVE  /\ Find(t, m) \in 0 .. Len(t)
           /\ Find(t, m) # 0 => Find(t, m) < Len(t) /\ Stands(t, m, Find(t, m))
           /\ Find(t, m) # 0 => \A i \in 1 .. Find(t, m) - 1 : ~Stands(t, m, i)
           /\ Find(t, m) = 0 => \A i \in 1 .. Len(t) - 1 : ~Stands(t, m, i)
<1>1. Occurs(t, m) = {i \in 1 .. Len(t) : i < Len(t) /\ Stands(t, m, i)}
  BY DEF Occurs, Stands
<1>2. CASE Occurs(t, m) = {}
  BY <1>1, <1>2 DEF Find
<1>3. CASE Occurs(t, m) # {}
  <2>1. Occurs(t, m) \subseteq Nat
    BY <1>1
  <2>2. Find(t, m) \in Occurs(t, m) /\ \A i \in Occurs(t, m) : Find(t, m) <= i
    BY <1>3, <2>1, MinIs DEF Find
  <2>3. Find(t, m) \in 1 .. Len(t) /\ Find(t, m) < Len(t) /\ Stands(t, m, Find(t, m))
    BY <1>1, <2>2
  <2>4. ASSUME NEW i \in 1 .. Find(t, m) - 1, Stands(t, m, i) PROVE FALSE
    <3>1. i \in 1 .. Len(t) /\ i < Len(t) /\ i < Find(t, m)
      BY <2>3
    <3>2. i \in Occurs(t, m)
      BY <1>1, <2>4, <3>1
    <3>. QED BY <2>2, <3>1, <3>2, <2>3
  <2>. QED BY <2>3, <2>4
<1>. QED BY <1>2, <1>3

(* It is the only such place.                                              *)
LEMMA FindIsFirst ==
    ASSUME NEW S, NEW t \in Seq(S), NEW m, NEW i \in 1 .. Len(t) - 1, Stands(t, m, i),
           \A j \in 1 .. i - 1 : ~Stands(t, m, j)
    PROVE  Find(t, m) = i
<1>1. Find(t, m) # 0 /\ Find(t, m) \in 1 .. Len(t)
  BY FindIs
<1>2. ~(i < Find(t, m))
  BY <1>1, FindIs
<1>3. ~(Find(t, m) < i)
  BY <1>1, FindIs
<1>. QED BY <1>1, <1>2, <1>3

(* A text that grows keeps the first place of a marker, and a new one is   *)
(* found in what is added, or across the seam.                             *)
LEMMA FindExtends ==
    ASSUME NEW S, NEW t \in Seq(S), NEW u \in Seq(S), NEW m
    PROVE  /\ Find(t, m) # 0 => Find(t \o u, m) = Find(t, m)
           /\ Find(t, m) = 0 => \/ Find(t \o u, m) = 0
                                \/ Find(t \o u, m) > Len(t)
                                \/ Find(t \o u, m) = Len(t) /\ Len(t) > 0 /\ t[Len(t)] = m[1]
<1>1. t \o u \in Seq(S) /\ Len(t \o u) = Len(t) + Len(u)
  OBVIOUS
<1>2. ASSUME NEW i \in 1 .. Len(t) - 1 PROVE Stands(t \o u, m, i) <=> Stands(t, m, i)
  <2>1. (t \o u)[i] = t[i] /\ (t \o u)[i + 1] = t[i + 1]
    OBVIOUS
  <2>. QED BY <2>1 DEF Stands
<1>3. CASE Find(t, m) # 0
  <2>. DEFINE i == Find(t, m)
  <2>1. i \in 1 .. Len(t) - 1 /\ Stands(t, m, i) /\ \A j \in 1 .. i - 1 : ~Stands(t, m, j)
    BY <1>3, FindIs
  <2>. HIDE DEF i
  <2>2. i \in 1 .. Len(t \o u) - 1 /\ Stands(t \o u, m, i)
    BY <1>1, <1>2, <2>1
  <2>3. \A j \in 1 .. i - 1 : ~Stands(t \o u, m, j)
    BY <1>2, <2>1
  <2>4. Find(t \o u, m) = i
    BY <1>1, <2>2, <2>3, FindIsFirst
  <2>. QED BY <1>3, <2>4 DEF i
<1>4. CASE Find(t, m) = 0 /\ Find(t \o u, m) # 0
  <2>. DEFINE i == Find(t \o u, m)
  <2>1. i \in 1 .. Len(t) + Len(u) /\ Stands(t \o u, m, i)
    <3>. DEFINE x == t \o u
    <3>. HIDE DEF x
    <3>1. x \in Seq(S) /\ Len(x) = Len(t) + Len(u) /\ Find(x, m) # 0
      BY <1>1, <1>4 DEF x
    <3>2. Find(x, m) \in 0 .. Len(x) /\ Stands(x, m, Find(x, m))
      BY <3>1, FindIs
    <3>. QED BY <3>1, <3>2 DEF x
  <2>2. \A j \in 1 .. Len(t) - 1 : ~Stands(t, m, j)
    BY <1>4, FindIs
  <2>. HIDE DEF i
  <2>3. ~(i \in 1 .. Len(t) - 1)
    BY <1>2, <2>1, <2>2
  <2>4. i > Len(t) \/ i = Len(t)
    BY <2>1, <2>3
  <2>5. i = Len(t) => Len(t) > 0 /\ t[Len(t)] = m[1]
    <3>. SUFFICES ASSUME i = Len(t) PROVE Len(t) > 0 /\ t[Len(t)] = m[1]
      OBVIOUS
    <3>1. Len(t) > 0 /\ (t \o u)[Len(t)] = t[Len(t)]
      BY <2>1
    <3>. QED BY <2>1, <3>1 DEF Stands
  <2>. QED BY <1>4, <2>4, <2>5 DEF i
<1>. QED BY <1>3, <1>4

(* FindChar is the first place of a character, or 0.                       *)
LEMMA FindCharIs ==
    ASSUME NEW S, NEW t \in Seq(S), NEW c
    PROVE  /\ FindChar(t, c) \in 0 .. Len(t)
           /\ FindChar(t, c) # 0 => t[FindChar(t, c)] = c
           /\ FindChar(t, c) # 0 => \A i \in 1 .. FindChar(t, c) - 1 : t[i] # c
           /\ FindChar(t, c) = 0 => \A i \in 1 .. Len(t) : t[i] # c
<1>. DEFINE I == {i \in 1 .. Len(t) : t[i] = c}
<1>1. FindChar(t, c) = IF I # {} THEN Min(I) ELSE 0
  BY DEF FindChar, SelectInSeq
<1>2. I \subseteq Nat
  OBVIOUS
<1>3. CASE I = {}
  BY <1>1, <1>3
<1>4. CASE I # {}
  <2>1. FindChar(t, c) \in I /\ \A i \in I : FindChar(t, c) <= i
    <3>. HIDE DEF I
    <3>. QED BY <1>1, <1>2, <1>4, MinIs
  <2>2. FindChar(t, c) \in 1 .. Len(t) /\ t[FindChar(t, c)] = c
    BY <2>1
  <2>. QED BY <2>1, <2>2
<1>. QED BY <1>3, <1>4

(* A text that grows keeps the first place of a character.                 *)
LEMMA FindCharExtends ==
    ASSUME NEW S, NEW t \in Seq(S), NEW u \in Seq(S), NEW c, FindChar(t, c) # 0
    PROVE  FindChar(t \o u, c) = FindChar(t, c)
<1>1. t \o u \in Seq(S) /\ Len(t \o u) = Len(t) + Len(u) /\ \A i \in 1 .. Len(t) : (t \o u)[i] = t[i]
  OBVIOUS
<1>. DEFINE i == FindChar(t, c)
            k == FindChar(t \o u, c)
<1>2. i \in 1 .. Len(t) /\ t[i] = c /\ \A j \in 1 .. i - 1 : t[j] # c
  BY FindCharIs
<1>3. /\ k \in 0 .. Len(t \o u)
      /\ k # 0 => (t \o u)[k] = c
      /\ k # 0 => \A j \in 1 .. k - 1 : (t \o u)[j] # c
      /\ k = 0 => \A j \in 1 .. Len(t \o u) : (t \o u)[j] # c
  BY <1>1, FindCharIs
<1>. HIDE DEF i, k
<1>4. k # 0
  BY <1>1, <1>2, <1>3
<1>5. ~(i < k) /\ ~(k < i)
  BY <1>1, <1>2, <1>3, <1>4
<1>. QED BY <1>2, <1>3, <1>5 DEF i, k

-----------------------------------------------------------------------------
(* Recursion.                                                              *)

(* Recursion over a set with a size: a function whose value at x is given  *)
(* outright (`base'), or from the value at one smaller element.            *)
Solves(f, E, base, b, G, next) ==
  \A x \in E : f[x] = IF x \in base THEN b[x] ELSE G[<<x, f[next[x]]>>]

(* The elements of D of a size below n.                                    *)
Below(D, size, n) == {x \in D : size[x] < n}

(* A recursion whose argument gets smaller has a solution. CHOOSE defines  *)
(* a recursive function in TLA+, so that its equation holds only when this *)
(* is known.                                                               *)
LEMMA Recursion ==
    ASSUME NEW D, NEW V, NEW size \in [D -> Nat], NEW next, NEW base, NEW b \in [D -> V],
           NEW G \in [D \X V -> V],
           \A x \in D : x \notin base => next[x] \in D /\ size[next[x]] < size[x]
    PROVE  \E f \in [D -> V] : Solves(f, D, base, b, G, next)
<1>. DEFINE P(f, n) == f \in [Below(D, size, n) -> V] /\ Solves(f, Below(D, size, n), base, b, G, next)
            T == {n \in Nat : \E f : P(f, n)}
<1>1. 0 \in T
  <2>1. Below(D, size, 0) = {}
    BY DEF Below
  <2>. DEFINE f == [x \in Below(D, size, 0) |-> b[x]]
  <2>2. P(f, 0)
    BY <2>1 DEF Solves
  <2>. HIDE DEF P
  <2>. QED BY <2>2
<1>2. ASSUME NEW n \in Nat, n \in T PROVE n + 1 \in T
  <2>1. PICK f : P(f, n)
    BY <1>2
  <2>. DEFINE g == [x \in Below(D, size, n + 1) |->
                      IF size[x] < n THEN f[x] ELSE IF x \in base THEN b[x] ELSE G[<<x, f[next[x]]>>]]
  <2>2. ASSUME NEW x \in Below(D, size, n + 1), x \notin base
        PROVE  next[x] \in Below(D, size, n) /\ next[x] \in Below(D, size, n + 1) /\ f[next[x]] \in V
    <3>1. x \in D /\ size[x] < n + 1 /\ size[x] \in Nat
      BY DEF Below
    <3>2. next[x] \in D /\ size[next[x]] < size[x] /\ size[next[x]] \in Nat
      BY <2>2, <3>1
    <3>3. next[x] \in Below(D, size, n) /\ next[x] \in Below(D, size, n + 1)
      BY <3>1, <3>2 DEF Below
    <3>. QED BY <2>1, <3>3
  <2>3. ASSUME NEW x \in Below(D, size, n + 1)
        PROVE  g[x] \in V /\ g[x] = IF x \in base THEN b[x] ELSE G[<<x, g[next[x]]>>]
    <3>1. x \in D
      BY DEF Below
    <3>4. x \notin base => size[next[x]] < n
      BY <2>2 DEF Below
    <3>5. x \notin base => g[next[x]] = f[next[x]]
      BY <2>2, <3>4
    <3>2. CASE size[x] < n
      <4>1. x \in Below(D, size, n)
        BY <3>1, <3>2 DEF Below
      <4>2. f[x] \in V /\ f[x] = IF x \in base THEN b[x] ELSE G[<<x, f[next[x]]>>]
        BY <2>1, <4>1 DEF Solves
      <4>3. g[x] = f[x]
        BY <3>2
      <4>. HIDE DEF g
      <4>. QED BY <4>2, <4>3, <3>5
    <3>3. CASE ~(size[x] < n)
      <4>1. g[x] = IF x \in base THEN b[x] ELSE G[<<x, f[next[x]]>>]
        BY <3>3
      <4>2. x \notin base => <<x, f[next[x]]>> \in D \X V
        BY <2>2, <3>1
      <4>3. x \notin base => G[<<x, f[next[x]]>>] \in V
        BY <4>2
      <4>4. x \in base => b[x] \in V
        BY <3>1
      <4>. HIDE DEF g
      <4>. QED BY <4>1, <4>3, <4>4, <3>5
    <3>. QED BY <3>2, <3>3
  <2>4. P(g, n + 1)
    <3>1. g \in [Below(D, size, n + 1) -> V]
      BY <2>3
    <3>2. Solves(g, Below(D, size, n + 1), base, b, G, next)
      <4>. HIDE DEF g
      <4>. QED BY <2>3 DEF Solves
    <3>. QED BY <3>1, <3>2
  <2>. HIDE DEF P, g
  <2>. QED BY <2>4
<1>. HIDE DEF T
<1>3. Nat \subseteq T
  BY <1>1, <1>2, Induction
<1>4. \A n \in Nat : \E f : P(f, n)
  BY <1>3 DEF T
<1>. DEFINE fn == [n \in Nat |-> CHOOSE f : P(f, n)]
            F == [x \in D |-> fn[size[x] + 1][x]]
<1>5. \A n \in Nat : P(fn[n], n)
  <2>. SUFFICES ASSUME NEW n \in Nat PROVE P(fn[n], n)
    OBVIOUS
  <2>1. \E f : P(f, n)
    BY <1>4
  <2>2. fn[n] = CHOOSE f : P(f, n)
    OBVIOUS
  <2>. HIDE DEF P, fn
  <2>. QED BY <2>1, <2>2
<1>. HIDE DEF fn
(* Approximations agree where both are defined.                            *)
<1>6. ASSUME NEW k \in Nat
      PROVE  \A m, n \in Nat : \A x \in D : size[x] < k /\ size[x] < m /\ size[x] < n => fn[m][x] = fn[n][x]
  <2>. DEFINE A(j) == \A m, n \in Nat : \A x \in D :
                         size[x] < j /\ size[x] < m /\ size[x] < n => fn[m][x] = fn[n][x]
              U == {j \in Nat : A(j)}
  <2>1. 0 \in U
    OBVIOUS
  <2>2. ASSUME NEW j \in Nat, j \in U PROVE j + 1 \in U
    <3>. SUFFICES ASSUME NEW m \in Nat, NEW n \in Nat, NEW x \in D,
                         size[x] < j + 1, size[x] < m, size[x] < n
                  PROVE  fn[m][x] = fn[n][x]
      OBVIOUS
    <3>1. x \in Below(D, size, m) /\ x \in Below(D, size, n)
      BY DEF Below
    <3>2. /\ fn[m][x] = IF x \in base THEN b[x] ELSE G[<<x, fn[m][next[x]]>>]
          /\ fn[n][x] = IF x \in base THEN b[x] ELSE G[<<x, fn[n][next[x]]>>]
      BY <1>5, <3>1 DEF Solves
    <3>3. ASSUME x \notin base PROVE fn[m][next[x]] = fn[n][next[x]]
      <4>1. next[x] \in D /\ size[next[x]] < size[x] /\ size[next[x]] \in Nat /\ size[x] \in Nat
        BY <3>3
      <4>2. size[next[x]] < j /\ size[next[x]] < m /\ size[next[x]] < n
        BY <4>1
      <4>. QED BY <2>2, <4>1, <4>2
    <3>. QED BY <3>2, <3>3
  <2>. HIDE DEF U
  <2>3. Nat \subseteq U
    BY <2>1, <2>2, Induction
  <2>. QED BY <2>3 DEF U
<1>7. ASSUME NEW x \in D
      PROVE  F[x] \in V /\ F[x] = IF x \in base THEN b[x] ELSE G[<<x, F[next[x]]>>]
  <2>. DEFINE n == size[x] + 1
  <2>1. n \in Nat /\ x \in Below(D, size, n) /\ F[x] = fn[n][x]
    BY DEF Below
  <2>2. fn[n][x] \in V /\ fn[n][x] = IF x \in base THEN b[x] ELSE G[<<x, fn[n][next[x]]>>]
    BY <1>5, <2>1 DEF Solves
  <2>3. ASSUME x \notin base PROVE fn[n][next[x]] = F[next[x]]
    <3>1. next[x] \in D /\ size[next[x]] < size[x] /\ size[next[x]] \in Nat /\ size[x] \in Nat
      BY <2>3
    <3>2. F[next[x]] = fn[size[next[x]] + 1][next[x]]
      BY <3>1
    <3>3. /\ size[next[x]] + 1 \in Nat /\ n \in Nat
          /\ size[next[x]] < n /\ size[next[x]] < size[next[x]] + 1
      BY <3>1
    <3>. HIDE DEF F, n
    <3>. QED BY <1>6, <3>1, <3>2, <3>3
  <2>. HIDE DEF F, n
  <2>. QED BY <2>1, <2>2, <2>3
<1>8. F \in [D -> V] /\ Solves(F, D, base, b, G, next)
  <2>1. \A x \in D : F[x] \in V
    BY <1>7
  <2>2. F \in [D -> V]
    BY <2>1
  <2>. HIDE DEF F
  <2>. QED BY <1>7, <2>2 DEF Solves
<1>. QED BY <1>8

-----------------------------------------------------------------------------
(* The calls of a text.                                                    *)

(* Max is the greatest element.                                            *)
LEMMA MaxIs ==
    ASSUME NEW n \in Nat, NEW T, T \subseteq 0 .. n, T # {}
    PROVE  Max(T) \in T /\ \A y \in T : Max(T) >= y
<1>. DEFINE U == {n - i : i \in T}
<1>1. U \subseteq Nat /\ U # {}
  <2>1. ASSUME NEW i \in T PROVE n - i \in Nat
    <3>1. i \in 0 .. n
      OBVIOUS
    <3>. QED BY <3>1
  <2>2. U \subseteq Nat
    BY <2>1
  <2>. QED BY <2>2
<1>2. PICK x \in U : \A y \in U : x <= y
  BY <1>1, LeastNat
<1>3. PICK i \in T : x = n - i
  OBVIOUS
<1>4. ASSUME NEW y \in T PROVE i >= y
  <2>1. n - y \in U
    OBVIOUS
  <2>2. n - i <= n - y
    BY <1>2, <1>3, <2>1
  <2>3. i \in Nat /\ y \in Nat
    OBVIOUS
  <2>. QED BY <2>2, <2>3
<1>5. \E z \in T : \A y \in T : z >= y
  BY <1>4
<1>. QED BY <1>5 DEF Max

(* What Trim looks for are places of the text.                             *)
LEMMA InkIs ==
    ASSUME NEW S, NEW t \in Seq(S)
    PROVE  /\ Ink(t) \subseteq 1 .. Len(t)
           /\ Ink(t) # {} => Min(Ink(t)) \in 1 .. Len(t) /\ Max(Ink(t)) \in 1 .. Len(t)
           /\ Max(Ink(t) \cup {0}) \in 0 .. Len(t)
<1>1. Ink(t) \subseteq 1 .. Len(t)
  BY DEF Ink
<1>2. Len(t) \in Nat /\ Ink(t) \subseteq 0 .. Len(t) /\ Ink(t) \cup {0} \subseteq 0 .. Len(t) /\ Ink(t) \subseteq Nat
  BY <1>1
<1>3. Max(Ink(t) \cup {0}) \in Ink(t) \cup {0}
  BY <1>2, MaxIs
<1>4. Ink(t) # {} => Min(Ink(t)) \in Ink(t) /\ Max(Ink(t)) \in Ink(t)
  BY <1>2, MinIs, MaxIs
<1>. QED BY <1>1, <1>2, <1>3, <1>4

(* Trimming leaves a text.                                                 *)
LEMMA TrimIs ==
    ASSUME NEW S, NEW t \in Seq(S)
    PROVE  Trim(t) \in Seq(S) /\ TrimEnd(t) \in Seq(S)
<1>1. ASSUME NEW i \in 1 .. Len(t) + 1, NEW j \in 0 .. Len(t) PROVE SubSeq(t, i, j) \in Seq(S)
  <2>1. i \in Int /\ j \in Int /\ \A k \in i .. j : t[k] \in S
    OBVIOUS
  <2>. QED BY <2>1, SubSeqProperties
<1>2. TrimEnd(t) \in Seq(S)
  <2>1. 1 \in 1 .. Len(t) + 1 /\ Max(Ink(t) \cup {0}) \in 0 .. Len(t)
    BY InkIs
  <2>. QED BY <1>1, <2>1 DEF TrimEnd
<1>3. CASE Ink(t) = {}
  BY <1>2, <1>3 DEF Trim
<1>4. CASE Ink(t) # {}
  <2>1. Min(Ink(t)) \in 1 .. Len(t) + 1 /\ Max(Ink(t)) \in 0 .. Len(t)
    <3>1. Min(Ink(t)) \in 1 .. Len(t) /\ Max(Ink(t)) \in 1 .. Len(t)
      BY <1>4, InkIs
    <3>2. 1 .. Len(t) \subseteq 1 .. Len(t) + 1 /\ 1 .. Len(t) \subseteq 0 .. Len(t)
      OBVIOUS
    <3>. QED BY <3>1, <3>2
  <2>. QED BY <1>1, <1>2, <1>4, <2>1 DEF Trim
<1>. QED BY <1>3, <1>4

-----------------------------------------------------------------------------
(* A text is a sequence of characters.                                     *)
LEMMA TextIs == TextOf = Seq(Char) /\ "<" \in Char
BY DEF TextOf, Char

(* Induction on the length of a text.                                      *)
LEMMA TextInduction ==
    ASSUME NEW U, \A t \in TextOf : (\A s \in TextOf : Len(s) < Len(t) => s \in U) => t \in U
    PROVE  TextOf \subseteq U
<1>. DEFINE T == {n \in Nat : \A t \in TextOf : Len(t) < n => t \in U}
<1>1. \A t \in TextOf : Len(t) \in Nat
  BY TextIs
<1>2. 0 \in T
  BY <1>1
<1>3. ASSUME NEW n \in Nat, n \in T PROVE n + 1 \in T
  <2>. SUFFICES ASSUME NEW t \in TextOf, Len(t) < n + 1 PROVE t \in U
    OBVIOUS
  <2>1. ASSUME NEW s \in TextOf, Len(s) < Len(t) PROVE s \in U
    <3>1. Len(s) < n
      BY <1>1, <2>1
    <3>. QED BY <1>3, <3>1
  <2>. QED BY <2>1
<1>. HIDE DEF T
<1>4. Nat \subseteq T
  BY <1>2, <1>3, Induction
<1>5. ASSUME NEW t \in TextOf PROVE t \in U
  <2>1. Len(t) + 1 \in Nat /\ Len(t) < Len(t) + 1
    BY <1>1
  <2>2. Len(t) + 1 \in T
    BY <1>4, <2>1
  <2>. QED BY <2>1, <2>2 DEF T
<1>. QED BY <1>5

(* A call of a tool, and what cutting the calls out of a text leaves.      *)
Call == [args : TextOf]
Cut  == [content : TextOf, calls : Seq(Call)]

(* The parts of a text with a call.                                        *)
CallBody(t) == After(t, Find(t, CallOpen) + 1)
CallEnd(t)  == Find(CallBody(t), CallClose)
CallRest(t) == After(CallBody(t), CallEnd(t) + 1)
NoCall(t)   == Find(t, CallOpen) = 0 \/ CallEnd(t) = 0

(* The cut of t, given that of the rest.                                   *)
CallStep(kind, live, t, rest) ==
  LET o     == Find(t, CallOpen)
      after == After(t, o + 1)
      c     == Find(after, CallClose)
  IN  IF o = 0 THEN [content |-> t, calls |-> <<>>]
      ELSE IF c = 0
           THEN [content |-> Before(t, o) \o
                               (IF live \/ kind = "qwen" THEN <<>> ELSE after),
                 calls |-> <<>>]
      ELSE [content |-> Before(t, o) \o rest.content,
            calls   |-> CallOf(kind, Before(after, c)) \o rest.calls]

(* A body names at most one call.                                          *)
LEMMA CallOfIs ==
    ASSUME NEW kind \in Kinds, NEW body \in TextOf
    PROVE  CallOf(kind, body) \in Seq(Call)
<1>. DEFINE h == IF kind = "qwen" THEN FindChar(body, "fn")
                 ELSE IF Ink(body) # {} /\ body[Min(Ink(body))] = "fn" THEN Min(Ink(body)) ELSE 0
<1>1. h \in 0 .. Len(body)
  <2>1. body \in Seq(Char)
    BY TextIs
  <2>2. FindChar(body, "fn") \in 0 .. Len(body)
    BY <2>1, FindCharIs
  <2>3. Ink(body) # {} => Min(Ink(body)) \in 0 .. Len(body)
    <3>1. Ink(body) # {} => Min(Ink(body)) \in 1 .. Len(body)
      BY <2>1, InkIs
    <3>2. 1 .. Len(body) \subseteq 0 .. Len(body)
      OBVIOUS
    <3>. QED BY <3>1, <3>2
  <2>. QED BY <2>1, <2>2, <2>3
<1>. HIDE DEF h
<1>2. Trim(After(body, h)) \in TextOf
  <2>1. body \in Seq(Char)
    BY TextIs
  <2>2. After(body, h) \in Seq(Char)
    BY <1>1, <2>1, AfterIs
  <2>. QED BY <2>2, TrimIs, TextIs
<1>3. CallOf(kind, body) = IF h = 0 THEN <<>> ELSE << [args |-> Trim(After(body, h))] >>
  BY DEF CallOf, h
<1>4. [args |-> Trim(After(body, h))] \in Call
  BY <1>2 DEF Call
<1>. QED BY <1>3, <1>4

(* What is left of a text after a call is shorter.                         *)
LEMMA CallParts ==
    ASSUME NEW t \in TextOf, Find(t, CallOpen) # 0
    PROVE  /\ Before(t, Find(t, CallOpen)) \in TextOf
           /\ CallBody(t) \in TextOf
           /\ CallEnd(t) # 0 => /\ Before(CallBody(t), CallEnd(t)) \in TextOf
                                /\ CallRest(t) \in TextOf
                                /\ Len(CallRest(t)) < Len(t)
<1>. DEFINE o == Find(t, CallOpen)
            after == After(t, o + 1)
            c == Find(after, CallClose)
<1>1. t \in Seq(Char) /\ o \in 1 .. Len(t) /\ o < Len(t)
  <2>1. t \in Seq(Char)
    BY TextIs
  <2>. QED BY <2>1, FindIs
<1>. HIDE DEF o
<1>2. Before(t, o) \in Seq(Char)
  BY <1>1, BeforeIs
<1>3. after \in Seq(Char) /\ Len(after) = Len(t) - (o + 1)
  <2>1. o + 1 \in 0 .. Len(t)
    BY <1>1
  <2>. QED BY <1>1, <2>1, AfterIs
<1>. HIDE DEF after
<1>4. c \in 0 .. Len(after) /\ (c # 0 => c < Len(after))
  BY <1>3, FindIs
<1>. HIDE DEF c
<1>5. ASSUME c # 0
      PROVE  /\ Before(after, c) \in Seq(Char)
             /\ After(after, c + 1) \in Seq(Char)
             /\ Len(After(after, c + 1)) < Len(t)
  <2>1. c \in 1 .. Len(after) + 1 /\ c + 1 \in 0 .. Len(after)
    BY <1>3, <1>4, <1>5
  <2>2. Before(after, c) \in Seq(Char)
    BY <1>3, <2>1, BeforeIs
  <2>3. After(after, c + 1) \in Seq(Char) /\ Len(After(after, c + 1)) = Len(after) - (c + 1)
    BY <1>3, <2>1, AfterIs
  <2>4. Len(t) \in Nat /\ o \in Nat /\ c \in Nat
    BY <1>1, <2>1
  <2>. QED BY <1>3, <2>2, <2>3, <2>4
<1>. QED BY <1>2, <1>3, <1>5, TextIs DEF o, after, c, CallBody, CallEnd, CallRest

(* A step of the cut is a cut.                                             *)
LEMMA CallStepIs ==
    ASSUME NEW kind \in Kinds, NEW live \in BOOLEAN, NEW t \in TextOf, NEW r \in Cut
    PROVE  CallStep(kind, live, t, r) \in Cut
<1>1. CASE Find(t, CallOpen) = 0
  BY <1>1 DEF CallStep, Cut
<1>2. CASE Find(t, CallOpen) # 0 /\ CallEnd(t) = 0
  <2>1. Before(t, Find(t, CallOpen)) \in Seq(Char) /\ CallBody(t) \in Seq(Char)
    BY <1>2, CallParts, TextIs
  <2>2. CallStep(kind, live, t, r) =
           [content |-> Before(t, Find(t, CallOpen)) \o (IF live \/ kind = "qwen" THEN <<>> ELSE CallBody(t)),
            calls |-> <<>>]
    BY <1>2 DEF CallStep, CallBody, CallEnd
  <2>3. Before(t, Find(t, CallOpen)) \o (IF live \/ kind = "qwen" THEN <<>> ELSE CallBody(t)) \in Seq(Char)
    BY <2>1
  <2>. QED BY <2>2, <2>3, TextIs DEF Cut
<1>3. CASE Find(t, CallOpen) # 0 /\ CallEnd(t) # 0
  <2>1. Before(t, Find(t, CallOpen)) \in Seq(Char) /\ Before(CallBody(t), CallEnd(t)) \in TextOf
    BY <1>3, CallParts, TextIs
  <2>2. CallStep(kind, live, t, r) =
           [content |-> Before(t, Find(t, CallOpen)) \o r.content,
            calls |-> CallOf(kind, Before(CallBody(t), CallEnd(t))) \o r.calls]
    BY <1>3 DEF CallStep, CallBody, CallEnd
  <2>3. r.content \in Seq(Char) /\ r.calls \in Seq(Call)
    BY TextIs DEF Cut
  <2>4. CallOf(kind, Before(CallBody(t), CallEnd(t))) \in Seq(Call)
    BY <2>1, CallOfIs
  <2>5. Before(t, Find(t, CallOpen)) \o r.content \in Seq(Char)
    BY <2>1, <2>3, ConcatProperties
  <2>6. CallOf(kind, Before(CallBody(t), CallEnd(t))) \o r.calls \in Seq(Call)
    BY <2>3, <2>4, ConcatProperties
  <2>. QED BY <2>2, <2>5, <2>6, TextIs DEF Cut
<1>. QED BY <1>1, <1>2, <1>3

(* A text without a call does not look at the rest.                        *)
LEMMA CallStepEnds ==
    ASSUME NEW kind, NEW live, NEW t, NoCall(t), NEW r, NEW q
    PROVE  CallStep(kind, live, t, r) = CallStep(kind, live, t, q)
BY DEF CallStep, NoCall, CallEnd, CallBody

(* The recursion of Calls (chat_parse.rs: the loop over the markers)       *)
(* unfolds.                                                                *)
LEMMA CallsUnfold ==
    ASSUME NEW kind \in Kinds, NEW live \in BOOLEAN, NEW t \in TextOf
    PROVE  /\ Calls(kind, live, t) \in Cut
           /\ Calls(kind, live, t) = CallStep(kind, live, t, Calls(kind, live, CallRest(t)))
<1>. DEFINE Def(f) == f = [s \in TextOf |-> CallStep(kind, live, s, f[CallRest(s)])]
            none == [content |-> <<>>, calls |-> <<>>]
            size == [s \in TextOf |-> Len(s)]
            next == [s \in TextOf |-> CallRest(s)]
            base == {s \in TextOf : NoCall(s)}
            b == [s \in TextOf |-> CallStep(kind, live, s, none)]
            G == [x \in TextOf \X Cut |-> CallStep(kind, live, x[1], x[2])]
<1>1. none \in Cut
  BY TextIs DEF Cut
<1>2. size \in [TextOf -> Nat]
  BY TextIs
<1>3. b \in [TextOf -> Cut]
  BY <1>1, CallStepIs
<1>4. G \in [TextOf \X Cut -> Cut]
  <2>1. ASSUME NEW x \in TextOf \X Cut PROVE CallStep(kind, live, x[1], x[2]) \in Cut
    BY CallStepIs
  <2>. QED BY <2>1
<1>5. ASSUME NEW s \in TextOf, s \notin base PROVE next[s] \in TextOf /\ size[next[s]] < size[s]
  BY <1>5, CallParts DEF NoCall
<1>6. PICK f \in [TextOf -> Cut] : Solves(f, TextOf, base, b, G, next)
  <2>. HIDE DEF size, next, base, b, G
  <2>. QED BY <1>2, <1>3, <1>4, <1>5, Recursion
<1>7. ASSUME NEW s \in TextOf PROVE f[s] = CallStep(kind, live, s, f[CallRest(s)])
  <2>1. CASE NoCall(s)
    <3>1. f[s] = CallStep(kind, live, s, none)
      BY <1>6, <2>1 DEF Solves
    <3>. QED BY <2>1, <3>1, CallStepEnds
  <2>2. CASE ~NoCall(s)
    <3>1. CallRest(s) \in TextOf /\ f[CallRest(s)] \in Cut
      BY <2>2, CallParts DEF NoCall
    <3>2. f[s] = G[<<s, f[next[s]]>>]
      BY <1>6, <2>2 DEF Solves
    <3>3. next[s] = CallRest(s)
      OBVIOUS
    <3>4. <<s, f[CallRest(s)]>> \in TextOf \X Cut
      BY <3>1
    <3>5. G[<<s, f[CallRest(s)]>>] = CallStep(kind, live, s, f[CallRest(s)])
      BY <3>4
    <3>. QED BY <3>2, <3>3, <3>5
  <2>. QED BY <2>1, <2>2
<1>8. Def(f)
  BY <1>7
<1>. DEFINE F == CHOOSE g : Def(g)
<1>9. \A s \in TextOf : Calls(kind, live, s) = F[s]
  BY DEF Calls, CallStep, CallRest, CallBody, CallEnd
<1>10. Def(F)
  BY <1>8
<1>. HIDE DEF F
<1>11. \A s \in TextOf : F[s] = CallStep(kind, live, s, F[CallRest(s)])
  BY <1>10
<1>12. ASSUME NEW s \in TextOf, \A r \in TextOf : Len(r) < Len(s) => F[r] \in Cut PROVE F[s] \in Cut
  <2>1. CASE NoCall(s)
    <3>1. F[s] = CallStep(kind, live, s, none)
      BY <1>11, <2>1, CallStepEnds
    <3>. QED BY <1>1, <3>1, CallStepIs
  <2>2. CASE ~NoCall(s)
    <3>1. F[CallRest(s)] \in Cut
      BY <1>12, <2>2, CallParts DEF NoCall
    <3>. QED BY <1>11, <3>1, CallStepIs
  <2>. QED BY <2>1, <2>2
<1>13. \A s \in TextOf : F[s] \in Cut
  <2>. DEFINE U == {s \in TextOf : F[s] \in Cut}
  <2>1. \A s \in TextOf : (\A r \in TextOf : Len(r) < Len(s) => r \in U) => s \in U
    BY <1>12
  <2>. HIDE DEF U
  <2>2. TextOf \subseteq U
    BY <2>1, TextInduction
  <2>. QED BY <2>2 DEF U
<1>14. CASE NoCall(t)
  <2>1. CallStep(kind, live, t, F[CallRest(t)]) = CallStep(kind, live, t, Calls(kind, live, CallRest(t)))
    BY <1>14, CallStepEnds
  <2>. QED BY <1>9, <1>11, <1>13, <2>1
<1>15. CASE ~NoCall(t)
  <2>1. CallRest(t) \in TextOf
    BY <1>15, CallParts DEF NoCall
  <2>. QED BY <1>9, <1>11, <1>13, <2>1
<1>. QED BY <1>14, <1>15

-----------------------------------------------------------------------------
(* The calls of a text that grows.                                         *)

(* What the calls of a text are.                                           *)
CallsOf(kind, live, t) == Calls(kind, live, t).calls

(* The calls of a text are those of its first call and of its rest.        *)
LEMMA CallsOfIs ==
    ASSUME NEW kind \in Kinds, NEW live \in BOOLEAN, NEW t \in TextOf
    PROVE  /\ CallsOf(kind, live, t) \in Seq(Call)
           /\ NoCall(t) => CallsOf(kind, live, t) = <<>>
           /\ ~NoCall(t) => /\ CallRest(t) \in TextOf
                            /\ Len(CallRest(t)) < Len(t)
                            /\ CallOf(kind, Before(CallBody(t), CallEnd(t))) \in Seq(Call)
                            /\ CallsOf(kind, live, CallRest(t)) \in Seq(Call)
                            /\ CallsOf(kind, live, t) = CallOf(kind, Before(CallBody(t), CallEnd(t)))
                                                       \o CallsOf(kind, live, CallRest(t))
<1>1. Calls(kind, live, t) \in Cut /\ Calls(kind, live, t) = CallStep(kind, live, t, Calls(kind, live, CallRest(t)))
  BY CallsUnfold
<1>2. CallsOf(kind, live, t) \in Seq(Call)
  BY <1>1 DEF CallsOf, Cut
<1>3. ASSUME NoCall(t) PROVE CallsOf(kind, live, t) = <<>>
  <2>1. CallStep(kind, live, t, Calls(kind, live, CallRest(t))).calls = <<>>
    BY <1>3 DEF CallStep, NoCall, CallEnd, CallBody
  <2>. QED BY <1>1, <2>1 DEF CallsOf
<1>4. ASSUME ~NoCall(t)
      PROVE  /\ CallRest(t) \in TextOf
             /\ Len(CallRest(t)) < Len(t)
             /\ CallOf(kind, Before(CallBody(t), CallEnd(t))) \in Seq(Call)
             /\ CallsOf(kind, live, CallRest(t)) \in Seq(Call)
             /\ CallsOf(kind, live, t) = CallOf(kind, Before(CallBody(t), CallEnd(t)))
                                         \o CallsOf(kind, live, CallRest(t))
  <2>1. CallRest(t) \in TextOf /\ Before(CallBody(t), CallEnd(t)) \in TextOf /\ Len(CallRest(t)) < Len(t)
    BY <1>4, CallParts DEF NoCall
  <2>2. CallsOf(kind, live, CallRest(t)) \in Seq(Call)
    BY <2>1, CallsUnfold DEF CallsOf, Cut
  <2>3. CallStep(kind, live, t, Calls(kind, live, CallRest(t))).calls =
          CallOf(kind, Before(CallBody(t), CallEnd(t))) \o Calls(kind, live, CallRest(t)).calls
    BY <1>4 DEF CallStep, NoCall, CallEnd, CallBody
  <2>. QED BY <1>1, <2>1, <2>2, <2>3, CallOfIs DEF CallsOf
<1>. QED BY <1>2, <1>3, <1>4

(* A text that is growing has the same calls as one that is finished.      *)
LEMMA CallsLive ==
    ASSUME NEW kind \in Kinds, NEW t \in TextOf
    PROVE  CallsOf(kind, TRUE, t) = CallsOf(kind, FALSE, t)
<1>. DEFINE U == {s \in TextOf : CallsOf(kind, TRUE, s) = CallsOf(kind, FALSE, s)}
<1>1. ASSUME NEW s \in TextOf, \A r \in TextOf : Len(r) < Len(s) => r \in U PROVE s \in U
  <2>1. CASE NoCall(s)
    BY <2>1, CallsOfIs
  <2>2. CASE ~NoCall(s)
    <3>1. CallRest(s) \in U
      BY <1>1, <2>2, CallsOfIs
    <3>. QED BY <2>2, <3>1, CallsOfIs, ZenonT(60)
  <2>. QED BY <2>1, <2>2
<1>. HIDE DEF U
<1>2. TextOf \subseteq U
  BY <1>1, TextInduction
<1>. QED BY <1>2 DEF U

(* The parts of a call stay when the text grows.                           *)
LEMMA CallPartsStay ==
    ASSUME NEW t \in TextOf, NEW u \in TextOf, ~NoCall(t)
    PROVE  /\ ~NoCall(t \o u)
           /\ Before(CallBody(t \o u), CallEnd(t \o u)) = Before(CallBody(t), CallEnd(t))
           /\ CallRest(t \o u) = CallRest(t) \o u
<1>. DEFINE o == Find(t, CallOpen)
            after == After(t, o + 1)
            c == Find(after, CallClose)
<1>1. t \in Seq(Char) /\ u \in Seq(Char)
  BY TextIs
<1>2. o \in 1 .. Len(t) /\ o < Len(t) /\ Find(t \o u, CallOpen) = o
  BY <1>1, FindIs, FindExtends DEF NoCall
<1>3. c # 0
  BY DEF NoCall, CallEnd, CallBody
<1>. HIDE DEF o
<1>4. /\ o + 1 \in 0 .. Len(t)
      /\ after \in Seq(Char)
      /\ After(t \o u, o + 1) = after \o u
  <2>1. o + 1 \in 0 .. Len(t)
    BY <1>1, <1>2
  <2>. QED BY <1>1, <2>1, AfterIs, AfterConcat
<1>. HIDE DEF after
<1>5. c \in 0 .. Len(after) /\ c < Len(after) /\ Find(after \o u, CallClose) = c
  BY <1>1, <1>3, <1>4, FindIs, FindExtends
<1>. HIDE DEF c
<1>6. /\ Before(after \o u, c) = Before(after, c)
      /\ After(after \o u, c + 1) = After(after, c + 1) \o u
  <2>1. c \in 1 .. Len(after) + 1 /\ c + 1 \in 0 .. Len(after)
    BY <1>3, <1>4, <1>5
  <2>2. Before(after \o u, c) = Before(after, c)
    BY <1>1, <1>4, <2>1, BeforeConcat
  <2>3. After(after \o u, c + 1) = After(after, c + 1) \o u
    BY <1>1, <1>4, <2>1, AfterConcat
  <2>. QED BY <2>2, <2>3
<1>7. CallBody(t) = after /\ CallBody(t \o u) = after \o u /\ CallEnd(t) = c /\ CallEnd(t \o u) = c
  BY <1>2, <1>4, <1>5 DEF CallBody, CallEnd, o, after, c
<1>. QED BY <1>2, <1>3, <1>6, <1>7 DEF NoCall, CallRest

(* The calls of a text stay, in order, when it grows.                      *)
LEMMA CallsGrow ==
    ASSUME NEW kind \in Kinds, NEW live \in BOOLEAN, NEW t \in TextOf, NEW u \in TextOf
    PROVE  \E v \in Seq(Call) : CallsOf(kind, live, t \o u) = CallsOf(kind, live, t) \o v
<1>. DEFINE U == {s \in TextOf : \E v \in Seq(Call) : CallsOf(kind, live, s \o u) = CallsOf(kind, live, s) \o v}
<1>0. ASSUME NEW s \in TextOf PROVE s \o u \in TextOf
  BY TextIs, ConcatProperties
<1>1. ASSUME NEW s \in TextOf, \A r \in TextOf : Len(r) < Len(s) => r \in U PROVE s \in U
  <2>1. CASE NoCall(s)
    <3>1. CallsOf(kind, live, s \o u) \in Seq(Call) /\ CallsOf(kind, live, s) = <<>>
      BY <1>0, <2>1, CallsOfIs
    <3>. QED BY <3>1
  <2>2. CASE ~NoCall(s)
    <3>. DEFINE r == CallRest(s)
                first == CallOf(kind, Before(CallBody(s), CallEnd(s)))
    <3>1. r \in TextOf /\ Len(r) < Len(s) /\ first \in Seq(Call) /\ CallsOf(kind, live, r) \in Seq(Call)
          /\ CallsOf(kind, live, s) = first \o CallsOf(kind, live, r)
      BY <2>2, CallsOfIs
    <3>2. CallsOf(kind, live, s \o u) = first \o CallsOf(kind, live, r \o u)
      <4>1. /\ ~NoCall(s \o u) /\ CallRest(s \o u) = r \o u
            /\ Before(CallBody(s \o u), CallEnd(s \o u)) = Before(CallBody(s), CallEnd(s))
        BY <2>2, CallPartsStay
      <4>2. s \o u \in TextOf
        BY <1>0
      <4>3. CallsOf(kind, live, s \o u) = CallOf(kind, Before(CallBody(s \o u), CallEnd(s \o u)))
                                          \o CallsOf(kind, live, CallRest(s \o u))
        BY <4>1, <4>2, CallsOfIs
      <4>. QED BY <4>1, <4>3
    <3>. HIDE DEF r, first
    <3>3. PICK v \in Seq(Call) : CallsOf(kind, live, r \o u) = CallsOf(kind, live, r) \o v
      BY <1>1, <3>1
    <3>4. first \o (CallsOf(kind, live, r) \o v) = (first \o CallsOf(kind, live, r)) \o v
      BY <3>1, ConcatAssociative, SMTT(60)
    <3>. QED BY <3>1, <3>2, <3>3, <3>4
  <2>. QED BY <2>1, <2>2
<1>. HIDE DEF U
<1>2. TextOf \subseteq U
  BY <1>1, TextInduction
<1>. QED BY <1>2 DEF U

(* The beginning of a marker at the end of a text is no part of a call.    *)
LEMMA FindHeld ==
    ASSUME NEW t \in TextOf, NEW m, m[2] # "<"
    PROVE  Find(t \o <<"<">>, m) = Find(t, m)
<1>. DEFINE u == <<"<">>
            i == Find(t \o u, m)
<1>1. t \in Seq(Char) /\ u \in Seq(Char) /\ Len(u) = 1 /\ u[1] = "<"
  BY TextIs
<1>. HIDE DEF u
<1>2. t \o u \in Seq(Char) /\ Len(t \o u) = Len(t) + 1 /\ (t \o u)[Len(t) + 1] = "<"
  <2>1. /\ t \o u \in Seq(Char) /\ Len(t \o u) = Len(t) + Len(u)
        /\ \A j \in 1 .. Len(t) + Len(u) : (t \o u)[j] = IF j <= Len(t) THEN t[j] ELSE u[j - Len(t)]
    BY <1>1, ConcatProperties
  <2>2. Len(t) \in Nat /\ Len(t) + 1 \in 1 .. Len(t) + 1 /\ Len(t) + 1 - Len(t) = 1
    BY <1>1
  <2>. QED BY <1>1, <2>1, <2>2
<1>3. CASE Find(t, m) # 0
  BY <1>1, <1>3, FindExtends, ZenonT(60) DEF u
<1>4. CASE Find(t, m) = 0
  <2>1. i = 0 \/ i > Len(t) \/ i = Len(t)
    BY <1>1, <1>4, FindExtends
  <2>2. i \in 0 .. Len(t) + 1 /\ (i # 0 => i < Len(t) + 1 /\ Stands(t \o u, m, i))
    <3>. DEFINE x == t \o u
    <3>1. x \in Seq(Char) /\ Len(x) = Len(t) + 1
      BY <1>2
    <3>. HIDE DEF x
    <3>2. Find(x, m) \in 0 .. Len(x) /\ (Find(x, m) # 0 => Find(x, m) < Len(x) /\ Stands(x, m, Find(x, m)))
      BY <3>1, FindIs
    <3>. QED BY <3>1, <3>2 DEF x
  <2>. HIDE DEF i
  <2>3. ~(i = Len(t) /\ i # 0)
    BY <1>2, <2>2 DEF Stands
  <2>4. Len(t) \in Nat
    BY <1>1
  <2>5. i = 0
    BY <2>1, <2>2, <2>3, <2>4
  <2>. QED BY <1>4, <2>5 DEF i, u
<1>. QED BY <1>3, <1>4

(* Nor has it a call more with that character than without it.             *)
LEMMA CallsHeld ==
    ASSUME NEW kind \in Kinds, NEW live \in BOOLEAN, NEW t \in TextOf
    PROVE  CallsOf(kind, live, t \o <<"<">>) = CallsOf(kind, live, t)
<1>. DEFINE u == <<"<">>
            U == {s \in TextOf : CallsOf(kind, live, s \o u) = CallsOf(kind, live, s)}
<1>0. ASSUME NEW s \in TextOf PROVE s \o u \in TextOf
  BY TextIs, ConcatProperties
<1>5. u \in TextOf /\ CallOpen[2] # "<" /\ CallClose[2] # "<"
  BY TextIs DEF CallOpen, CallClose
<1>1. ASSUME NEW s \in TextOf, \A r \in TextOf : Len(r) < Len(s) => r \in U PROVE s \in U
  <2>1. CASE NoCall(s)
    <3>1. NoCall(s \o u)
      <4>1. Find(s \o u, CallOpen) = Find(s, CallOpen)
        BY <1>5, FindHeld
      <4>2. CASE Find(s, CallOpen) = 0
        BY <4>1, <4>2 DEF NoCall
      <4>3. CASE Find(s, CallOpen) # 0 /\ CallEnd(s) = 0
        <5>. DEFINE o == Find(s, CallOpen)
        <5>1. s \in Seq(Char) /\ u \in Seq(Char) /\ o \in 0 .. Len(s) /\ o < Len(s)
          BY <1>5, <4>3, TextIs, FindIs
        <5>. HIDE DEF o
        <5>2. o + 1 \in 0 .. Len(s)
          BY <5>1
        <5>3. After(s \o u, o + 1) = After(s, o + 1) \o u /\ After(s, o + 1) \in TextOf
          BY <5>1, <5>2, AfterConcat, AfterIs, TextIs
        <5>4. Find(After(s, o + 1) \o u, CallClose) = Find(After(s, o + 1), CallClose)
          BY <1>5, <5>3, FindHeld
        <5>5. CallEnd(s \o u) = CallEnd(s)
          BY <4>1, <5>3, <5>4 DEF CallEnd, CallBody, o
        <5>. QED BY <4>3, <5>5 DEF NoCall
      <4>. QED BY <2>1, <4>2, <4>3 DEF NoCall
    <3>2. s \o u \in TextOf
      BY <1>0
    <3>. HIDE DEF u
    <3>. QED BY <2>1, <3>1, <3>2, CallsOfIs
  <2>2. CASE ~NoCall(s)
    <3>. HIDE DEF u
    <3>1. CallRest(s) \in TextOf /\ Len(CallRest(s)) < Len(s)
      BY <2>2, CallsOfIs
    <3>2. CallsOf(kind, live, CallRest(s) \o u) = CallsOf(kind, live, CallRest(s))
      BY <1>1, <3>1
    <3>3. ~NoCall(s \o u) /\ CallRest(s \o u) = CallRest(s) \o u
          /\ Before(CallBody(s \o u), CallEnd(s \o u)) = Before(CallBody(s), CallEnd(s))
      BY <1>5, <2>2, CallPartsStay
    <3>4. s \o u \in TextOf
      BY <1>0
    <3>5. CallsOf(kind, live, s \o u) = CallOf(kind, Before(CallBody(s \o u), CallEnd(s \o u)))
                                        \o CallsOf(kind, live, CallRest(s \o u))
      BY <3>3, <3>4, CallsOfIs
    <3>6. CallsOf(kind, live, s) = CallOf(kind, Before(CallBody(s), CallEnd(s)))
                                   \o CallsOf(kind, live, CallRest(s))
      BY <2>2, CallsOfIs
    <3>. QED BY <3>2, <3>3, <3>5, <3>6
  <2>. QED BY <2>1, <2>2
<1>. HIDE DEF U
<1>2. TextOf \subseteq U
  BY <1>1, TextInduction
<1>. QED BY <1>2 DEF U

-----------------------------------------------------------------------------
(* The reasoning channels of a text.                                       *)

(* The content and the reasoning of a text.                                *)
Channel == [content : TextOf, reasoning : TextOf]

(* The parts of a text with a reasoning channel.                           *)
Opening(t)           == Find(t, ThinkOpen)
NameEnd(kind, t)     == IF kind = "gemma" THEN FindChar(After(t, Opening(t) + 1), "nl") ELSE 0
Window(kind, t)      == After(t, Opening(t) + 1 + NameEnd(kind, t))
Closing(kind, t)     == Find(Window(kind, t), ThinkClose)
ChannelRest(kind, t) == After(Window(kind, t), Closing(kind, t) + 1)

(* The first channel is the last thing that is cut out of t.               *)
Nameless(kind, live, t)  == live /\ kind = "gemma" /\ NameEnd(kind, t) = 0
NoChannel(kind, live, t) == Opening(t) = 0 \/ Nameless(kind, live, t) \/ Closing(kind, t) = 0

(* The channels of t, given those of the rest.                             *)
ChannelStep(kind, live, t, rest) ==
  LET o      == Find(t, ThinkOpen)
      line   == IF kind = "gemma" THEN FindChar(After(t, o + 1), "nl") ELSE 0
      window == After(t, o + 1 + line)
      c      == Find(window, ThinkClose)
  IN  IF o = 0 THEN [content |-> t, reasoning |-> <<>>]
      ELSE IF live /\ kind = "gemma" /\ line = 0
           THEN [content |-> Before(t, o), reasoning |-> <<>>]
      ELSE IF c = 0
           THEN [content |-> Before(t, o),
                 reasoning |-> IF live /\ kind = "gemma" THEN TrimEnd(window)
                               ELSE Trim(window)]
      ELSE [content   |-> Before(t, o) \o rest.content,
            reasoning |-> JoinBody(Trim(Before(window, c)), rest.reasoning)]

(* The step when there is no channel.                                      *)
LEMMA StepNone ==
    ASSUME NEW kind, NEW live, NEW t, NEW r, Opening(t) = 0
    PROVE  ChannelStep(kind, live, t, r) = [content |-> t, reasoning |-> <<>>]
BY DEF ChannelStep, Opening

(* The step when the channel has no name yet.                              *)
LEMMA StepNameless ==
    ASSUME NEW kind, NEW live, NEW t, NEW r, Opening(t) # 0, Nameless(kind, live, t)
    PROVE  ChannelStep(kind, live, t, r) = [content |-> Before(t, Opening(t)), reasoning |-> <<>>]
BY DEF ChannelStep, Opening, NameEnd, Nameless

(* The step when the channel is open: all that follows is reasoning.       *)
LastBody(kind, live, t) ==
  IF live /\ kind = "gemma" THEN TrimEnd(Window(kind, t)) ELSE Trim(Window(kind, t))

(* The step then.                                                          *)
LEMMA StepOpen ==
    ASSUME NEW kind, NEW live, NEW t, NEW r, Opening(t) # 0, ~Nameless(kind, live, t), Closing(kind, t) = 0
    PROVE  ChannelStep(kind, live, t, r) =
             [content |-> Before(t, Opening(t)), reasoning |-> LastBody(kind, live, t)]
BY DEF ChannelStep, Opening, NameEnd, Window, Closing, Nameless, LastBody

(* The step when it is closed: the reasoning is what stands in it.         *)
FirstBody(kind, t) == Trim(Before(Window(kind, t), Closing(kind, t)))

(* The step then.                                                          *)
LEMMA StepClosed ==
    ASSUME NEW kind, NEW live, NEW t, NEW r, ~NoChannel(kind, live, t)
    PROVE  ChannelStep(kind, live, t, r) =
             [content |-> Before(t, Opening(t)) \o r.content, reasoning |-> JoinBody(FirstBody(kind, t), r.reasoning)]
BY DEF ChannelStep, Opening, NameEnd, Window, Closing, Nameless, NoChannel, FirstBody

(* A text without a channel to cut out does not look at the rest.          *)
LEMMA ChannelStepEnds ==
    ASSUME NEW kind, NEW live, NEW t, NoChannel(kind, live, t), NEW r, NEW q
    PROVE  ChannelStep(kind, live, t, r) = ChannelStep(kind, live, t, q)
<1>1. CASE Opening(t) = 0
  BY <1>1, StepNone
<1>2. CASE Opening(t) # 0 /\ Nameless(kind, live, t)
  BY <1>2, StepNameless
<1>3. CASE Opening(t) # 0 /\ ~Nameless(kind, live, t) /\ Closing(kind, t) = 0
  BY <1>3, StepOpen
<1>. QED BY <1>1, <1>2, <1>3 DEF NoChannel

(* The parts are texts, and the rest is shorter.                           *)
LEMMA ChannelParts ==
    ASSUME NEW kind \in Kinds, NEW t \in TextOf, Opening(t) # 0
    PROVE  /\ Opening(t) \in 1 .. Len(t) /\ Opening(t) + 1 \in 0 .. Len(t)
           /\ Before(t, Opening(t)) \in TextOf
           /\ After(t, Opening(t) + 1) \in TextOf
           /\ NameEnd(kind, t) \in 0 .. Len(After(t, Opening(t) + 1))
           /\ Opening(t) + 1 + NameEnd(kind, t) \in 0 .. Len(t)
           /\ Window(kind, t) \in TextOf
           /\ Closing(kind, t) # 0 => /\ Closing(kind, t) \in 1 .. Len(Window(kind, t))
                                      /\ Closing(kind, t) + 1 \in 0 .. Len(Window(kind, t))
                                      /\ Before(Window(kind, t), Closing(kind, t)) \in TextOf
                                      /\ ChannelRest(kind, t) \in TextOf
                                      /\ Len(ChannelRest(kind, t)) < Len(t)
<1>. DEFINE o == Opening(t)
            line == NameEnd(kind, t)
            window == Window(kind, t)
            c == Closing(kind, t)
<1>1. t \in Seq(Char) /\ o \in 1 .. Len(t) /\ o < Len(t)
  <2>1. t \in Seq(Char)
    BY TextIs
  <2>. QED BY <2>1, FindIs DEF Opening
<1>2. Before(t, o) \in Seq(Char)
  <2>1. o \in 1 .. Len(t) + 1
    BY <1>1
  <2>. HIDE DEF o
  <2>. QED BY <1>1, <2>1, BeforeIs
<1>3. o + 1 \in 0 .. Len(t)
  <2>. HIDE DEF o
  <2>. QED BY <1>1
<1>4. After(t, o + 1) \in Seq(Char) /\ Len(After(t, o + 1)) = Len(t) - (o + 1)
  <2>. HIDE DEF o
  <2>. QED BY <1>1, <1>3, AfterIs
<1>5. line \in 0 .. Len(After(t, o + 1))
  <2>1. line = IF kind = "gemma" THEN FindChar(After(t, o + 1), "nl") ELSE 0
    BY DEF NameEnd
  <2>. HIDE DEF o, line
  <2>2. FindChar(After(t, o + 1), "nl") \in 0 .. Len(After(t, o + 1))
    BY <1>4, FindCharIs
  <2>3. 0 \in 0 .. Len(After(t, o + 1))
    BY <1>4
  <2>. QED BY <2>1, <2>2, <2>3
<1>6. o + 1 + line \in 0 .. Len(t)
  <2>. HIDE DEF o, line
  <2>. QED BY <1>1, <1>4, <1>5
<1>7. window \in Seq(Char) /\ Len(window) = Len(t) - (o + 1 + line)
  <2>1. window = After(t, o + 1 + line)
    BY DEF Window
  <2>. HIDE DEF o, line, window
  <2>. QED BY <1>1, <1>6, <2>1, AfterIs
<1>8. ASSUME c # 0
      PROVE  /\ c \in 1 .. Len(window) /\ c + 1 \in 0 .. Len(window)
             /\ Before(window, c) \in Seq(Char)
             /\ After(window, c + 1) \in Seq(Char)
             /\ Len(After(window, c + 1)) < Len(t)
  <2>1. c = Find(window, ThinkClose)
    BY DEF Closing
  <2>. HIDE DEF o, line, window, c
  <2>2. c \in 0 .. Len(window) /\ c < Len(window)
    BY <1>7, <1>8, <2>1, FindIs
  <2>3. c \in 1 .. Len(window) /\ c \in 1 .. Len(window) + 1 /\ c + 1 \in 0 .. Len(window)
    BY <1>7, <1>8, <2>2
  <2>4. Before(window, c) \in Seq(Char)
    BY <1>7, <2>3, BeforeIs
  <2>5. After(window, c + 1) \in Seq(Char) /\ Len(After(window, c + 1)) = Len(window) - (c + 1)
    BY <1>7, <2>3, AfterIs
  <2>6. Len(t) \in Nat /\ o \in Nat /\ line \in Nat /\ c \in Nat
    BY <1>1, <1>5, <2>3
  <2>. QED BY <1>7, <2>3, <2>4, <2>5, <2>6
<1>. QED BY <1>1, <1>2, <1>3, <1>4, <1>5, <1>6, <1>7, <1>8, TextIs DEF ChannelRest

(* Joined bodies are a text.                                               *)
LEMMA JoinIs ==
    ASSUME NEW a \in TextOf, NEW b \in TextOf
    PROVE  JoinBody(a, b) \in TextOf
<1>. DEFINE l == <<"nl">>
<1>1. a \in Seq(Char) /\ b \in Seq(Char) /\ l \in Seq(Char)
  BY TextIs DEF Char
<1>2. (a \o l) \o b \in Seq(Char)
  <2>. HIDE DEF l
  <2>1. a \o l \in Seq(Char)
    BY <1>1, ConcatProperties
  <2>. QED BY <1>1, <2>1, ConcatProperties
<1>. QED BY <1>2, TextIs DEF JoinBody

(* What a record of a content and reasoning is, and its content.           *)
LEMMA ChannelRecord ==
    ASSUME NEW c \in TextOf, NEW b \in TextOf
    PROVE  [content |-> c, reasoning |-> b] \in Channel
BY DEF Channel

(* The content of such a record.                                           *)
LEMMA ContentOfRecord ==
    ASSUME NEW c, NEW b
    PROVE  [content |-> c, reasoning |-> b].content = c
OBVIOUS

(* A step of the channels has a content and reasoning.                     *)
LEMMA ChannelStepIs ==
    ASSUME NEW kind \in Kinds, NEW live \in BOOLEAN, NEW t \in TextOf, NEW r \in Channel
    PROVE  ChannelStep(kind, live, t, r) \in Channel
<1>1. CASE Opening(t) = 0
  <2>1. <<>> \in TextOf
    BY TextIs
  <2>2. ChannelStep(kind, live, t, r) = [content |-> t, reasoning |-> <<>>]
    BY <1>1, StepNone
  <2>3. [content |-> t, reasoning |-> <<>>] \in Channel
    BY <2>1, ChannelRecord
  <2>. QED BY <2>2, <2>3, Zenon
<1>2. CASE Opening(t) # 0 /\ Nameless(kind, live, t)
  <2>1. Before(t, Opening(t)) \in TextOf
    BY <1>2, ChannelParts
  <2>2. <<>> \in TextOf
    BY TextIs
  <2>. QED BY <1>2, <2>1, <2>2, StepNameless, ChannelRecord, Zenon
<1>3. CASE Opening(t) # 0 /\ ~Nameless(kind, live, t) /\ Closing(kind, t) = 0
  <2>1. Before(t, Opening(t)) \in TextOf /\ Window(kind, t) \in Seq(Char)
    BY <1>3, ChannelParts, TextIs
  <2>2. TrimEnd(Window(kind, t)) \in TextOf /\ Trim(Window(kind, t)) \in TextOf
    BY <2>1, TrimIs, TextIs
  <2>3. LastBody(kind, live, t) \in TextOf
    BY <2>2 DEF LastBody
  <2>. QED BY <1>3, <2>1, <2>3, StepOpen, ChannelRecord, Zenon
<1>4. CASE ~NoChannel(kind, live, t)
  <2>1. Before(t, Opening(t)) \in Seq(Char) /\ Before(Window(kind, t), Closing(kind, t)) \in Seq(Char)
    BY <1>4, ChannelParts, TextIs DEF NoChannel
  <2>2. r.content \in Seq(Char) /\ r.reasoning \in TextOf
    BY TextIs DEF Channel
  <2>3. Before(t, Opening(t)) \o r.content \in TextOf
    BY <2>1, <2>2, ConcatProperties, TextIs
  <2>4. FirstBody(kind, t) \in TextOf
    BY <2>1, TrimIs, TextIs DEF FirstBody
  <2>5. JoinBody(FirstBody(kind, t), r.reasoning) \in TextOf
    BY <2>2, <2>4, JoinIs
  <2>6. ChannelStep(kind, live, t, r) =
          [content |-> Before(t, Opening(t)) \o r.content, reasoning |-> JoinBody(FirstBody(kind, t), r.reasoning)]
    BY <1>4, StepClosed
  <2>. QED BY <2>3, <2>5, <2>6, ChannelRecord, Zenon
<1>. QED BY <1>1, <1>2, <1>3, <1>4 DEF NoChannel

(* The recursion of Channels unfolds.                                      *)
LEMMA ChannelsUnfold ==
    ASSUME NEW kind \in Kinds, NEW live \in BOOLEAN, NEW t \in TextOf
    PROVE  /\ Channels(kind, live, t) \in Channel
           /\ Channels(kind, live, t) = ChannelStep(kind, live, t, Channels(kind, live, ChannelRest(kind, t)))
<1>. DEFINE Def(f) == f = [s \in TextOf |-> ChannelStep(kind, live, s, f[ChannelRest(kind, s)])]
            none == [content |-> <<>>, reasoning |-> <<>>]
            size == [s \in TextOf |-> Len(s)]
            next == [s \in TextOf |-> ChannelRest(kind, s)]
            base == {s \in TextOf : NoChannel(kind, live, s)}
            b == [s \in TextOf |-> ChannelStep(kind, live, s, none)]
            G == [x \in TextOf \X Channel |-> ChannelStep(kind, live, x[1], x[2])]
<1>1. none \in Channel
  BY TextIs DEF Channel
<1>2. size \in [TextOf -> Nat]
  BY TextIs
<1>3. b \in [TextOf -> Channel]
  BY <1>1, ChannelStepIs
<1>4. G \in [TextOf \X Channel -> Channel]
  <2>1. ASSUME NEW x \in TextOf \X Channel PROVE ChannelStep(kind, live, x[1], x[2]) \in Channel
    BY ChannelStepIs
  <2>. QED BY <2>1
<1>5. ASSUME NEW s \in TextOf, s \notin base PROVE next[s] \in TextOf /\ size[next[s]] < size[s]
  BY <1>5, ChannelParts DEF NoChannel
<1>6. PICK f \in [TextOf -> Channel] : Solves(f, TextOf, base, b, G, next)
  <2>. HIDE DEF size, next, base, b, G
  <2>. QED BY <1>2, <1>3, <1>4, <1>5, Recursion
<1>7. ASSUME NEW s \in TextOf PROVE f[s] = ChannelStep(kind, live, s, f[ChannelRest(kind, s)])
  <2>1. CASE NoChannel(kind, live, s)
    <3>1. f[s] = ChannelStep(kind, live, s, none)
      BY <1>6, <2>1 DEF Solves
    <3>. QED BY <2>1, <3>1, ChannelStepEnds
  <2>2. CASE ~NoChannel(kind, live, s)
    <3>1. ChannelRest(kind, s) \in TextOf /\ f[ChannelRest(kind, s)] \in Channel
      BY <2>2, ChannelParts DEF NoChannel
    <3>2. f[s] = G[<<s, f[next[s]]>>]
      BY <1>6, <2>2 DEF Solves
    <3>3. next[s] = ChannelRest(kind, s)
      OBVIOUS
    <3>4. <<s, f[ChannelRest(kind, s)]>> \in TextOf \X Channel
      BY <3>1
    <3>5. G[<<s, f[ChannelRest(kind, s)]>>] = ChannelStep(kind, live, s, f[ChannelRest(kind, s)])
      BY <3>4
    <3>. QED BY <3>2, <3>3, <3>5
  <2>. QED BY <2>1, <2>2
<1>8. Def(f)
  BY <1>7
<1>. DEFINE F == CHOOSE g : Def(g)
<1>9. \A s \in TextOf : Channels(kind, live, s) = F[s]
  BY DEF Channels, ChannelStep, ChannelRest, Window, NameEnd, Opening, Closing
<1>10. Def(F)
  BY <1>8
<1>. HIDE DEF F
<1>11. \A s \in TextOf : F[s] = ChannelStep(kind, live, s, F[ChannelRest(kind, s)])
  BY <1>10
<1>12. ASSUME NEW s \in TextOf, \A r \in TextOf : Len(r) < Len(s) => F[r] \in Channel PROVE F[s] \in Channel
  <2>1. CASE NoChannel(kind, live, s)
    <3>1. F[s] = ChannelStep(kind, live, s, none)
      BY <1>11, <2>1, ChannelStepEnds
    <3>. QED BY <1>1, <3>1, ChannelStepIs
  <2>2. CASE ~NoChannel(kind, live, s)
    <3>1. F[ChannelRest(kind, s)] \in Channel
      BY <1>12, <2>2, ChannelParts DEF NoChannel
    <3>. QED BY <1>11, <3>1, ChannelStepIs
  <2>. QED BY <2>1, <2>2
<1>13. \A s \in TextOf : F[s] \in Channel
  <2>. DEFINE U == {s \in TextOf : F[s] \in Channel}
  <2>1. \A s \in TextOf : (\A r \in TextOf : Len(r) < Len(s) => r \in U) => s \in U
    BY <1>12
  <2>. HIDE DEF U
  <2>2. TextOf \subseteq U
    BY <2>1, TextInduction
  <2>. QED BY <2>2 DEF U
<1>14. CASE NoChannel(kind, live, t)
  <2>1. ChannelStep(kind, live, t, F[ChannelRest(kind, t)]) =
        ChannelStep(kind, live, t, Channels(kind, live, ChannelRest(kind, t)))
    BY <1>14, ChannelStepEnds
  <2>. QED BY <1>9, <1>11, <1>13, <2>1
<1>15. CASE ~NoChannel(kind, live, t)
  <2>1. ChannelRest(kind, t) \in TextOf
    BY <1>15, ChannelParts DEF NoChannel
  <2>. QED BY <1>9, <1>11, <1>13, <2>1
<1>. QED BY <1>14, <1>15

(* The content, which is where the calls are looked for.                   *)
ContentOf(kind, live, t) == Channels(kind, live, t).content

(* It is what stands before the first channel, and the content of the      *)
(* rest.                                                                   *)
LEMMA ContentOfIs ==
    ASSUME NEW kind \in Kinds, NEW live \in BOOLEAN, NEW t \in TextOf
    PROVE  /\ ContentOf(kind, live, t) \in TextOf
           /\ Opening(t) = 0 => ContentOf(kind, live, t) = t
           /\ Opening(t) # 0 /\ NoChannel(kind, live, t) => ContentOf(kind, live, t) = Before(t, Opening(t))
           /\ ~NoChannel(kind, live, t) =>
                 ContentOf(kind, live, t) = Before(t, Opening(t)) \o ContentOf(kind, live, ChannelRest(kind, t))
<1>. DEFINE r == Channels(kind, live, ChannelRest(kind, t))
<1>1. Channels(kind, live, t) \in Channel /\ Channels(kind, live, t) = ChannelStep(kind, live, t, r)
  BY ChannelsUnfold
<1>2. ContentOf(kind, live, t) \in TextOf
  BY <1>1 DEF ContentOf, Channel
<1>. HIDE DEF r
<1>3. ASSUME Opening(t) = 0 PROVE ChannelStep(kind, live, t, r).content = t
  BY <1>3, StepNone
<1>4. ASSUME Opening(t) # 0, NoChannel(kind, live, t)
      PROVE  ChannelStep(kind, live, t, r).content = Before(t, Opening(t))
  <2>1. CASE Nameless(kind, live, t)
    BY <1>4, <2>1, StepNameless
  <2>2. CASE ~Nameless(kind, live, t) /\ Closing(kind, t) = 0
    BY <1>4, <2>2, StepOpen
  <2>. QED BY <1>4, <2>1, <2>2 DEF NoChannel
<1>5. ASSUME ~NoChannel(kind, live, t)
      PROVE  ChannelStep(kind, live, t, r).content = Before(t, Opening(t)) \o r.content
  <2>1. ChannelStep(kind, live, t, r) =
          [content |-> Before(t, Opening(t)) \o r.content, reasoning |-> JoinBody(FirstBody(kind, t), r.reasoning)]
    BY <1>5, StepClosed
  <2>. QED BY <2>1, ContentOfRecord, Zenon
<1>. QED BY <1>1, <1>2, <1>3, <1>4, <1>5 DEF ContentOf, r

-----------------------------------------------------------------------------
(* The content of a text that grows.                                       *)

(* A named channel stays where it is when the text grows.                  *)
LEMMA WindowGrows ==
    ASSUME NEW kind \in Kinds, NEW t \in TextOf, NEW u \in TextOf, Opening(t) # 0, ~Nameless(kind, TRUE, t)
    PROVE  /\ Opening(t \o u) = Opening(t)
           /\ ~Nameless(kind, TRUE, t \o u)
           /\ Before(t \o u, Opening(t)) = Before(t, Opening(t))
           /\ Window(kind, t \o u) = Window(kind, t) \o u
<1>. DEFINE o == Opening(t)
            named == After(t, o + 1)
            line == NameEnd(kind, t)
            window == Window(kind, t)
<1>1. t \in Seq(Char) /\ u \in Seq(Char)
  BY TextIs
<1>2. o # 0 /\ (kind = "gemma" => line # 0)
  BY DEF Nameless
<1>3. /\ o \in 1 .. Len(t) /\ o + 1 \in 0 .. Len(t) /\ named \in Seq(Char)
      /\ o + 1 + line \in 0 .. Len(t) /\ window \in Seq(Char)
  BY <1>2, ChannelParts, TextIs
<1>4. Opening(t \o u) = o
  BY <1>1, <1>2, FindExtends DEF Opening
<1>5. Before(t \o u, o) = Before(t, o)
  <2>. HIDE DEF o
  <2>1. o \in 1 .. Len(t) + 1
    BY <1>1, <1>3
  <2>. QED BY <1>1, <2>1, BeforeConcat
<1>6. After(t \o u, o + 1) = named \o u
  <2>. HIDE DEF o
  <2>. QED BY <1>1, <1>3, AfterConcat
<1>7. NameEnd(kind, t \o u) = line
  <2>1. CASE kind = "gemma"
    <3>1. line = FindChar(named, "nl") /\ NameEnd(kind, t \o u) = FindChar(named \o u, "nl")
      BY <1>4, <1>6, <2>1 DEF NameEnd
    <3>. HIDE DEF named, line
    <3>. QED BY <1>1, <1>2, <1>3, <2>1, <3>1, FindCharExtends
  <2>2. CASE kind # "gemma"
    BY <2>2 DEF NameEnd
  <2>. QED BY <2>1, <2>2
<1>8. Window(kind, t \o u) = window \o u
  <2>1. Window(kind, t \o u) = After(t \o u, o + 1 + line) /\ window = After(t, o + 1 + line)
    BY <1>4, <1>7 DEF Window
  <2>. HIDE DEF o, line, window
  <2>. QED BY <1>1, <1>3, <2>1, AfterConcat
<1>9. ~Nameless(kind, TRUE, t \o u)
  BY <1>2, <1>7 DEF Nameless
<1>. QED BY <1>4, <1>5, <1>8, <1>9

(* A closed one stays with its reasoning.                                  *)
LEMMA ChannelPartsStay ==
    ASSUME NEW kind \in Kinds, NEW t \in TextOf, NEW u \in TextOf, ~NoChannel(kind, TRUE, t)
    PROVE  /\ ~NoChannel(kind, TRUE, t \o u)
           /\ Before(t \o u, Opening(t \o u)) = Before(t, Opening(t))
           /\ FirstBody(kind, t \o u) = FirstBody(kind, t)
           /\ ChannelRest(kind, t \o u) = ChannelRest(kind, t) \o u
<1>. DEFINE window == Window(kind, t)
            c == Closing(kind, t)
<1>1. t \in Seq(Char) /\ u \in Seq(Char)
  BY TextIs
<1>2. Opening(t) # 0 /\ ~Nameless(kind, TRUE, t) /\ c # 0
  BY DEF NoChannel
<1>3. window \in Seq(Char) /\ c \in 1 .. Len(window) /\ c + 1 \in 0 .. Len(window)
  BY <1>2, ChannelParts, TextIs
<1>4. /\ Opening(t \o u) = Opening(t) /\ ~Nameless(kind, TRUE, t \o u)
      /\ Before(t \o u, Opening(t)) = Before(t, Opening(t)) /\ Window(kind, t \o u) = window \o u
  BY <1>2, WindowGrows
<1>5. Closing(kind, t \o u) = c
  <2>1. c = Find(window, ThinkClose) /\ Closing(kind, t \o u) = Find(window \o u, ThinkClose)
    BY <1>4 DEF Closing
  <2>. HIDE DEF window, c
  <2>. QED BY <1>1, <1>2, <1>3, <2>1, FindExtends
<1>6. ChannelRest(kind, t \o u) = ChannelRest(kind, t) \o u
  <2>1. ChannelRest(kind, t \o u) = After(window \o u, c + 1) /\ ChannelRest(kind, t) = After(window, c + 1)
    BY <1>4, <1>5 DEF ChannelRest
  <2>. HIDE DEF window, c
  <2>. QED BY <1>1, <1>3, <2>1, AfterConcat
<1>7. FirstBody(kind, t \o u) = FirstBody(kind, t)
  <2>1. FirstBody(kind, t \o u) = Trim(Before(window \o u, c)) /\ FirstBody(kind, t) = Trim(Before(window, c))
    BY <1>4, <1>5 DEF FirstBody
  <2>. HIDE DEF window, c
  <2>2. c \in 1 .. Len(window) + 1
    BY <1>3
  <2>. QED BY <1>1, <1>3, <2>1, <2>2, BeforeConcat
<1>8. ~NoChannel(kind, TRUE, t \o u)
  BY <1>2, <1>4, <1>5 DEF NoChannel
<1>. QED BY <1>4, <1>6, <1>7, <1>8

(* What stands before a position of what is added.                         *)
LEMMA BeforeConcatLate ==
    ASSUME NEW S, NEW t \in Seq(S), NEW u \in Seq(S), NEW i \in 1 .. Len(u) + 1
    PROVE  Before(t \o u, Len(t) + i) = t \o Before(u, i)
<1>1. /\ t \o u \in Seq(S) /\ Len(t \o u) = Len(t) + Len(u)
      /\ \A j \in 1 .. Len(t) + Len(u) : (t \o u)[j] = IF j <= Len(t) THEN t[j] ELSE u[j - Len(t)]
  BY ConcatProperties
<1>2. Before(u, i) \in Seq(S) /\ Len(Before(u, i)) = i - 1 /\ \A j \in 1 .. i - 1 : Before(u, i)[j] = u[j]
  BY BeforeIs
<1>. DEFINE x == t \o u
            d == Before(u, i)
            y == t \o d
            m == Len(t) + i
<1>3. /\ y \in Seq(S) /\ Len(y) = Len(t) + (i - 1)
      /\ \A j \in 1 .. Len(t) + (i - 1) : y[j] = IF j <= Len(t) THEN t[j] ELSE d[j - Len(t)]
  <2>1. d \in Seq(S) /\ Len(d) = i - 1
    BY <1>2
  <2>. HIDE DEF d
  <2>2. /\ y \in Seq(S) /\ Len(y) = Len(t) + Len(d)
        /\ \A j \in 1 .. Len(t) + Len(d) : y[j] = IF j <= Len(t) THEN t[j] ELSE d[j - Len(t)]
    BY <2>1, ConcatProperties
  <2>. QED BY <2>1, <2>2
<1>. HIDE DEF x, y, m
<1>4. Len(t) \in Nat /\ Len(u) \in Nat /\ i \in Nat
  OBVIOUS
<1>5. x \in Seq(S) /\ Len(x) = Len(t) + Len(u)
  BY <1>1 DEF x
<1>6. m \in 1 .. Len(x) + 1 /\ m - 1 = Len(t) + (i - 1)
  BY <1>4, <1>5 DEF m
<1>7. /\ Before(x, m) \in Seq(S) /\ Len(Before(x, m)) = m - 1
      /\ \A j \in 1 .. m - 1 : Before(x, m)[j] = x[j]
  BY <1>5, <1>6, BeforeIs
<1>8. ASSUME NEW j \in 1 .. m - 1 PROVE Before(x, m)[j] = y[j]
  <2>1. j \in 1 .. Len(t) + Len(u) /\ j \in 1 .. Len(t) + (i - 1)
    BY <1>4, <1>6
  <2>2. x[j] = IF j <= Len(t) THEN t[j] ELSE u[j - Len(t)]
    BY <1>1, <2>1 DEF x
  <2>3. CASE j <= Len(t)
    BY <1>3, <1>7, <2>1, <2>2, <2>3
  <2>4. CASE ~(j <= Len(t))
    <3>1. j - Len(t) \in 1 .. i - 1
      <4>1. j \in Nat /\ j <= Len(t) + (i - 1) /\ j > Len(t)
        BY <1>4, <2>1, <2>4
      <4>. QED BY <1>4, <4>1
    <3>. QED BY <1>2, <1>3, <1>7, <2>1, <2>2, <2>4, <3>1
  <2>. QED BY <2>3, <2>4
<1>10. Before(x, m) = y
  BY <1>3, <1>6, <1>7, <1>8, SeqEqual
<1>. QED BY <1>10 DEF x, y, m, d

(* What stands before a channel is content.                                *)
LEMMA ContentBegins ==
    ASSUME NEW kind \in Kinds, NEW live \in BOOLEAN, NEW t \in TextOf, Opening(t) # 0
    PROVE  /\ Before(t, Opening(t)) \in TextOf
           /\ \E v \in TextOf : ContentOf(kind, live, t) = Before(t, Opening(t)) \o v
<1>1. Before(t, Opening(t)) \in TextOf
  BY ChannelParts
<1>2. CASE NoChannel(kind, live, t)
  <2>1. <<>> \in TextOf /\ Before(t, Opening(t)) \o <<>> = Before(t, Opening(t))
    BY <1>1, TextIs, ConcatEmptySeq
  <2>2. ContentOf(kind, live, t) = Before(t, Opening(t))
    BY <1>2, ContentOfIs
  <2>. QED BY <1>1, <2>1, <2>2, Zenon
<1>3. CASE ~NoChannel(kind, live, t)
  <2>1. ContentOf(kind, live, ChannelRest(kind, t)) \in TextOf
    BY <1>3, ChannelParts, ContentOfIs DEF NoChannel
  <2>2. ContentOf(kind, live, t) = Before(t, Opening(t)) \o ContentOf(kind, live, ChannelRest(kind, t))
    BY <1>3, ContentOfIs
  <2>. QED BY <1>1, <2>1, <2>2, Zenon
<1>. QED BY <1>2, <1>3

(* What the content of the streaming parse says of a text that grows: it   *)
(* grows too, but for the beginning of a marker at the end.                *)
Grows(kind, t, u) ==
  \E w, v \in TextOf : /\ ContentOf(kind, TRUE, t \o u) = w \o v
                       /\ ContentOf(kind, TRUE, t) = w \/ ContentOf(kind, TRUE, t) = w \o <<"<">>

(* A text that ends with the first character of a marker.                  *)
LEMMA LastHeld ==
    ASSUME NEW t \in TextOf, Len(t) > 0, t[Len(t)] = "<"
    PROVE  Before(t, Len(t)) \in TextOf /\ t = Before(t, Len(t)) \o <<"<">>
<1>1. t \in Seq(Char) /\ Len(t) \in 1 .. Len(t) + 1 /\ Len(t) \in Nat
  BY TextIs
<1>2. /\ Before(t, Len(t)) \in Seq(Char) /\ Len(Before(t, Len(t))) = Len(t) - 1
      /\ \A j \in 1 .. Len(t) - 1 : Before(t, Len(t))[j] = t[j]
  BY <1>1, BeforeIs
<1>. DEFINE b == Before(t, Len(t))
            l == <<"<">>
            x == b \o l
<1>3. l \in Seq(Char) /\ Len(l) = 1 /\ l[1] = "<"
  BY TextIs
<1>. HIDE DEF b, l
<1>4. /\ x \in Seq(Char) /\ Len(x) = Len(b) + Len(l)
      /\ \A j \in 1 .. Len(b) + Len(l) : x[j] = IF j <= Len(b) THEN b[j] ELSE l[j - Len(b)]
  BY <1>2, <1>3, ConcatProperties DEF b
<1>. HIDE DEF x
<1>5. Len(b) = Len(t) - 1 /\ Len(x) = Len(t)
  BY <1>1, <1>2, <1>3, <1>4 DEF b
<1>6. ASSUME NEW j \in 1 .. Len(t) PROVE x[j] = t[j]
  <2>1. CASE j <= Len(t) - 1
    BY <1>1, <1>2, <1>3, <1>4, <1>5, <2>1 DEF b
  <2>2. CASE j = Len(t)
    BY <1>1, <1>3, <1>4, <1>5, <2>2
  <2>. QED BY <1>1, <2>1, <2>2
<1>7. x = t
  BY <1>1, <1>4, <1>5, <1>6, SeqEqual
<1>. QED BY <1>2, <1>7, TextIs DEF x, b, l

(* Growth when no channel has been opened.                                 *)
LEMMA GrowsUnopened ==
    ASSUME NEW kind \in Kinds, NEW t \in TextOf, NEW u \in TextOf, Opening(t) = 0
    PROVE  Grows(kind, t, u)
<1>. DEFINE x == t \o u
            o == Opening(x)
<1>1. t \in Seq(Char) /\ u \in Seq(Char) /\ x \in TextOf /\ x \in Seq(Char) /\ Len(x) = Len(t) + Len(u)
  BY TextIs, ConcatProperties
<1>2. ContentOf(kind, TRUE, t) = t
  BY ContentOfIs
<1>3. \/ o = 0 \/ o > Len(t)
      \/ o = Len(t) /\ Len(t) > 0 /\ t[Len(t)] = "<"
  BY <1>1, FindExtends DEF Opening, ThinkOpen
<1>4. CASE o = 0
  <2>1. ContentOf(kind, TRUE, x) = x
    <3>. HIDE DEF x
    <3>. QED BY <1>1, <1>4, ContentOfIs
  <2>. QED BY <1>2, <2>1 DEF Grows
<1>5. CASE o > Len(t)
  <2>1. o \in 1 .. Len(x) /\ o # 0
    <3>. HIDE DEF x
    <3>1. o \in 0 .. Len(x) /\ Len(t) \in Nat
      BY <1>1, FindIs DEF Opening
    <3>. QED BY <1>5, <3>1
  <2>2. Before(x, o) = t \o Before(u, o - Len(t)) /\ Before(u, o - Len(t)) \in TextOf
    <3>. DEFINE i == o - Len(t)
    <3>1. i \in 1 .. Len(u) + 1 /\ o = Len(t) + i
      <4>1. Len(t) \in Nat /\ Len(u) \in Nat
        BY <1>1
      <4>. HIDE DEF o, x
      <4>. QED BY <1>1, <1>5, <2>1, <4>1
    <3>. HIDE DEF i, o
    <3>2. Before(u, i) \in Seq(Char)
      BY <1>1, <3>1, BeforeIs
    <3>3. Before(t \o u, Len(t) + i) = t \o Before(u, i)
      BY <1>1, <3>1, BeforeConcatLate, ZenonT(60)
    <3>. QED BY <3>1, <3>2, <3>3, TextIs DEF i
  <2>3. PICK z \in TextOf : ContentOf(kind, TRUE, x) = Before(x, o) \o z
    <3>. HIDE DEF x
    <3>. QED BY <1>1, <2>1, ContentBegins
  <2>. DEFINE y == Before(u, o - Len(t))
  <2>4. (t \o y) \o z = t \o (y \o z) /\ y \o z \in TextOf
    <3>1. y \in Seq(Char) /\ z \in Seq(Char)
      BY <2>2, <2>3, TextIs
    <3>. HIDE DEF y
    <3>. QED BY <1>1, <3>1, ConcatAssociative, ConcatProperties, TextIs, SMTT(60)
  <2>5. ContentOf(kind, TRUE, t \o u) = t \o (y \o z)
    BY <2>2, <2>3, <2>4
  <2>. HIDE DEF y
  <2>. QED BY <1>2, <2>4, <2>5, Zenon DEF Grows
<1>6. CASE o = Len(t) /\ Len(t) > 0 /\ t[Len(t)] = "<"
  <2>1. Before(t, Len(t)) \in TextOf /\ t = Before(t, Len(t)) \o <<"<">>
    BY <1>6, LastHeld
  <2>2. Before(x, o) = Before(t, Len(t))
    <3>1. Len(t) \in 1 .. Len(t) + 1
      BY <1>1, <1>6
    <3>. QED BY <1>1, <1>6, <3>1, BeforeConcat
  <2>3. PICK z \in TextOf : ContentOf(kind, TRUE, x) = Before(x, o) \o z
    <3>1. o # 0
      BY <1>6
    <3>. HIDE DEF x
    <3>. QED BY <1>1, <3>1, ContentBegins
  <2>. DEFINE w == Before(t, Len(t))
  <2>4. ContentOf(kind, TRUE, t \o u) = w \o z /\ ContentOf(kind, TRUE, t) = w \o <<"<">> /\ w \in TextOf
    BY <1>2, <2>1, <2>2, <2>3
  <2>. HIDE DEF w
  <2>. QED BY <2>3, <2>4, Zenon DEF Grows
<1>. QED BY <1>3, <1>4, <1>5, <1>6

(* Growth when one has been opened and not closed.                         *)
LEMMA GrowsUnclosed ==
    ASSUME NEW kind \in Kinds, NEW t \in TextOf, NEW u \in TextOf, Opening(t) # 0, NoChannel(kind, TRUE, t)
    PROVE  Grows(kind, t, u)
<1>. DEFINE x == t \o u
<1>1. t \in Seq(Char) /\ u \in Seq(Char) /\ x \in TextOf
  BY TextIs, ConcatProperties
<1>2. Opening(x) = Opening(t)
  BY <1>1, FindExtends DEF Opening
<1>3. Before(x, Opening(x)) = Before(t, Opening(t))
  <2>1. Opening(t) \in 1 .. Len(t) + 1
    <3>1. Opening(t) \in 1 .. Len(t) /\ Len(t) \in Nat
      BY <1>1, ChannelParts
    <3>. QED BY <3>1
  <2>. QED BY <1>1, <1>2, <2>1, BeforeConcat
<1>. HIDE DEF x
<1>4. PICK z \in TextOf : ContentOf(kind, TRUE, x) = Before(x, Opening(x)) \o z
  BY <1>1, <1>2, ContentBegins
<1>5. ContentOf(kind, TRUE, t) = Before(t, Opening(t)) /\ Before(t, Opening(t)) \in TextOf
  BY ContentOfIs, ChannelParts
<1>. QED BY <1>3, <1>4, <1>5, Zenon DEF Grows, x

(* Growth of any text, by induction on what is left after a channel.       *)
LEMMA ContentGrows ==
    ASSUME NEW kind \in Kinds, NEW t \in TextOf, NEW u \in TextOf
    PROVE  Grows(kind, t, u)
<1>. DEFINE U == {s \in TextOf : Grows(kind, s, u)}
<1>1. ASSUME NEW s \in TextOf, \A r \in TextOf : Len(r) < Len(s) => r \in U PROVE s \in U
  <2>1. CASE Opening(s) = 0
    BY <2>1, GrowsUnopened
  <2>2. CASE Opening(s) # 0 /\ NoChannel(kind, TRUE, s)
    BY <2>2, GrowsUnclosed
  <2>3. CASE ~NoChannel(kind, TRUE, s)
    <3>. DEFINE r == ChannelRest(kind, s)
                b == Before(s, Opening(s))
                x == s \o u
    <3>1. r \in TextOf /\ Len(r) < Len(s) /\ b \in TextOf
      BY <2>3, ChannelParts DEF NoChannel
    <3>2. /\ ~NoChannel(kind, TRUE, x) /\ Before(x, Opening(x)) = b
          /\ ChannelRest(kind, x) = r \o u
      BY <2>3, ChannelPartsStay
    <3>3. x \in TextOf
      BY TextIs, ConcatProperties
    <3>4. ContentOf(kind, TRUE, s) = b \o ContentOf(kind, TRUE, r)
      BY <2>3, ContentOfIs
    <3>5. ContentOf(kind, TRUE, x) = b \o ContentOf(kind, TRUE, r \o u)
      <4>. HIDE DEF x
      <4>1. ContentOf(kind, TRUE, x) = Before(x, Opening(x)) \o ContentOf(kind, TRUE, ChannelRest(kind, x))
        BY <3>2, <3>3, ContentOfIs
      <4>. QED BY <3>2, <4>1
    <3>. HIDE DEF r, b
    <3>6. Grows(kind, r, u)
      BY <1>1, <3>1
    <3>7. PICK w \in TextOf, v \in TextOf :
              /\ ContentOf(kind, TRUE, r \o u) = w \o v
              /\ ContentOf(kind, TRUE, r) = w \/ ContentOf(kind, TRUE, r) = w \o <<"<">>
      BY <3>6 DEF Grows
    <3>8. /\ b \o w \in TextOf /\ b \o (w \o v) = (b \o w) \o v
          /\ b \o (w \o <<"<">>) = (b \o w) \o <<"<">>
      <4>1. b \in Seq(Char) /\ w \in Seq(Char) /\ v \in Seq(Char) /\ <<"<">> \in Seq(Char)
        BY <3>1, <3>7, TextIs
      <4>2. b \o w \in Seq(Char)
        BY <4>1, ConcatProperties
      <4>3. b \o (w \o v) = (b \o w) \o v
        BY <4>1, ConcatAssociative, SMTT(60)
      <4>4. b \o (w \o <<"<">>) = (b \o w) \o <<"<">>
        BY <4>1, ConcatAssociative
      <4>. QED BY <4>2, <4>3, <4>4, TextIs
    <3>9. ContentOf(kind, TRUE, s \o u) = (b \o w) \o v
      BY <3>5, <3>7, <3>8
    <3>10. ContentOf(kind, TRUE, s) = b \o w \/ ContentOf(kind, TRUE, s) = (b \o w) \o <<"<">>
      BY <3>4, <3>7, <3>8
    <3>11. Grows(kind, s, u)
      BY <3>7, <3>8, <3>9, <3>10, Zenon DEF Grows
    <3>. QED BY <3>11
  <2>. QED BY <2>1, <2>2, <2>3
<1>. HIDE DEF U
<1>2. TextOf \subseteq U
  BY <1>1, TextInduction
<1>. QED BY <1>2 DEF U

-----------------------------------------------------------------------------
(* The two parses: of a stream, and of a finished answer.                  *)

(* The content of the parse of a finished answer begins with that of the   *)
(* streaming one.                                                          *)
Fuller(kind, t) == \E v \in TextOf : ContentOf(kind, FALSE, t) = ContentOf(kind, TRUE, t) \o v

(* The two parses cut the same channels out but for one without a name.    *)
LEMMA SameChannels ==
    ASSUME NEW kind, NEW t, ~Nameless(kind, TRUE, t)
    PROVE  NoChannel(kind, FALSE, t) <=> NoChannel(kind, TRUE, t)
BY DEF NoChannel, Nameless

(* Where neither cuts one out, they agree.                                 *)
LEMMA ContentSame ==
    ASSUME NEW kind \in Kinds, NEW t \in TextOf, NoChannel(kind, TRUE, t),
           Opening(t) = 0 \/ ~Nameless(kind, TRUE, t)
    PROVE  ContentOf(kind, FALSE, t) = ContentOf(kind, TRUE, t)
<1>1. CASE Opening(t) = 0
  BY <1>1, ContentOfIs
<1>2. CASE Opening(t) # 0
  <2>1. NoChannel(kind, FALSE, t)
    BY <1>2, SameChannels
  <2>. QED BY <1>2, <2>1, ContentOfIs
<1>. QED BY <1>1, <1>2

(* Where they differ, the parse of a finished answer has the text that the *)
(* streaming one withholds.                                                *)
LEMMA ContentFuller ==
    ASSUME NEW kind \in Kinds, NEW t \in TextOf
    PROVE  Fuller(kind, t)
<1>. DEFINE U == {s \in TextOf : Fuller(kind, s)}
<1>1. ASSUME NEW s \in TextOf, \A r \in TextOf : Len(r) < Len(s) => r \in U PROVE s \in U
  <2>1. CASE Opening(s) # 0 /\ Nameless(kind, TRUE, s)
    <3>1. ContentOf(kind, TRUE, s) = Before(s, Opening(s))
      BY <2>1, ContentOfIs DEF NoChannel
    <3>2. PICK v \in TextOf : ContentOf(kind, FALSE, s) = Before(s, Opening(s)) \o v
      BY <2>1, ContentBegins
    <3>3. Fuller(kind, s)
      BY <3>1, <3>2 DEF Fuller
    <3>. QED BY <3>3
  <2>2. CASE NoChannel(kind, TRUE, s) /\ (Opening(s) = 0 \/ ~Nameless(kind, TRUE, s))
    <3>1. ContentOf(kind, FALSE, s) = ContentOf(kind, TRUE, s) /\ ContentOf(kind, TRUE, s) \in Seq(Char)
      BY <2>2, ContentSame, ContentOfIs, TextIs
    <3>2. ContentOf(kind, TRUE, s) = ContentOf(kind, TRUE, s) \o <<>>
      BY <3>1, ConcatEmptySeq
    <3>3. <<>> \in TextOf
      BY TextIs
    <3>. QED BY <3>1, <3>2, <3>3 DEF Fuller
  <2>3. CASE ~NoChannel(kind, TRUE, s)
    <3>. DEFINE r == ChannelRest(kind, s)
                b == Before(s, Opening(s))
    <3>1. r \in TextOf /\ Len(r) < Len(s) /\ b \in TextOf
      BY <2>3, ChannelParts DEF NoChannel
    <3>2. ~NoChannel(kind, FALSE, s)
      BY <2>3, SameChannels DEF NoChannel
    <3>3. ContentOf(kind, TRUE, s) = b \o ContentOf(kind, TRUE, r) /\ ContentOf(kind, FALSE, s) = b \o ContentOf(kind, FALSE, r)
      BY <2>3, <3>2, ContentOfIs
    <3>. HIDE DEF r, b
    <3>4. PICK v \in TextOf : ContentOf(kind, FALSE, r) = ContentOf(kind, TRUE, r) \o v
      BY <1>1, <3>1 DEF Fuller
    <3>5. b \o (ContentOf(kind, TRUE, r) \o v) = (b \o ContentOf(kind, TRUE, r)) \o v
      <4>. DEFINE c == ContentOf(kind, TRUE, r)
      <4>1. b \in Seq(Char) /\ c \in Seq(Char) /\ v \in Seq(Char)
        BY <3>1, <3>4, ContentOfIs, TextIs
      <4>. HIDE DEF c
      <4>2. b \o (c \o v) = (b \o c) \o v
        BY <4>1, ConcatAssociative, SMTT(60)
      <4>. QED BY <4>2 DEF c
    <3>6. Fuller(kind, s)
      BY <3>3, <3>4, <3>5 DEF Fuller
    <3>. QED BY <3>6
  <2>4. \/ Opening(s) # 0 /\ Nameless(kind, TRUE, s)
        \/ NoChannel(kind, TRUE, s) /\ (Opening(s) = 0 \/ ~Nameless(kind, TRUE, s))
        \/ ~NoChannel(kind, TRUE, s)
    BY DEF NoChannel
  <2>. QED BY <2>1, <2>2, <2>3, <2>4
<1>. HIDE DEF U
<1>2. TextOf \subseteq U
  BY <1>1, TextInduction
<1>. QED BY <1>2 DEF U

(* Every channel is closed and, for Gemma, has a name.                     *)
Closed(kind, t) ==
  \A i \in Occurs(t, ThinkOpen) : \E k \in Occurs(t, ThinkClose) :
    i < k /\ (kind = "gemma" => \E j \in i .. k : t[j] = "nl")

(* Where a marker occurs.                                                  *)
LEMMA OccursIs ==
    ASSUME NEW t \in TextOf, NEW m
    PROVE  \A i : i \in Occurs(t, m) <=> i \in 1 .. Len(t) /\ i < Len(t) /\ Stands(t, m, i)
BY TextIs DEF Occurs, Stands

(* A channel of such a text is not nameless.                               *)
LEMMA ClosedNamed ==
    ASSUME NEW kind \in Kinds, NEW t \in TextOf, Closed(kind, t), Opening(t) # 0
    PROVE  ~Nameless(kind, TRUE, t)
<1>. DEFINE o == Opening(t)
            named == After(t, o + 1)
<1>1. t \in Seq(Char) /\ o \in 1 .. Len(t) /\ o < Len(t) /\ Stands(t, ThinkOpen, o)
  BY TextIs, FindIs DEF Opening
<1>. SUFFICES ASSUME kind = "gemma", FindChar(named, "nl") = 0 PROVE FALSE
  BY DEF Nameless, NameEnd
<1>2. o \in Occurs(t, ThinkOpen)
  <2>. HIDE DEF o
  <2>. QED BY <1>1, OccursIs
<1>3. PICK k \in Occurs(t, ThinkClose) : o < k /\ \E j \in o .. k : t[j] = "nl"
  BY <1>2 DEF Closed
<1>4. PICK j \in o .. k : t[j] = "nl"
  BY <1>3
<1>5. k \in 1 .. Len(t)
  BY OccursIs
<1>6. t[o] = "<" /\ t[o + 1] = "think"
  BY <1>1 DEF Stands, ThinkOpen
<1>. HIDE DEF o
<1>7. j # o /\ j # o + 1
  BY <1>4, <1>6
<1>8. j \in 1 .. Len(t) /\ j > o + 1 /\ o + 1 \in 0 .. Len(t) /\ j - (o + 1) \in 1 .. Len(t) - (o + 1)
  BY <1>1, <1>4, <1>5, <1>7
<1>9. /\ named \in Seq(Char) /\ Len(named) = Len(t) - (o + 1)
      /\ \A i \in 1 .. Len(t) - (o + 1) : named[i] = t[o + 1 + i]
  BY <1>1, <1>8, AfterIs
<1>. HIDE DEF named
<1>10. o + 1 + (j - (o + 1)) = j
  BY <1>1, <1>8
<1>11. named[j - (o + 1)] = "nl"
  BY <1>4, <1>8, <1>9, <1>10
<1>. QED BY <1>8, <1>9, <1>11, FindCharIs

(* A text of that kind has a rest of that kind.                            *)
LEMMA ClosedSuffix ==
    ASSUME NEW kind \in Kinds, NEW t \in TextOf, Closed(kind, t), NEW d \in 0 .. Len(t)
    PROVE  Closed(kind, After(t, d))
<1>. DEFINE r == After(t, d)
<1>1. t \in Seq(Char) /\ d \in Nat /\ Len(t) \in Nat
  BY TextIs
<1>2. /\ r \in Seq(Char) /\ Len(r) = Len(t) - d
      /\ \A i \in 1 .. Len(t) - d : r[i] = t[d + i]
  BY <1>1, AfterIs
<1>3. r \in TextOf
  BY <1>2, TextIs
<1>. HIDE DEF r
<1>4. ASSUME NEW i \in Occurs(r, ThinkOpen)
      PROVE  \E k \in Occurs(r, ThinkClose) : i < k /\ (kind = "gemma" => \E j \in i .. k : r[j] = "nl")
  <2>1. i \in 1 .. Len(r) /\ i < Len(r) /\ Stands(r, ThinkOpen, i)
    BY <1>3, OccursIs
  <2>2. r[i] = t[d + i] /\ r[i + 1] = t[d + i + 1]
    BY <1>1, <1>2, <2>1, SMTT(60)
  <2>3. d + i \in Occurs(t, ThinkOpen)
    <3>1. d + i \in 1 .. Len(t) /\ d + i < Len(t) /\ Stands(t, ThinkOpen, d + i)
      BY <1>1, <1>2, <2>1, <2>2, SMTT(60) DEF Stands
    <3>. QED BY <3>1, OccursIs
  <2>4. PICK k \in Occurs(t, ThinkClose) : d + i < k /\ (kind = "gemma" => \E j \in d + i .. k : t[j] = "nl")
    BY <2>3 DEF Closed
  <2>5. k \in 1 .. Len(t) /\ k < Len(t) /\ Stands(t, ThinkClose, k)
    BY OccursIs
  <2>6. k - d \in 1 .. Len(r) /\ k - d < Len(r) /\ i < k - d /\ d + (k - d) = k /\ d + (k - d + 1) = k + 1
    BY <1>1, <1>2, <2>1, <2>4, <2>5
  <2>7. r[k - d] = t[k] /\ r[k - d + 1] = t[k + 1]
    <3>1. k - d \in 1 .. Len(t) - d /\ k - d + 1 \in 1 .. Len(t) - d
      BY <1>1, <1>2, <2>6
    <3>2. r[k - d] = t[d + (k - d)] /\ r[k - d + 1] = t[d + (k - d + 1)]
      BY <1>2, <3>1
    <3>. QED BY <2>6, <3>2
  <2>8. k - d \in Occurs(r, ThinkClose)
    <3>1. Stands(r, ThinkClose, k - d)
      BY <2>5, <2>7 DEF Stands
    <3>. QED BY <1>3, <2>6, <3>1, OccursIs
  <2>9. ASSUME kind = "gemma" PROVE \E j \in i .. k - d : r[j] = "nl"
    <3>1. PICK j \in d + i .. k : t[j] = "nl"
      BY <2>4, <2>9
    <3>2. j - d \in i .. k - d /\ j - d \in 1 .. Len(t) - d /\ d + (j - d) = j
      BY <1>1, <1>2, <2>1, <2>5
    <3>3. r[j - d] = "nl"
      BY <1>2, <3>1, <3>2
    <3>. QED BY <3>2, <3>3
  <2>. QED BY <2>6, <2>8, <2>9
<1>5. Closed(kind, r)
  BY <1>4 DEF Closed
<1>. QED BY <1>5 DEF r

(* So the rest of a text whose channels are closed is one.                 *)
LEMMA ClosedRest ==
    ASSUME NEW kind \in Kinds, NEW t \in TextOf, Closed(kind, t), ~NoChannel(kind, TRUE, t)
    PROVE  Closed(kind, ChannelRest(kind, t))
<1>. DEFINE d == Opening(t) + 1 + NameEnd(kind, t)
            window == Window(kind, t)
            e == Closing(kind, t) + 1
<1>1. d \in 0 .. Len(t) /\ e \in 0 .. Len(window) /\ window = After(t, d)
  BY ChannelParts DEF NoChannel, Window
<1>2. ChannelRest(kind, t) = After(window, e)
  BY DEF ChannelRest
<1>. HIDE DEF d, window, e
<1>3. window \in TextOf /\ Closed(kind, window)
  BY <1>1, ClosedSuffix, AfterIs, TextIs
<1>. QED BY <1>1, <1>2, <1>3, ClosedSuffix

(* The content of such a text is the same in both parses.                  *)
LEMMA ContentClosed ==
    ASSUME NEW kind \in Kinds, NEW t \in TextOf, Closed(kind, t)
    PROVE  ContentOf(kind, FALSE, t) = ContentOf(kind, TRUE, t)
<1>. DEFINE U == {s \in TextOf : Closed(kind, s) => ContentOf(kind, FALSE, s) = ContentOf(kind, TRUE, s)}
<1>1. ASSUME NEW s \in TextOf, \A r \in TextOf : Len(r) < Len(s) => r \in U PROVE s \in U
  <2>. SUFFICES ASSUME Closed(kind, s) PROVE ContentOf(kind, FALSE, s) = ContentOf(kind, TRUE, s)
    OBVIOUS
  <2>1. CASE NoChannel(kind, TRUE, s)
    BY <2>1, ClosedNamed, ContentSame
  <2>2. CASE ~NoChannel(kind, TRUE, s)
    <3>1. ~NoChannel(kind, FALSE, s)
      BY <2>2, SameChannels DEF NoChannel
    <3>2. ChannelRest(kind, s) \in U /\ Closed(kind, ChannelRest(kind, s))
      BY <1>1, <2>2, ChannelParts, ClosedRest DEF NoChannel
    <3>3. ContentOf(kind, FALSE, ChannelRest(kind, s)) = ContentOf(kind, TRUE, ChannelRest(kind, s))
      BY <3>2
    <3>4. ContentOf(kind, TRUE, s) = Before(s, Opening(s)) \o ContentOf(kind, TRUE, ChannelRest(kind, s))
      BY <2>2, ContentOfIs
    <3>5. ContentOf(kind, FALSE, s) = Before(s, Opening(s)) \o ContentOf(kind, FALSE, ChannelRest(kind, s))
      BY <3>1, ContentOfIs
    <3>. QED BY <3>3, <3>4, <3>5
  <2>. QED BY <2>1, <2>2
<1>. HIDE DEF U
<1>2. TextOf \subseteq U
  BY <1>1, TextInduction
<1>. QED BY <1>2 DEF U

(* The calls of the two parses.                                            *)
LEMMA ParsedCalls ==
    ASSUME NEW kind, NEW t
    PROVE  /\ Live(kind, t).calls = CallsOf(kind, TRUE, ContentOf(kind, TRUE, t))
           /\ Whole(kind, t).calls = CallsOf(kind, FALSE, ContentOf(kind, FALSE, t))
BY DEF Live, Whole, Parse, CallsOf, ContentOf

(* They are sequences of calls.                                            *)
LEMMA LiveCalls ==
    ASSUME NEW kind \in Kinds, NEW t \in TextOf
    PROVE  Live(kind, t).calls \in Seq(Call) /\ Whole(kind, t).calls \in Seq(Call)
<1>1. ContentOf(kind, TRUE, t) \in TextOf /\ ContentOf(kind, FALSE, t) \in TextOf
  BY ContentOfIs
<1>. DEFINE c == ContentOf(kind, TRUE, t)
            d == ContentOf(kind, FALSE, t)
<1>2. Live(kind, t).calls = CallsOf(kind, TRUE, c) /\ Whole(kind, t).calls = CallsOf(kind, FALSE, d)
  BY ParsedCalls
<1>. HIDE DEF c, d
<1>3. CallsOf(kind, TRUE, c) \in Seq(Call) /\ CallsOf(kind, FALSE, d) \in Seq(Call)
  BY <1>1, CallsOfIs DEF c, d
<1>. QED BY <1>2, <1>3

(* The calls of the streaming parse stay when the answer grows, although   *)
(* its content may take the beginning of a marker back.                    *)
LEMMA LiveGrows ==
    ASSUME NEW kind \in Kinds, NEW t \in TextOf, NEW u \in TextOf
    PROVE  \E v \in Seq(Call) : Live(kind, t \o u).calls = Live(kind, t).calls \o v
<1>1. PICK w \in TextOf, v \in TextOf :
         /\ ContentOf(kind, TRUE, t \o u) = w \o v
         /\ ContentOf(kind, TRUE, t) = w \/ ContentOf(kind, TRUE, t) = w \o <<"<">>
  BY ContentGrows DEF Grows
<1>2. CallsOf(kind, TRUE, ContentOf(kind, TRUE, t)) = CallsOf(kind, TRUE, w)
  BY <1>1, CallsHeld
<1>3. PICK z \in Seq(Call) : CallsOf(kind, TRUE, w \o v) = CallsOf(kind, TRUE, w) \o z
  BY CallsGrow
<1>4. Live(kind, t).calls = CallsOf(kind, TRUE, w)
  BY <1>2, ParsedCalls
<1>5. Live(kind, t \o u).calls = CallsOf(kind, TRUE, w \o v)
  BY <1>1, ParsedCalls
<1>. QED BY <1>3, <1>4, <1>5

(* The calls of the finished answer begin with those of the streaming      *)
(* parse.                                                                  *)
LEMMA WholeExtends ==
    ASSUME NEW kind \in Kinds, NEW t \in TextOf
    PROVE  \E v \in Seq(Call) : Whole(kind, t).calls = Live(kind, t).calls \o v
<1>1. PICK v \in TextOf : ContentOf(kind, FALSE, t) = ContentOf(kind, TRUE, t) \o v
  BY ContentFuller DEF Fuller
<1>. DEFINE c == ContentOf(kind, TRUE, t)
<1>2. c \in TextOf
  BY ContentOfIs
<1>3. Live(kind, t).calls = CallsOf(kind, TRUE, c) /\ Whole(kind, t).calls = CallsOf(kind, FALSE, c \o v)
  BY <1>1, ParsedCalls
<1>. HIDE DEF c
<1>4. CallsOf(kind, TRUE, c) = CallsOf(kind, FALSE, c)
  BY <1>2, CallsLive
<1>5. PICK z \in Seq(Call) : CallsOf(kind, FALSE, c \o v) = CallsOf(kind, FALSE, c) \o z
  BY <1>2, CallsGrow
<1>. QED BY <1>3, <1>4, <1>5

(* They are the same when the channels of the answer are closed.           *)
LEMMA SettledCalls ==
    ASSUME NEW kind \in Kinds, NEW t \in TextOf, Closed(kind, t)
    PROVE  Whole(kind, t).calls = Live(kind, t).calls
<1>1. ContentOf(kind, FALSE, t) = ContentOf(kind, TRUE, t) /\ ContentOf(kind, TRUE, t) \in TextOf
  BY ContentClosed, ContentOfIs
<1>. QED BY <1>1, ParsedCalls, CallsLive, ZenonT(60)

-----------------------------------------------------------------------------
(* Sequences of events.                                                    *)

(* The recursion of FlattenSeq: the first i sequences, one after the       *)
(* other.                                                                  *)
Flattens(f, seqs, n) == f = [i \in 1 .. n |-> IF i = 1 THEN seqs[i] ELSE f[i - 1] \o seqs[i]]

(* The recursion of FlattenSeq has a solution.                             *)
LEMMA FlattenExists ==
    ASSUME NEW S, NEW seqs \in Seq(Seq(S))
    PROVE  \A n \in Nat : n <= Len(seqs) => \E f \in [1 .. n -> Seq(S)] : Flattens(f, seqs, n)
<1>. DEFINE T == {n \in Nat : n <= Len(seqs) => \E f \in [1 .. n -> Seq(S)] : Flattens(f, seqs, n)}
<1>1. 0 \in T
  <2>. DEFINE f == [i \in 1 .. 0 |-> <<>>]
  <2>1. f \in [1 .. 0 -> Seq(S)] /\ Flattens(f, seqs, 0)
    BY DEF Flattens
  <2>. QED BY <2>1
<1>2. ASSUME NEW n \in Nat, n \in T PROVE n + 1 \in T
  <2>. SUFFICES ASSUME n + 1 <= Len(seqs) PROVE \E f \in [1 .. n + 1 -> Seq(S)] : Flattens(f, seqs, n + 1)
    OBVIOUS
  <2>1. PICK f \in [1 .. n -> Seq(S)] : Flattens(f, seqs, n)
    BY <1>2
  <2>. DEFINE g == [i \in 1 .. n + 1 |-> IF i = n + 1 THEN IF i = 1 THEN seqs[i] ELSE f[n] \o seqs[i] ELSE f[i]]
  <2>2. \A i \in 1 .. n + 1 : g[i] \in Seq(S)
    OBVIOUS
  <2>3. ASSUME NEW i \in 1 .. n + 1 PROVE g[i] = IF i = 1 THEN seqs[i] ELSE g[i - 1] \o seqs[i]
    <3>1. CASE i = n + 1
      BY <3>1
    <3>2. CASE i \in 1 .. n
      <4>1. f[i] = IF i = 1 THEN seqs[i] ELSE f[i - 1] \o seqs[i]
        BY <2>1, <3>2 DEF Flattens
      <4>2. g[i] = f[i]
        <5>1. i # n + 1
          BY <3>2
        <5>. QED BY <5>1
      <4>3. ASSUME i # 1 PROVE g[i - 1] = f[i - 1]
        <5>1. i - 1 \in 1 .. n + 1 /\ i - 1 # n + 1
          BY <3>2, <4>3
        <5>. QED BY <5>1
      <4>. HIDE DEF g
      <4>. QED BY <4>1, <4>2, <4>3
    <3>. QED BY <3>1, <3>2
  <2>4. g \in [1 .. n + 1 -> Seq(S)] /\ Flattens(g, seqs, n + 1)
    BY <2>2, <2>3 DEF Flattens
  <2>. QED BY <2>4
<1>. HIDE DEF T
<1>3. Nat \subseteq T
  BY <1>1, <1>2, Induction
<1>. QED BY <1>3 DEF T

(* Its value at i.                                                         *)
LEMMA FlattensAt ==
    ASSUME NEW f, NEW seqs, NEW n \in Nat, Flattens(f, seqs, n), NEW i \in 1 .. n
    PROVE  f[i] = IF i = 1 THEN seqs[i] ELSE f[i - 1] \o seqs[i]
BY DEF Flattens

(* f is the flattening of the first n sequences, n by n.                   *)
Unfolds(f, seqs, n) == \A i \in 1 .. n : f[i] = IF i = 1 THEN seqs[i] ELSE f[i - 1] \o seqs[i]

(* Its first value.                                                        *)
LEMMA UnfoldsFirst ==
    ASSUME NEW f, NEW seqs, NEW n \in Nat, Unfolds(f, seqs, n), n # 0
    PROVE  f[1] = seqs[1]
BY DEF Unfolds

(* The next one.                                                           *)
LEMMA UnfoldsNext ==
    ASSUME NEW f, NEW seqs, NEW n \in Nat, Unfolds(f, seqs, n), NEW i \in Nat, i # 0, i + 1 <= n
    PROVE  f[i + 1] = f[i] \o seqs[i + 1]
<1>1. i + 1 \in 1 .. n /\ i + 1 # 1 /\ i + 1 - 1 = i
  OBVIOUS
<1>2. \A j \in 1 .. n : j # 1 => f[j] = f[j - 1] \o seqs[j]
  BY DEF Unfolds
<1>. DEFINE j == i + 1
<1>3. j \in 1 .. n /\ j # 1 /\ j - 1 = i
  BY <1>1
<1>. HIDE DEF j
<1>4. f[j] = f[j - 1] \o seqs[j]
  BY <1>2, <1>3
<1>. QED BY <1>3, <1>4 DEF j

(* FlattenSeq is the last value.                                           *)
LEMMA FlattenUnfolds ==
    ASSUME NEW S, NEW seqs \in Seq(Seq(S)), seqs # <<>>
    PROVE  \E f \in [1 .. Len(seqs) -> Seq(S)] :
              Unfolds(f, seqs, Len(seqs)) /\ FlattenSeq(seqs) = f[Len(seqs)]
<1>. DEFINE n == Len(seqs)
            f == CHOOSE f : Flattens(f, seqs, n)
<1>1. FlattenSeq(seqs) = f[n] /\ n \in Nat
  BY DEF FlattenSeq, Flattens
<1>3. PICK g : g \in [1 .. n -> Seq(S)] /\ Flattens(g, seqs, n)
  BY FlattenExists
<1>2. Flattens(f, seqs, n)
  BY <1>3
<1>. HIDE DEF f, n
<1>7. \A i \in 1 .. n : g[i] = IF i = 1 THEN seqs[i] ELSE g[i - 1] \o seqs[i]
  BY <1>1, <1>3, FlattensAt
<1>4. \A i \in Nat : i \in 1 .. n => f[i] = g[i]
  <2>. DEFINE T == {i \in Nat : i \in 1 .. n => f[i] = g[i]}
  <2>1. 0 \in T
    OBVIOUS
  <2>2. ASSUME NEW i \in Nat, i \in T PROVE i + 1 \in T
    <3>. SUFFICES ASSUME i + 1 \in 1 .. n PROVE f[i + 1] = g[i + 1]
      OBVIOUS
    <3>1. f[i + 1] = IF i + 1 = 1 THEN seqs[i + 1] ELSE f[i + 1 - 1] \o seqs[i + 1]
      BY <1>1, <1>2, FlattensAt
    <3>2. g[i + 1] = IF i + 1 = 1 THEN seqs[i + 1] ELSE g[i + 1 - 1] \o seqs[i + 1]
      BY <1>7
    <3>3. i + 1 # 1 => f[i + 1 - 1] = g[i + 1 - 1]
      BY <1>1, <2>2
    <3>. QED BY <3>1, <3>2, <3>3
  <2>. HIDE DEF T
  <2>3. Nat \subseteq T
    BY <2>1, <2>2, Induction
  <2>. QED BY <2>3 DEF T
<1>5. f \in [1 .. n -> Seq(S)]
  <2>1. ASSUME NEW i \in 1 .. n PROVE f[i] \in Seq(S)
    <3>1. f[i] = g[i]
      BY <1>1, <1>4
    <3>. QED BY <1>3, <3>1
  <2>2. f = [i \in 1 .. n |-> f[i]]
    BY <1>2 DEF Flattens
  <2>. QED BY <2>1, <2>2
<1>6. \A i \in 1 .. n : f[i] = IF i = 1 THEN seqs[i] ELSE f[i - 1] \o seqs[i]
  BY <1>1, <1>2, FlattensAt
<1>. QED BY <1>1, <1>5, <1>6 DEF n, Unfolds

(* The recursion of FoldLeft over the places of a sequence.                *)
Delivers(f, w, s, n) ==
  f = [S \in SUBSET (1 .. n) |-> IF S = {} THEN w ELSE Deliver(f[S \ {Max(S)}], s[Max(S)])]

(* An upper bound of a set, of the set, is its Max.                        *)
LEMMA MaxElement ==
   ASSUME NEW S, NEW n \in S, \A m \in S : n >= m, S \subseteq Nat
   PROVE  Max(S) = n
<1>1. \E x \in S : \A y \in S : x >= y
  OBVIOUS
<1>2. Max(S) \in S /\ \A y \in S : Max(S) >= y
  BY <1>1 DEF Max
<1>3. Max(S) >= n /\ n >= Max(S) /\ Max(S) \in Nat /\ n \in Nat
  BY <1>2
<1>. HIDE DEF Max
<1>. QED BY <1>3

(* The recursion of the fold has a solution.                               *)
LEMMA DeliversExists ==
    ASSUME NEW w, NEW s
    PROVE  \A n \in Nat : \E f : Delivers(f, w, s, n)
<1>. DEFINE T == {n \in Nat : \E f : Delivers(f, w, s, n)}
<1>1. 0 \in T
  <2>. DEFINE f == [S \in SUBSET (1 .. 0) |-> w]
  <2>1. Delivers(f, w, s, 0)
    BY DEF Delivers
  <2>. QED BY <2>1
<1>2. ASSUME NEW n \in Nat, n \in T PROVE n + 1 \in T
  <2>1. PICK f : Delivers(f, w, s, n)
    BY <1>2
  <2>. DEFINE R(h, S) == IF S = {} THEN w ELSE Deliver(h[S \ {Max(S)}], s[Max(S)])
              g == [S \in SUBSET (1 .. n + 1) |-> IF S \subseteq 1 .. n THEN f[S] ELSE Deliver(f[S \ {n + 1}], s[n + 1])]
  <2>2. ASSUME NEW S \in SUBSET (1 .. n + 1) PROVE g[S] = R(g, S)
    <3>1. CASE S \subseteq 1 .. n
      <4>1. g[S] = f[S] /\ f[S] = R(f, S)
        BY <2>1, <3>1 DEF Delivers
      <4>2. S \ {Max(S)} \in SUBSET (1 .. n) /\ S \ {Max(S)} \in SUBSET (1 .. n + 1)
        BY <3>1
      <4>3. g[S \ {Max(S)}] = f[S \ {Max(S)}]
        BY <4>2
      <4>. HIDE DEF g
      <4>. QED BY <4>1, <4>3
    <3>2. CASE ~(S \subseteq 1 .. n)
      <4>1. n + 1 \in S /\ S # {}
        BY <3>2
      <4>2. Max(S) = n + 1
        <5>1. S \subseteq Nat /\ \A m \in S : n + 1 >= m
          OBVIOUS
        <5>. QED BY <4>1, <5>1, MaxElement
      <4>3. S \ {n + 1} \in SUBSET (1 .. n) /\ S \ {n + 1} \in SUBSET (1 .. n + 1)
        OBVIOUS
      <4>4. g[S \ {n + 1}] = f[S \ {n + 1}] /\ g[S] = Deliver(f[S \ {n + 1}], s[n + 1])
        BY <4>3, <3>2
      <4>. HIDE DEF g
      <4>. QED BY <4>1, <4>2, <4>4
    <3>. QED BY <3>1, <3>2
  <2>3. Delivers(g, w, s, n + 1)
    BY <2>2 DEF Delivers
  <2>. QED BY <2>3
<1>. HIDE DEF T
<1>3. Nat \subseteq T
  BY <1>1, <1>2, Induction
<1>. QED BY <1>3 DEF T

(* What a client has after the events s, and after each of them.           *)
Delivered(w, s) == FoldLeft(Deliver, w, s)

Steps(h, w, s, n) == h[0] = w /\ \A i \in 1 .. n : h[i] = Deliver(h[i - 1], s[i])

(* The next event.                                                         *)
LEMMA StepsNext ==
    ASSUME NEW h, NEW w, NEW s, NEW n \in Nat, Steps(h, w, s, n), NEW i \in Nat, i < n
    PROVE  h[i + 1] = Deliver(h[i], s[i + 1])
<1>1. i + 1 \in 1 .. n /\ i + 1 - 1 = i
  OBVIOUS
<1>2. h[i + 1] = Deliver(h[i + 1 - 1], s[i + 1])
  BY <1>1 DEF Steps
<1>. QED BY <1>1, <1>2

(* The fold delivers the events one after the other.                       *)
LEMMA FoldDeliver ==
    ASSUME NEW w, NEW s, NEW n \in Nat, DOMAIN s = 1 .. n
    PROVE  \E h : Steps(h, w, s, n) /\ Delivered(w, s) = h[n]
<1>. DEFINE f == CHOOSE f : Delivers(f, w, s, n)
            h == [i \in 0 .. n |-> f[1 .. i]]
<1>1. FoldLeft(Deliver, w, s) = f[1 .. n]
  BY DEF FoldLeft, MapThenFoldSet, Delivers
<1>2. Delivers(f, w, s, n)
  BY DeliversExists
<1>. HIDE DEF f
<1>3. h[0] = w
  BY <1>2 DEF Delivers
<1>4. ASSUME NEW i \in 1 .. n PROVE h[i] = Deliver(h[i - 1], s[i])
  <2>1. Max(1 .. i) = i
    <3>1. 1 .. i \subseteq Nat /\ i \in 1 .. i /\ \A m \in 1 .. i : i >= m
      OBVIOUS
    <3>. QED BY <3>1, MaxElement
  <2>2. (1 .. i) \ {i} = 1 .. i - 1 /\ 1 .. i \in SUBSET (1 .. n) /\ 1 .. i # {}
    OBVIOUS
  <2>3. f[1 .. i] = Deliver(f[1 .. i - 1], s[i])
    BY <1>2, <2>1, <2>2 DEF Delivers
  <2>4. h[i] = f[1 .. i] /\ h[i - 1] = f[1 .. i - 1]
    OBVIOUS
  <2>. QED BY <2>3, <2>4
<1>5. Delivered(w, s) = h[n]
  BY <1>1 DEF Delivered
<1>. HIDE DEF h
<1>. QED BY <1>3, <1>4, <1>5 DEF Steps

-----------------------------------------------------------------------------
(* What is delivered.                                                      *)

(* FlattenSeq of nothing.                                                  *)
LEMMA FlattenEmpty == FlattenSeq(<<>>) = <<>>
BY DEF FlattenSeq

(* FlattenSeq makes a sequence.                                            *)
LEMMA FlattenIs ==
    ASSUME NEW S, NEW seqs \in Seq(Seq(S))
    PROVE  FlattenSeq(seqs) \in Seq(S)
<1>1. CASE seqs = <<>>
  <2>1. <<>> \in Seq(S)
    OBVIOUS
  <2>. QED BY <1>1, <2>1, FlattenEmpty, Zenon
<1>2. CASE seqs # <<>>
  <2>. DEFINE n == Len(seqs)
  <2>1. PICK f : f \in [1 .. n -> Seq(S)] /\ Unfolds(f, seqs, n) /\ FlattenSeq(seqs) = f[n]
    BY <1>2, FlattenUnfolds
  <2>2. n \in 1 .. n
    BY <1>2
  <2>. HIDE DEF n
  <2>3. f[n] \in Seq(S)
    BY <2>1, <2>2
  <2>. QED BY <2>1, <2>3, Zenon
<1>. QED BY <1>1, <1>2

(* A sequence more is added at the end.                                    *)
LEMMA FlattenAppend ==
    ASSUME NEW S, NEW g \in Seq(Seq(S)), NEW t \in Seq(S)
    PROVE  FlattenSeq(Append(g, t)) = FlattenSeq(g) \o t
<1>. DEFINE x == Append(g, t)
            n == Len(g)
            m == Len(x)
<1>1. /\ x \in Seq(Seq(S)) /\ x # <<>> /\ m = n + 1 /\ n \in Nat
      /\ \A i \in 1 .. n : x[i] = g[i]
      /\ x[n + 1] = t
  BY AppendProperties
<1>. HIDE DEF x
<1>2. PICK h \in [1 .. m -> Seq(S)] : Unfolds(h, x, m) /\ FlattenSeq(x) = h[m]
  BY <1>1, FlattenUnfolds
<1>. HIDE DEF m
<1>3. CASE g = <<>>
  <2>1. n = 0 /\ m = 1
    BY <1>1, <1>3
  <2>2. h[1] = x[1]
    BY <1>2, <2>1, UnfoldsFirst
  <2>3. <<>> \o t = t
    BY ConcatEmptySeq
  <2>. QED BY <1>1, <1>2, <1>3, <2>1, <2>2, <2>3, FlattenEmpty DEF x
<1>4. CASE g # <<>>
  <2>1. PICK f \in [1 .. n -> Seq(S)] : Unfolds(f, g, n) /\ FlattenSeq(g) = f[n]
    BY <1>4, FlattenUnfolds
  <2>0. n # 0
    BY <1>4
  <2>. HIDE DEF n
  <2>. DEFINE T == {i \in Nat : i \in 1 .. n => h[i] = f[i]}
  <2>2. 0 \in T
    OBVIOUS
  <2>3. ASSUME NEW i \in Nat, i \in T PROVE i + 1 \in T
    <3>. SUFFICES ASSUME i + 1 \in 1 .. n PROVE h[i + 1] = f[i + 1]
      OBVIOUS
    <3>1. x[i + 1] = g[i + 1] /\ i + 1 <= n /\ i + 1 <= m /\ m \in Nat
      BY <1>1
    <3>2. CASE i = 0
      <4>1. h[1] = x[1] /\ f[1] = g[1]
        BY <1>1, <1>2, <2>0, <2>1, UnfoldsFirst
      <4>. QED BY <3>1, <3>2, <4>1
    <3>3. CASE i # 0
      <4>1. h[i + 1] = h[i] \o x[i + 1]
        BY <1>2, <3>1, <3>3, UnfoldsNext
      <4>2. f[i + 1] = f[i] \o g[i + 1]
        BY <1>1, <2>1, <3>1, <3>3, UnfoldsNext, ZenonT(60)
      <4>3. h[i] = f[i]
        BY <1>1, <2>3, <3>1, <3>3
      <4>. QED BY <3>1, <4>1, <4>2, <4>3
    <3>. QED BY <3>2, <3>3
  <2>. HIDE DEF T
  <2>4. n \in T
    BY <1>1, <2>2, <2>3, Induction
  <2>5. h[n] = f[n]
    <3>1. n \in 1 .. n
      BY <1>1, <2>0
    <3>. QED BY <2>4, <3>1 DEF T
  <2>6. h[n + 1] = h[n] \o x[n + 1]
    <3>1. n + 1 <= m /\ m \in Nat
      BY <1>1
    <3>. QED BY <1>1, <1>2, <2>0, <3>1, UnfoldsNext, ZenonT(60)
  <2>. QED BY <1>1, <1>2, <2>1, <2>5, <2>6 DEF x
<1>. QED BY <1>3, <1>4

(* Delivery of events, one after the other.                                *)
LEMMA DeliveredNone ==
    ASSUME NEW w
    PROVE  Delivered(w, <<>>) = w
<1>. DEFINE s == <<>>
<1>1. DOMAIN s = 1 .. 0 /\ 0 \in Nat
  OBVIOUS
<1>. HIDE DEF s
<1>2. PICK h : Steps(h, w, s, 0) /\ Delivered(w, s) = h[0]
  BY <1>1, FoldDeliver
<1>. QED BY <1>2 DEF s, Steps

(* One event is delivered.                                                 *)
LEMMA DeliveredOne ==
    ASSUME NEW w, NEW e
    PROVE  Delivered(w, <<e>>) = Deliver(w, e)
<1>. DEFINE s == <<e>>
<1>1. DOMAIN s = 1 .. 1 /\ s[1] = e /\ 1 \in Nat
  OBVIOUS
<1>. HIDE DEF s
<1>2. PICK h : Steps(h, w, s, 1) /\ Delivered(w, s) = h[1]
  BY <1>1, FoldDeliver
<1>3. h[0 + 1] = Deliver(h[0], s[0 + 1])
  BY <1>2, StepsNext
<1>. QED BY <1>1, <1>2, <1>3 DEF s, Steps

(* The events of two pushes are delivered one push after the other.        *)
LEMMA DeliveredConcat ==
    ASSUME NEW S, NEW w, NEW s \in Seq(S), NEW r \in Seq(S)
    PROVE  Delivered(w, s \o r) = Delivered(Delivered(w, s), r)
<1>. DEFINE x == s \o r
            m == Len(s)
            n == Len(r)
            k == m + n
            mid == Delivered(w, s)
<1>1. /\ x \in Seq(S) /\ Len(x) = k /\ m \in Nat /\ n \in Nat
      /\ \A i \in 1 .. k : x[i] = IF i <= m THEN s[i] ELSE r[i - m]
  BY ConcatProperties
<1>. HIDE DEF x
<1>0. k \in Nat
  BY <1>1
<1>8. DOMAIN s = 1 .. m /\ DOMAIN r = 1 .. n /\ DOMAIN x = 1 .. k
  BY <1>1, LenProperties
<1>2. DOMAIN s = 1 .. m /\ DOMAIN r = 1 .. n /\ DOMAIN x = 1 .. k /\ k \in Nat
  BY <1>0, <1>8
<1>. HIDE DEF m, n, k, mid
<1>3. PICK f : Steps(f, w, s, m) /\ Delivered(w, s) = f[m]
  <2>1. m \in Nat /\ DOMAIN s = 1 .. m
    BY <1>1, <1>8
  <2>. QED BY <2>1, FoldDeliver
<1>4. PICK g : Steps(g, mid, r, n) /\ Delivered(mid, r) = g[n]
  BY <1>1, <1>2, FoldDeliver
<1>5. PICK h : Steps(h, w, x, k) /\ Delivered(w, x) = h[k]
  BY <1>1, <1>2, FoldDeliver
<1>6. h[m] = f[m]
  <2>. DEFINE T == {i \in Nat : i \in 0 .. m => h[i] = f[i]}
  <2>1. 0 \in T
    BY <1>3, <1>5 DEF Steps
  <2>2. ASSUME NEW i \in Nat, i \in T PROVE i + 1 \in T
    <3>. SUFFICES ASSUME i + 1 \in 0 .. m PROVE h[i + 1] = f[i + 1]
      OBVIOUS
    <3>1. i < m /\ i < k /\ i + 1 \in 1 .. k /\ i + 1 <= m /\ i \in 0 .. m
      BY <1>1 DEF k
    <3>2. h[i] = f[i]
      BY <2>2, <3>1
    <3>3. x[i + 1] = s[i + 1]
      BY <1>1, <3>1
    <3>4. h[i + 1] = Deliver(h[i], x[i + 1])
      BY <1>2, <1>5, <3>1, StepsNext
    <3>5. f[i + 1] = Deliver(f[i], s[i + 1])
      BY <1>1, <1>3, <3>1, StepsNext
    <3>. QED BY <3>2, <3>3, <3>4, <3>5
  <2>. HIDE DEF T
  <2>3. m \in T /\ m \in 0 .. m
    BY <1>1, <2>1, <2>2, Induction, SMTT(60)
  <2>. QED BY <2>3 DEF T
<1>7. h[k] = g[n]
  <2>. DEFINE T == {i \in Nat : i \in 0 .. n => h[m + i] = g[i]}
  <2>1. 0 \in T
    <3>1. m + 0 = m
      BY <1>1
    <3>. QED BY <1>3, <1>4, <1>6, <3>1 DEF mid, Steps
  <2>2. ASSUME NEW i \in Nat, i \in T PROVE i + 1 \in T
    <3>. SUFFICES ASSUME i + 1 \in 0 .. n PROVE h[m + (i + 1)] = g[i + 1]
      OBVIOUS
    <3>1. /\ i < n /\ i \in 0 .. n /\ m + i \in Nat /\ m + i < k /\ m + i + 1 = m + (i + 1)
          /\ m + i + 1 \in 1 .. k /\ ~(m + i + 1 <= m) /\ m + i + 1 - m = i + 1
      BY <1>1 DEF k
    <3>2. h[m + i] = g[i]
      BY <2>2, <3>1
    <3>3. x[m + i + 1] = r[i + 1]
      BY <1>1, <3>1
    <3>4. h[m + i + 1] = Deliver(h[m + i], x[m + i + 1])
      <4>. DEFINE j == m + i
      <4>1. j \in Nat /\ j < k
        BY <3>1
      <4>. HIDE DEF j
      <4>2. h[j + 1] = Deliver(h[j], x[j + 1])
        BY <1>2, <1>5, <4>1, StepsNext
      <4>. QED BY <4>2 DEF j
    <3>5. g[i + 1] = Deliver(g[i], r[i + 1])
      BY <1>1, <1>4, <3>1, StepsNext
    <3>. QED BY <3>1, <3>2, <3>3, <3>4, <3>5
  <2>. HIDE DEF T
  <2>3. n \in T /\ n \in 0 .. n
    BY <1>1, <2>1, <2>2, Induction, SMTT(60)
  <2>. QED BY <2>3 DEF T, k
<1>. QED BY <1>4, <1>5, <1>7 DEF x, mid

-----------------------------------------------------------------------------
(* A call reaches the client.                                              *)

(* What a client has received has its fields; a delivery leaves the finish *)
(* reason and the end alone.                                               *)
Wire(w)    == DOMAIN w = {"text", "reasoning", "calls", "finish", "ends"}
Same(w, x) == Wire(x) /\ x.ends = w.ends /\ x.finish = w.finish

(* An event with text adds no call.                                        *)
LEMMA DeliverSays ==
    ASSUME NEW w, Wire(w), NEW o \in {"text", "reasoning"}, NEW b
    PROVE  Same(w, Deliver(w, [of |-> o, body |-> b])) /\ Deliver(w, [of |-> o, body |-> b]).calls = w.calls
<1>. DEFINE e == [of |-> o, body |-> b]
<1>1. e.of = o
  OBVIOUS
<1>2. CASE o = "text"
  <2>1. Deliver(w, e) = [w EXCEPT !.text = @ \o e.body]
    BY <1>1, <1>2 DEF Deliver
  <2>. HIDE DEF e
  <2>2. Same(w, Deliver(w, e)) /\ Deliver(w, e).calls = w.calls
    BY <2>1 DEF Wire, Same
  <2>. QED BY <2>2 DEF e
<1>3. CASE o = "reasoning"
  <2>1. Deliver(w, e) = [w EXCEPT !.reasoning = @ \o e.body]
    BY <1>1, <1>3 DEF Deliver
  <2>. HIDE DEF e
  <2>2. Same(w, Deliver(w, e)) /\ Deliver(w, e).calls = w.calls
    BY <2>1 DEF Wire, Same
  <2>. QED BY <2>2 DEF e
<1>. QED BY <1>2, <1>3

(* The beginning of a call adds an empty one.                              *)
LEMMA DeliverBegin ==
    ASSUME NEW w, Wire(w), NEW e, e.of = "begin"
    PROVE  Same(w, Deliver(w, e)) /\ Deliver(w, e).calls = Append(w.calls, <<>>)
<1>1. Deliver(w, e) = [w EXCEPT !.calls = Append(@, <<>>)]
  BY DEF Deliver
<1>. QED BY <1>1 DEF Wire, Same

(* The arguments go to the call they are for.                              *)
LEMMA DeliverArgs ==
    ASSUME NEW w, Wire(w), NEW e, e.of = "args"
    PROVE  /\ Same(w, Deliver(w, e))
           /\ Deliver(w, e).calls = [w.calls EXCEPT ![Head(e.body)] = Append(@, Tail(e.body))]
<1>1. Deliver(w, e) = [w EXCEPT !.calls[Head(e.body)] = Append(@, Tail(e.body))]
  BY DEF Deliver
<1>. QED BY <1>1 DEF Wire, Same

(* Two deliveries leave alone what each does.                              *)
LEMMA SameTrans ==
    ASSUME NEW w, NEW x, NEW y, Same(w, x), Same(x, y)
    PROVE  Same(w, y)
BY DEF Same

(* The calls a client has put together of the first n calls.               *)
Assembled(calls, n) == [i \in 1 .. n |-> <<calls[i].args>>]

(* The two events of a call.                                               *)
Begin(i)       == [of |-> "begin", body |-> <<i>>]
Args(calls, i) == [of |-> "args", body |-> <<i>> \o calls[i].args]
CallNews(calls, i) == <<Begin(i), Args(calls, i)>>

(* The body of an arguments event: which call, and the arguments.          *)
LEMMA ArgsBody ==
    ASSUME NEW i, NEW a \in TextOf
    PROVE  Head(<<i>> \o a) = i /\ Tail(<<i>> \o a) = a
<1>. DEFINE S == {i} \cup Char
            x == <<i>> \o a
<1>1. <<i>> \in Seq(S) /\ a \in Seq(S) /\ Len(<<i>>) = 1 /\ <<i>>[1] = i /\ a \in Seq(Char)
  <2>1. a \in Seq(Char)
    BY TextIs
  <2>2. Len(a) \in Nat /\ \A k \in 1 .. Len(a) : a[k] \in S
    BY <2>1
  <2>3. a \in Seq(S)
    BY <2>1, <2>2, SeqDef
  <2>. QED BY <2>1, <2>3
<1>. HIDE DEF S
<1>2. /\ x \in Seq(S) /\ Len(x) = 1 + Len(a)
      /\ \A k \in 1 .. 1 + Len(a) : x[k] = IF k <= 1 THEN i ELSE a[k - 1]
  <2>. DEFINE f == <<i>>
  <2>1. f \in Seq(S) /\ Len(f) = 1 /\ f[1] = i
    BY <1>1
  <2>. HIDE DEF f
  <2>2. /\ f \o a \in Seq(S) /\ Len(f \o a) = Len(f) + Len(a)
        /\ \A k \in 1 .. Len(f) + Len(a) : (f \o a)[k] = IF k <= Len(f) THEN f[k] ELSE a[k - Len(f)]
    BY <1>1, <2>1, ConcatProperties
  <2>3. \A k \in 1 .. 1 + Len(a) : k <= 1 => k = 1
    BY <1>1
  <2>. QED BY <2>1, <2>2, <2>3 DEF f
<1>3. x # <<>> /\ x[1] = i
  BY <1>1, <1>2
<1>. HIDE DEF x
<1>4. Head(x) = i
  BY <1>2, <1>3
<1>5. /\ Tail(x) \in Seq(S) /\ Len(Tail(x)) = Len(x) - 1
      /\ \A k \in 1 .. Len(Tail(x)) : Tail(x)[k] = x[k + 1]
  BY <1>2, <1>3, HeadTailProperties
<1>6. Len(a) \in Nat /\ Len(Tail(x)) = Len(a)
  BY <1>1, <1>2, <1>5
<1>7. ASSUME NEW k \in 1 .. Len(a) PROVE Tail(x)[k] = a[k]
  <2>1. k + 1 \in 1 .. 1 + Len(a) /\ ~(k + 1 <= 1) /\ k + 1 - 1 = k
    BY <1>6
  <2>. QED BY <1>2, <1>5, <1>6, <2>1
<1>8. Tail(x) = a
  BY <1>1, <1>5, <1>6, <1>7, SeqEqual
<1>. QED BY <1>4, <1>8 DEF x

(* Two events, one after the other.                                        *)
LEMMA PairIs ==
    ASSUME NEW e, NEW f
    PROVE  <<e, f>> = <<e>> \o <<f>>
<1>. DEFINE S == {e, f}
            s == <<e>>
            r == <<f>>
            p == <<e, f>>
            x == s \o r
<1>1. e \in S /\ f \in S
  OBVIOUS
<1>. HIDE DEF S
<1>2. /\ s \in Seq(S) /\ r \in Seq(S) /\ Len(s) = 1 /\ Len(r) = 1 /\ s[1] = e /\ r[1] = f
      /\ p \in Seq(S) /\ Len(p) = 2 /\ p[1] = e /\ p[2] = f
  BY <1>1
<1>. HIDE DEF s, r, p
<1>3. /\ x \in Seq(S) /\ Len(x) = Len(s) + Len(r)
      /\ \A i \in 1 .. Len(s) + Len(r) : x[i] = IF i <= Len(s) THEN s[i] ELSE r[i - Len(s)]
  BY <1>2, ConcatProperties
<1>. HIDE DEF x
<1>4. Len(x) = 2 /\ x[1] = e /\ x[2] = f
  BY <1>2, <1>3
<1>5. \A i \in 1 .. 2 : i = 1 \/ i = 2
  OBVIOUS
<1>6. x = p
  BY <1>2, <1>3, <1>4, <1>5, SeqEqual
<1>. QED BY <1>6 DEF x, s, r, p

(* What they do.                                                           *)
LEMMA DeliveredTwo ==
    ASSUME NEW w, NEW e, NEW f
    PROVE  Delivered(w, <<e, f>>) = Deliver(Deliver(w, e), f)
<1>. DEFINE S == {e, f}
            s == <<e>>
            r == <<f>>
<1>1. e \in S /\ f \in S
  OBVIOUS
<1>. HIDE DEF S
<1>2. s \in Seq(S) /\ r \in Seq(S)
  BY <1>1
<1>3. Delivered(w, s) = Deliver(w, e)
  BY DeliveredOne
<1>4. Delivered(Deliver(w, e), r) = Deliver(Deliver(w, e), f)
  BY DeliveredOne
<1>6. <<e, f>> = s \o r
  BY PairIs
<1>. HIDE DEF s, r
<1>5. Delivered(w, s \o r) = Delivered(Delivered(w, s), r)
  BY <1>2, DeliveredConcat
<1>. QED BY <1>3, <1>4, <1>5, <1>6

(* A new call reaches the client whole.                                    *)
LEMMA CallArrives ==
    ASSUME NEW calls \in Seq(Call), NEW n \in Nat, n < Len(calls), NEW w, Wire(w), w.calls = Assembled(calls, n)
    PROVE  /\ Same(w, Delivered(w, CallNews(calls, n + 1)))
           /\ Delivered(w, CallNews(calls, n + 1)).calls = Assembled(calls, n + 1)
<1>. DEFINE b == Begin(n + 1)
            a == Args(calls, n + 1)
            x == Deliver(w, b)
            y == Deliver(x, a)
<1>0. n + 1 \in 1 .. Len(calls) /\ calls[n + 1].args \in TextOf
  <2>1. n + 1 \in 1 .. Len(calls)
    OBVIOUS
  <2>2. \A i \in 1 .. Len(calls) : calls[i] \in Call
    OBVIOUS
  <2>3. \A c \in Call : c.args \in TextOf
    BY DEF Call
  <2>. QED BY <2>1, <2>2, <2>3
<1>1. Delivered(w, CallNews(calls, n + 1)) = y
  BY DeliveredTwo DEF CallNews
<1>2. b.of = "begin" /\ a.of = "args" /\ a.body = <<n + 1>> \o calls[n + 1].args
  BY DEF Begin, Args
<1>3. Head(a.body) = n + 1 /\ Tail(a.body) = calls[n + 1].args
  BY <1>0, <1>2, ArgsBody
<1>. HIDE DEF a, b
<1>4. Same(w, x) /\ x.calls = Append(w.calls, <<>>)
  BY <1>2, DeliverBegin
<1>. HIDE DEF x
<1>5. Same(x, y) /\ y.calls = [x.calls EXCEPT ![n + 1] = Append(@, calls[n + 1].args)]
  <2>1. Wire(x)
    BY <1>4 DEF Same
  <2>2. Same(x, y) /\ y.calls = [x.calls EXCEPT ![Head(a.body)] = Append(@, Tail(a.body))]
    BY <1>2, <2>1, DeliverArgs
  <2>. HIDE DEF y
  <2>. QED BY <1>3, <2>2
<1>. HIDE DEF y
<1>6. x.calls = [i \in 1 .. n + 1 |-> IF i <= n THEN <<calls[i].args>> ELSE <<>>]
  <2>. DEFINE S == Seq(TextOf)
              c == Assembled(calls, n)
              z == Append(c, <<>>)
  <2>1. ASSUME NEW i \in 1 .. n PROVE c[i] = <<calls[i].args>> /\ c[i] \in S
    <3>1. calls[i] \in Call
      OBVIOUS
    <3>2. calls[i].args \in TextOf
      BY <3>1 DEF Call
    <3>3. c[i] = <<calls[i].args>>
      BY DEF Assembled
    <3>. HIDE DEF c
    <3>. QED BY <3>2, <3>3
  <2>2. c \in Seq(S) /\ Len(c) = n
    BY <2>1 DEF Assembled
  <2>. HIDE DEF c
  <2>3. <<>> \in S
    OBVIOUS
  <2>. HIDE DEF S
  <2>4. /\ z \in Seq(S) /\ Len(z) = n + 1 /\ \A i \in 1 .. n : z[i] = c[i]
        /\ z[n + 1] = <<>>
    BY <2>2, <2>3, AppendProperties
  <2>. HIDE DEF z
  <2>5. ASSUME NEW i \in 1 .. n + 1 PROVE z[i] = IF i <= n THEN <<calls[i].args>> ELSE <<>>
    <3>1. CASE i <= n
      BY <2>1, <2>4, <3>1
    <3>2. CASE ~(i <= n)
      <4>1. i = n + 1
        BY <3>2
      <4>. QED BY <2>4, <3>2, <4>1
    <3>. QED BY <3>1, <3>2
  <2>6. z = [i \in 1 .. n + 1 |-> z[i]]
    BY <2>4
  <2>7. x.calls = z
    BY <1>4 DEF z, c
  <2>. QED BY <2>5, <2>6, <2>7
<1>7. y.calls = Assembled(calls, n + 1)
  <2>1. Append(<<>>, calls[n + 1].args) = <<calls[n + 1].args>>
    BY <1>0
  <2>2. DOMAIN y.calls = 1 .. n + 1
    BY <1>5, <1>6
  <2>3. ASSUME NEW i \in 1 .. n + 1 PROVE y.calls[i] = <<calls[i].args>>
    <3>1. CASE i = n + 1
      <4>1. ~(i <= n) /\ x.calls[i] = <<>>
        BY <1>6, <3>1
      <4>2. y.calls[i] = Append(x.calls[i], calls[n + 1].args)
        BY <1>5, <1>6, <3>1
      <4>. QED BY <2>1, <3>1, <4>1, <4>2
    <3>2. CASE i # n + 1
      <4>1. i <= n /\ x.calls[i] = <<calls[i].args>>
        BY <1>6, <3>2
      <4>2. y.calls[i] = x.calls[i]
        BY <1>5, <1>6, <3>2
      <4>. QED BY <4>1, <4>2
    <3>. QED BY <3>1, <3>2
  <2>4. y.calls = [i \in 1 .. n + 1 |-> y.calls[i]]
    BY <1>5, <1>6, <2>2
  <2>. QED BY <2>3, <2>4 DEF Assembled
<1>. QED BY <1>1, <1>4, <1>5, <1>7, SameTrans

-----------------------------------------------------------------------------
(* All new calls reach the client.                                         *)

(* The events of the first n calls, of which the first p were known.       *)
News(calls, p, n) == [i \in 1 .. n |-> IF i > p THEN CallNews(calls, i) ELSE <<>>]
Latest(p, n)      == IF n > p THEN n ELSE p

(* The events for the calls of a parse that were not in the last one.      *)
LEMMA NewsIs ==
    ASSUME NEW p \in Seq(Call), NEW v \in Seq(Call), NEW prev, NEW cur, prev.calls = p, cur.calls = p \o v
    PROVE  CallEvents(prev, cur) = FlattenSeq(News(p \o v, Len(p), Len(p \o v)))
<1>. DEFINE c == p \o v
            Event(i) == LET args == cur.calls[i].args
                            sent == IF i > Len(prev.calls) THEN <<>> ELSE prev.calls[i].args
                        IN  IF i > Len(prev.calls)
                            THEN << [of |-> "begin", body |-> <<i>>], [of |-> "args", body |-> <<i>> \o args] >>
                            ELSE IF args = sent THEN <<>>
                            ELSE << [of |-> "args",
                                     body |-> <<i>> \o (IF IsPrefix(sent, args) THEN After(args, Len(sent))
                                                        ELSE args)] >>
<1>1. c \in Seq(Call) /\ \A i \in 1 .. Len(p) : c[i] = p[i]
  <2>1. /\ c \in Seq(Call) /\ Len(c) = Len(p) + Len(v)
        /\ \A i \in 1 .. Len(p) + Len(v) : c[i] = IF i <= Len(p) THEN p[i] ELSE v[i - Len(p)]
    BY ConcatProperties
  <2>. HIDE DEF c
  <2>2. ASSUME NEW i \in 1 .. Len(p) PROVE c[i] = p[i]
    <3>1. Len(p) \in Nat /\ Len(v) \in Nat
      OBVIOUS
    <3>2. i \in 1 .. Len(p) + Len(v) /\ i <= Len(p)
      BY <3>1
    <3>. QED BY <2>1, <3>2
  <2>. QED BY <2>1, <2>2
<1>2. CallEvents(prev, cur) = FlattenSeq([i \in 1 .. Len(cur.calls) |-> Event(i)])
  BY DEF CallEvents
<1>3. ASSUME NEW i \in 1 .. Len(c)
      PROVE  Event(i) = IF i > Len(p) THEN CallNews(c, i) ELSE <<>>
  <2>1. CASE i > Len(p)
    <3>. HIDE DEF c
    <3>1. Event(i) = << [of |-> "begin", body |-> <<i>>], [of |-> "args", body |-> <<i>> \o cur.calls[i].args] >>
      BY <2>1
    <3>2. cur.calls[i].args = c[i].args
      BY DEF c
    <3>. HIDE DEF Event
    <3>. QED BY <2>1, <3>1, <3>2 DEF CallNews, Begin, Args
  <2>2. CASE ~(i > Len(p))
    <3>1. i \in 1 .. Len(p)
      <4>1. Len(p) \in Nat /\ i \in Nat /\ i >= 1
        OBVIOUS
      <4>. QED BY <2>2, <4>1
    <3>2. cur.calls[i].args = prev.calls[i].args
      BY <1>1, <3>1
    <3>3. Event(i) = <<>>
      BY <2>2, <3>2
    <3>. HIDE DEF Event
    <3>. QED BY <2>2, <3>3
  <2>. QED BY <2>1, <2>2
<1>. HIDE DEF Event, c
<1>4. [i \in 1 .. Len(c) |-> Event(i)] = News(c, Len(p), Len(c))
  BY <1>3 DEF News
<1>. QED BY <1>2, <1>4 DEF c

(* They bring the client up to date.                                       *)
LEMMA NewsArrive ==
    ASSUME NEW c \in Seq(Call), NEW p \in Nat, p <= Len(c), NEW w, Wire(w), w.calls = Assembled(c, p)
    PROVE  /\ FlattenSeq(News(c, p, Len(c))) \in Seq({Begin(i) : i \in 1 .. Len(c)} \cup {Args(c, i) : i \in 1 .. Len(c)})
           /\ Same(w, Delivered(w, FlattenSeq(News(c, p, Len(c)))))
           /\ Delivered(w, FlattenSeq(News(c, p, Len(c)))).calls = Assembled(c, Len(c))
<1>. DEFINE S == {Begin(i) : i \in 1 .. Len(c)} \cup {Args(c, i) : i \in 1 .. Len(c)}
            D(n) == Delivered(w, FlattenSeq(News(c, p, n)))
            T == {n \in Nat : n <= Len(c) => Same(w, D(n)) /\ D(n).calls = Assembled(c, Latest(p, n))}
<1>1. ASSUME NEW n \in Nat, n <= Len(c) PROVE News(c, p, n) \in Seq(Seq(S))
  <2>1. ASSUME NEW i \in 1 .. n PROVE (IF i > p THEN CallNews(c, i) ELSE <<>>) \in Seq(S)
    <3>1. i \in 1 .. Len(c)
      BY <1>1
    <3>2. Begin(i) \in S /\ Args(c, i) \in S
      BY <3>1
    <3>. HIDE DEF S
    <3>. QED BY <3>2 DEF CallNews
  <2>. HIDE DEF S
  <2>. QED BY <2>1 DEF News
<1>. HIDE DEF S
<1>2. 0 \in T
  <2>1. News(c, p, 0) = <<>>
    BY DEF News
  <2>2. D(0) = w
    BY <2>1, FlattenEmpty, DeliveredNone
  <2>3. Latest(p, 0) = p
    BY DEF Latest
  <2>4. Same(w, w)
    BY DEF Same
  <2>. HIDE DEF D
  <2>. QED BY <2>2, <2>3, <2>4
<1>3. ASSUME NEW n \in Nat, n \in T PROVE n + 1 \in T
  <2>. SUFFICES ASSUME n + 1 <= Len(c)
                PROVE  Same(w, D(n + 1)) /\ D(n + 1).calls = Assembled(c, Latest(p, n + 1))
    OBVIOUS
  <2>. DEFINE last == IF n + 1 > p THEN CallNews(c, n + 1) ELSE <<>>
              old == News(c, p, n)
              new == News(c, p, n + 1)
              flat == FlattenSeq(old)
  <2>0. n <= Len(c) /\ n < Len(c)
    <3>1. Len(c) \in Nat
      OBVIOUS
    <3>. QED BY <3>1
  <2>1. old \in Seq(Seq(S)) /\ new \in Seq(Seq(S))
    BY <1>1, <2>0
  <2>2. last \in Seq(S)
    <3>1. new[n + 1] = last /\ n + 1 \in 1 .. n + 1 /\ Len(new) = n + 1
      BY DEF News
    <3>. HIDE DEF new, last
    <3>. QED BY <2>1, <3>1
  <2>3. new = Append(old, last)
    <3>. DEFINE a == Append(old, last)
    <3>1. /\ Len(old) = n /\ \A i \in 1 .. n : old[i] = IF i > p THEN CallNews(c, i) ELSE <<>>
      BY DEF News
    <3>2. /\ Len(new) = n + 1 /\ \A i \in 1 .. n + 1 : new[i] = IF i > p THEN CallNews(c, i) ELSE <<>>
      BY DEF News
    <3>3. last = IF n + 1 > p THEN CallNews(c, n + 1) ELSE <<>>
      OBVIOUS
    <3>. HIDE DEF old, new, last
    <3>4. /\ a \in Seq(Seq(S)) /\ Len(a) = n + 1 /\ \A i \in 1 .. n : a[i] = old[i]
          /\ a[n + 1] = last
      BY <2>1, <2>2, <3>1, AppendProperties
    <3>. HIDE DEF a
    <3>5. ASSUME NEW i \in 1 .. n + 1 PROVE new[i] = a[i]
      <4>1. CASE i \in 1 .. n
        BY <3>1, <3>2, <3>4, <4>1
      <4>2. CASE i = n + 1
        BY <3>2, <3>3, <3>4, <4>2
      <4>. QED BY <4>1, <4>2
    <3>6. new = a
      BY <2>1, <3>2, <3>4, <3>5, SeqEqual
    <3>. QED BY <3>6 DEF a
  <2>4. FlattenSeq(new) = flat \o last /\ flat \in Seq(S)
    <3>. HIDE DEF old, new, last
    <3>. QED BY <2>1, <2>2, <2>3, FlattenAppend, FlattenIs
  <2>5. D(n + 1) = Delivered(D(n), last)
    <3>1. D(n) = Delivered(w, flat) /\ D(n + 1) = Delivered(w, FlattenSeq(new))
      OBVIOUS
    <3>. HIDE DEF flat, last, new, D
    <3>2. Delivered(w, flat \o last) = Delivered(Delivered(w, flat), last)
      BY <2>2, <2>4, DeliveredConcat
    <3>. QED BY <2>4, <3>1, <3>2
  <2>6. Same(w, D(n)) /\ D(n).calls = Assembled(c, Latest(p, n))
    BY <1>3, <2>0
  <2>. HIDE DEF D
  <2>7. CASE n + 1 > p
    <3>1. Latest(p, n) = n /\ Latest(p, n + 1) = n + 1 /\ last = CallNews(c, n + 1)
      BY <2>7 DEF Latest
    <3>2. Wire(D(n))
      BY <2>6 DEF Same
    <3>3. D(n).calls = Assembled(c, n)
      BY <2>6, <3>1
    <3>. DEFINE x == D(n)
    <3>. HIDE DEF x, last
    <3>4. Same(x, Delivered(x, CallNews(c, n + 1))) /\ Delivered(x, CallNews(c, n + 1)).calls = Assembled(c, n + 1)
      BY <2>0, <3>2, <3>3, CallArrives DEF x
    <3>. QED BY <2>5, <2>6, <3>1, <3>4, SameTrans DEF x
  <2>8. CASE ~(n + 1 > p)
    <3>1. Latest(p, n) = p /\ Latest(p, n + 1) = p /\ last = <<>>
      BY <2>8 DEF Latest
    <3>. HIDE DEF last
    <3>2. D(n + 1) = D(n)
      BY <2>5, <3>1, DeliveredNone
    <3>. QED BY <2>6, <3>1, <3>2
  <2>. QED BY <2>7, <2>8
<1>. HIDE DEF T
<1>4. Len(c) \in Nat /\ Len(c) \in T
  BY <1>2, <1>3, Induction
<1>. HIDE DEF D
<1>5. Same(w, D(Len(c))) /\ D(Len(c)).calls = Assembled(c, Latest(p, Len(c)))
  BY <1>4 DEF T
<1>6. Latest(p, Len(c)) = Len(c)
  BY <1>4 DEF Latest
<1>7. FlattenSeq(News(c, p, Len(c))) \in Seq(S)
  <2>. DEFINE n == Len(c)
  <2>1. n \in Nat /\ n <= Len(c)
    BY <1>4
  <2>. HIDE DEF n
  <2>2. News(c, p, n) \in Seq(Seq(S))
    BY <1>1, <2>1
  <2>. DEFINE news == News(c, p, n)
  <2>. HIDE DEF news
  <2>3. FlattenSeq(news) \in Seq(S)
    BY <2>2, FlattenIs DEF news
  <2>. QED BY <2>3 DEF news, n
<1>. QED BY <1>5, <1>6, <1>7 DEF D, S

-----------------------------------------------------------------------------
(* A push brings the client up to date.                                    *)

(* Text leaves the calls of the client alone.                              *)
LEMMA SaidArrives ==
    ASSUME NEW w, Wire(w), NEW o \in {"text", "reasoning"}, NEW b, NEW s,
           s = <<>> \/ s = <<[of |-> o, body |-> b]>>
    PROVE  Same(w, Delivered(w, s)) /\ Delivered(w, s).calls = w.calls
<1>1. CASE s = <<>>
  <2>1. Same(w, w)
    BY DEF Same
  <2>. QED BY <1>1, <2>1, DeliveredNone
<1>2. CASE s = <<[of |-> o, body |-> b]>>
  <2>1. Delivered(w, s) = Deliver(w, [of |-> o, body |-> b])
    BY <1>2, DeliveredOne
  <2>. QED BY <2>1, DeliverSays
<1>. QED BY <1>1, <1>2

(* At most one event says what text is new.                                *)
LEMMA TextEventsAre ==
    ASSUME NEW prev, NEW cur
    PROVE  \E b : TextEvents(prev, cur) = <<>> \/ TextEvents(prev, cur) = <<[of |-> "text", body |-> b]>>
<1>1. CASE ~IsPrefix(prev.content, cur.content)
  BY <1>1 DEF TextEvents
<1>2. CASE IsPrefix(prev.content, cur.content) /\ prev.content = cur.content
  BY <1>2 DEF TextEvents
<1>3. CASE IsPrefix(prev.content, cur.content) /\ prev.content # cur.content
  BY <1>3 DEF TextEvents
<1>. QED BY <1>1, <1>2, <1>3

(* At most one event says what reasoning is new.                           *)
LEMMA ReasoningEventsAre ==
    ASSUME NEW prev, NEW cur
    PROVE  \E b : ReasoningEvents(prev, cur) = <<>> \/ ReasoningEvents(prev, cur) = <<[of |-> "reasoning", body |-> b]>>
<1>1. CASE IsStrictPrefix(prev.reasoning, cur.reasoning)
  BY <1>1 DEF ReasoningEvents
<1>2. CASE ~IsStrictPrefix(prev.reasoning, cur.reasoning)
  BY <1>2 DEF ReasoningEvents
<1>. QED BY <1>1, <1>2

(* New text adds no call.                                                  *)
LEMMA TextArrives ==
    ASSUME NEW w, Wire(w), NEW prev, NEW cur
    PROVE  /\ Same(w, Delivered(w, TextEvents(prev, cur)))
           /\ Delivered(w, TextEvents(prev, cur)).calls = w.calls
<1>1. PICK b : TextEvents(prev, cur) = <<>> \/ TextEvents(prev, cur) = <<[of |-> "text", body |-> b]>>
  BY TextEventsAre
<1>. DEFINE s == TextEvents(prev, cur)
<1>. HIDE DEF s
<1>2. s = <<>> \/ s = <<[of |-> "text", body |-> b]>>
  BY <1>1 DEF s
<1>3. Same(w, Delivered(w, s)) /\ Delivered(w, s).calls = w.calls
  BY <1>2, SaidArrives
<1>. QED BY <1>3 DEF s

(* New reasoning adds no call.                                             *)
LEMMA ReasoningArrives ==
    ASSUME NEW w, Wire(w), NEW prev, NEW cur
    PROVE  /\ Same(w, Delivered(w, ReasoningEvents(prev, cur)))
           /\ Delivered(w, ReasoningEvents(prev, cur)).calls = w.calls
<1>1. PICK b : ReasoningEvents(prev, cur) = <<>> \/ ReasoningEvents(prev, cur) = <<[of |-> "reasoning", body |-> b]>>
  BY ReasoningEventsAre
<1>. DEFINE s == ReasoningEvents(prev, cur)
<1>. HIDE DEF s
<1>2. s = <<>> \/ s = <<[of |-> "reasoning", body |-> b]>>
  BY <1>1 DEF s
<1>3. Same(w, Delivered(w, s)) /\ Delivered(w, s).calls = w.calls
  BY <1>2, SaidArrives
<1>. QED BY <1>3 DEF s

(* Events that are not of a field leave that field of the client alone.    *)
LEMMA DeliveredQuiet ==
    ASSUME NEW f \in {"text", "reasoning"}, NEW S, \A e \in S : e.of \in {"text", "reasoning", "begin", "args"} \ {f},
           NEW s \in Seq(S), NEW w, Wire(w)
    PROVE  Wire(Delivered(w, s)) /\ Delivered(w, s)[f] = w[f]
<1>. DEFINE n == Len(s)
            Quiet(x) == Wire(x) /\ x[f] = w[f]
<1>1. n \in Nat /\ DOMAIN s = 1 .. n /\ \A i \in 1 .. n : s[i] \in S
  OBVIOUS
<1>. HIDE DEF n
<1>2. PICK h : Steps(h, w, s, n) /\ Delivered(w, s) = h[n]
  BY <1>1, FoldDeliver
<1>3. ASSUME NEW x, Quiet(x), NEW e, e.of \in {"text", "reasoning", "begin", "args"} \ {f} PROVE Quiet(Deliver(x, e))
  <2>1. CASE e.of = "text"
    <3>1. Deliver(x, e) = [x EXCEPT !.text = @ \o e.body] /\ f = "reasoning"
      BY <1>3, <2>1 DEF Deliver
    <3>. QED BY <1>3, <3>1 DEF Wire
  <2>4. CASE e.of = "reasoning"
    <3>1. Deliver(x, e) = [x EXCEPT !.reasoning = @ \o e.body] /\ f = "text"
      BY <1>3, <2>4 DEF Deliver
    <3>. QED BY <1>3, <3>1 DEF Wire
  <2>2. CASE e.of = "begin"
    <3>1. Deliver(x, e) = [x EXCEPT !.calls = Append(@, <<>>)]
      BY <2>2 DEF Deliver
    <3>. QED BY <1>3, <3>1 DEF Wire
  <2>3. CASE e.of = "args"
    <3>1. Deliver(x, e) = [x EXCEPT !.calls[Head(e.body)] = Append(@, Tail(e.body))]
      BY <2>3 DEF Deliver
    <3>. QED BY <1>3, <3>1 DEF Wire
  <2>. QED BY <1>3, <2>1, <2>2, <2>3, <2>4
<1>. DEFINE T == {i \in Nat : i <= n => Quiet(h[i])}
<1>4. Quiet(h[0])
  BY <1>2 DEF Steps
<1>. HIDE DEF Quiet
<1>5. 0 \in T
  BY <1>4
<1>6. ASSUME NEW i \in Nat, i \in T PROVE i + 1 \in T
  <2>. SUFFICES ASSUME i + 1 <= n PROVE Quiet(h[i + 1])
    OBVIOUS
  <2>1. i < n /\ i <= n /\ i + 1 \in 1 .. n
    BY <1>1
  <2>2. h[i + 1] = Deliver(h[i], s[i + 1]) /\ Quiet(h[i])
    BY <1>1, <1>2, <1>6, <2>1, StepsNext
  <2>3. s[i + 1].of \in {"text", "reasoning", "begin", "args"} \ {f}
    BY <1>1, <2>1
  <2>. QED BY <1>3, <2>2, <2>3
<1>. HIDE DEF T
<1>7. n \in T
  BY <1>1, <1>5, <1>6, Induction
<1>8. Quiet(h[n])
  BY <1>1, <1>7 DEF T
<1>. QED BY <1>2, <1>8 DEF Quiet

(* What a client that has x has when the content goes from r to s.         *)
Sent(x, r, s) == IF ~IsPrefix(r, s) THEN x \o s ELSE IF r = s THEN x ELSE x \o After(s, Len(r))

(* New text reaches the client.                                            *)
LEMMA TextHeard ==
    ASSUME NEW w, Wire(w), NEW prev, NEW cur
    PROVE  Delivered(w, TextEvents(prev, cur)).text = Sent(w.text, prev.content, cur.content)
<1>. DEFINE s == TextEvents(prev, cur)
<1>1. ASSUME NEW b, s = <<[of |-> "text", body |-> b]>> PROVE Delivered(w, s).text = w.text \o b
  <2>. DEFINE e == [of |-> "text", body |-> b]
  <2>1. Delivered(w, s) = Deliver(w, e)
    BY <1>1, DeliveredOne
  <2>2. Deliver(w, e) = [w EXCEPT !.text = @ \o e.body]
    <3>1. e.of = "text"
      OBVIOUS
    <3>. QED BY <3>1 DEF Deliver
  <2>3. e.body = b
    OBVIOUS
  <2>. HIDE DEF s, e
  <2>. QED BY <2>1, <2>2, <2>3 DEF Wire
<1>2. CASE ~IsPrefix(prev.content, cur.content)
  <2>1. s = <<[of |-> "text", body |-> cur.content]>>
    BY <1>2 DEF TextEvents
  <2>. HIDE DEF s
  <2>2. Delivered(w, s).text = w.text \o cur.content
    BY <1>1, <2>1
  <2>. QED BY <1>2, <2>2 DEF Sent, s
<1>3. CASE IsPrefix(prev.content, cur.content) /\ prev.content = cur.content
  <2>1. s = <<>>
    BY <1>3 DEF TextEvents
  <2>2. Delivered(w, s) = w
    BY <2>1, DeliveredNone
  <2>. QED BY <1>3, <2>2 DEF Sent
<1>4. CASE IsPrefix(prev.content, cur.content) /\ prev.content # cur.content
  <2>1. s = <<[of |-> "text", body |-> After(cur.content, Len(prev.content))]>>
    BY <1>4 DEF TextEvents
  <2>. HIDE DEF s
  <2>2. Delivered(w, s).text = w.text \o After(cur.content, Len(prev.content))
    BY <1>1, <2>1
  <2>. QED BY <1>4, <2>2 DEF Sent, s
<1>. QED BY <1>2, <1>3, <1>4

(* What a client that has x has when the reasoning grows from r to s.      *)
Gained(x, r, s) == IF IsStrictPrefix(r, s) THEN x \o After(s, Len(r)) ELSE x

(* New reasoning reaches the client.                                       *)
LEMMA ReasoningHeard ==
    ASSUME NEW w, Wire(w), NEW prev, NEW cur
    PROVE  Delivered(w, ReasoningEvents(prev, cur)).reasoning = Gained(w.reasoning, prev.reasoning, cur.reasoning)
<1>. DEFINE s == ReasoningEvents(prev, cur)
            e == [of |-> "reasoning", body |-> After(cur.reasoning, Len(prev.reasoning))]
<1>1. CASE IsStrictPrefix(prev.reasoning, cur.reasoning)
  <2>1. s = <<e>>
    BY <1>1 DEF ReasoningEvents
  <2>2. Delivered(w, s) = Deliver(w, e)
    BY <2>1, DeliveredOne
  <2>3. Deliver(w, e) = [w EXCEPT !.reasoning = @ \o e.body]
    <3>1. e.of = "reasoning"
      OBVIOUS
    <3>. QED BY <3>1 DEF Deliver
  <2>4. e.body = After(cur.reasoning, Len(prev.reasoning))
    OBVIOUS
  <2>. HIDE DEF s, e
  <2>5. Delivered(w, s).reasoning = w.reasoning \o After(cur.reasoning, Len(prev.reasoning))
    BY <2>2, <2>3, <2>4 DEF Wire
  <2>. QED BY <1>1, <2>5 DEF Gained, s
<1>2. CASE ~IsStrictPrefix(prev.reasoning, cur.reasoning)
  <2>1. s = <<>>
    BY <1>2 DEF ReasoningEvents
  <2>2. Delivered(w, s) = w
    BY <2>1, DeliveredNone
  <2>. QED BY <1>2, <2>2 DEF Gained
<1>. QED BY <1>1, <1>2

(* A push brings the client up to date with the new parse when its calls   *)
(* are those of the old one, and then others.                              *)
UpToDate(w, parse)  == w.calls = Assembled(parse.calls, Len(parse.calls))
Lengthens(prev, cur) == /\ prev.calls \in Seq(Call)
                        /\ \E v \in Seq(Call) : cur.calls = prev.calls \o v

(* So a push leaves the client with the calls of the new parse, and its    *)
(* text and reasoning grow.                                                *)
LEMMA PushKeepsUp ==
    ASSUME NEW prev, NEW cur, Lengthens(prev, cur), NEW w, Wire(w), UpToDate(w, prev)
    PROVE  /\ Same(w, Delivered(w, Push(prev, cur)))
           /\ UpToDate(Delivered(w, Push(prev, cur)), cur)
           /\ Delivered(w, Push(prev, cur)).reasoning = Gained(w.reasoning, prev.reasoning, cur.reasoning)
           /\ Delivered(w, Push(prev, cur)).text = Sent(w.text, prev.content, cur.content)
<1>. DEFINE p == prev.calls
            c == cur.calls
<1>18. PICK v \in Seq(Call) : c = p \o v
  BY DEF Lengthens
<1>19. p \in Seq(Call) /\ w.calls = Assembled(p, Len(p)) /\ prev.calls = p /\ cur.calls = c
  BY DEF Lengthens, UpToDate
<1>. HIDE DEF p, c
<1>. DEFINE text == TextEvents(prev, cur)
            reasoning == ReasoningEvents(prev, cur)
            news == CallEvents(prev, cur)
            x == Delivered(w, text)
            y == Delivered(x, reasoning)
            z == Delivered(y, news)
            N == {Begin(i) : i \in 1 .. Len(c)} \cup {Args(c, i) : i \in 1 .. Len(c)}
<1>1. /\ c \in Seq(Call) /\ Len(c) = Len(p) + Len(v)
      /\ \A i \in 1 .. Len(p) + Len(v) : c[i] = IF i <= Len(p) THEN p[i] ELSE v[i - Len(p)]
  BY <1>18, <1>19, ConcatProperties
<1>2. news = FlattenSeq(News(c, Len(p), Len(c)))
  <2>1. prev.calls = p /\ cur.calls = p \o v
    BY <1>18, <1>19
  <2>2. news = FlattenSeq(News(p \o v, Len(p), Len(p \o v)))
    BY <1>19, <2>1, NewsIs
  <2>. QED BY <1>18, <2>2
<1>3. PICK b : text = <<>> \/ text = <<[of |-> "text", body |-> b]>>
  BY TextEventsAre
<1>4. PICK d : reasoning = <<>> \/ reasoning = <<[of |-> "reasoning", body |-> d]>>
  BY ReasoningEventsAre
<1>5. Same(w, x) /\ x.calls = w.calls
  BY TextArrives
<1>6. Same(x, y) /\ y.calls = x.calls
  <2>1. Wire(x)
    BY <1>5 DEF Same
  <2>. HIDE DEF x
  <2>. QED BY <2>1, ReasoningArrives
<1>21. y.reasoning = Gained(x.reasoning, prev.reasoning, cur.reasoning)
  <2>1. Wire(x)
    BY <1>5 DEF Same
  <2>. HIDE DEF x
  <2>. QED BY <2>1, ReasoningHeard
<1>24. x.text = Sent(w.text, prev.content, cur.content)
  BY TextHeard
<1>7. Push(prev, cur) = (text \o reasoning) \o news
  BY DEF Push
<1>. HIDE DEF text, reasoning, news, x, y, N
<1>8. Len(p) \in Nat /\ Len(p) <= Len(c)
  <2>1. Len(p) \in Nat /\ Len(v) \in Nat
    BY <1>19
  <2>. QED BY <1>1, <2>1
<1>9. Wire(y) /\ y.calls = Assembled(c, Len(p))
  <2>1. Assembled(p, Len(p)) = Assembled(c, Len(p))
    <3>1. ASSUME NEW i \in 1 .. Len(p) PROVE c[i] = p[i]
      <4>1. i \in 1 .. Len(p) + Len(v) /\ i <= Len(p)
        BY <1>19
      <4>. QED BY <1>1, <4>1
    <3>. QED BY <3>1 DEF Assembled
  <2>. QED BY <1>5, <1>6, <1>19, <2>1 DEF Same
<1>10. news \in Seq(N) /\ Same(y, z) /\ z.calls = Assembled(c, Len(c))
  BY <1>1, <1>2, <1>8, <1>9, NewsArrive DEF N
<1>. HIDE DEF z
<1>. DEFINE S == {[of |-> "text", body |-> b], [of |-> "reasoning", body |-> d]} \cup N
<1>11. [of |-> "text", body |-> b] \in S /\ [of |-> "reasoning", body |-> d] \in S /\ N \subseteq S
  OBVIOUS
<1>. HIDE DEF S
<1>12. text \in Seq(S) /\ reasoning \in Seq(S)
  <2>. DEFINE t == <<[of |-> "text", body |-> b]>>
              r == <<[of |-> "reasoning", body |-> d]>>
              e == <<>>
  <2>1. t \in Seq(S) /\ r \in Seq(S) /\ e \in Seq(S)
    BY <1>11
  <2>2. (text = e \/ text = t) /\ (reasoning = e \/ reasoning = r)
    BY <1>3, <1>4
  <2>. HIDE DEF t, r, e
  <2>. QED BY <2>1, <2>2
<1>13. news \in Seq(S)
  BY <1>10, <1>11
<1>14. text \o reasoning \in Seq(S)
  BY <1>12, ConcatProperties
<1>15. Delivered(w, text \o reasoning) = y
  <2>1. Delivered(w, text \o reasoning) = Delivered(Delivered(w, text), reasoning)
    BY <1>12, DeliveredConcat
  <2>. QED BY <2>1 DEF x, y
<1>16. Delivered(w, (text \o reasoning) \o news) = z
  <2>. DEFINE said == text \o reasoning
  <2>2. said \in Seq(S)
    BY <1>14
  <2>. HIDE DEF said
  <2>1. Delivered(w, said \o news) = Delivered(Delivered(w, said), news)
    BY <1>13, <2>2, DeliveredConcat
  <2>. QED BY <1>15, <2>1 DEF said, z
<1>22. x.reasoning = w.reasoning
  <2>. DEFINE X == {[of |-> "text", body |-> b]}
  <2>1. text \in Seq(X)
    <3>. DEFINE t == <<[of |-> "text", body |-> b]>>
                e == <<>>
    <3>1. t \in Seq(X) /\ e \in Seq(X)
      OBVIOUS
    <3>2. text = e \/ text = t
      BY <1>3
    <3>. HIDE DEF t, e, X
    <3>. QED BY <3>1, <3>2
  <2>2. \A e \in X : e.of \in {"text", "reasoning", "begin", "args"} \ {"reasoning"}
    OBVIOUS
  <2>. HIDE DEF X
  <2>. QED BY <2>1, <2>2, DeliveredQuiet DEF x
<1>23. z.reasoning = y.reasoning /\ z.text = y.text
  <2>1. \A i : Begin(i).of = "begin" /\ Args(c, i).of = "args"
    BY DEF Begin, Args
  <2>2. \A e \in N : e.of \in {"begin", "args"}
    BY <2>1 DEF N
  <2>3. /\ \A e \in N : e.of \in {"text", "reasoning", "begin", "args"} \ {"reasoning"}
        /\ \A e \in N : e.of \in {"text", "reasoning", "begin", "args"} \ {"text"}
    BY <2>2
  <2>. QED BY <1>9, <1>10, <2>3, DeliveredQuiet DEF z
<1>25. y.text = x.text
  <2>. DEFINE X == {[of |-> "reasoning", body |-> d]}
  <2>1. reasoning \in Seq(X)
    <3>. DEFINE t == <<[of |-> "reasoning", body |-> d]>>
                e == <<>>
    <3>1. t \in Seq(X) /\ e \in Seq(X)
      OBVIOUS
    <3>2. reasoning = e \/ reasoning = t
      BY <1>4
    <3>. HIDE DEF t, e, X
    <3>. QED BY <3>1, <3>2
  <2>2. \A e \in X : e.of \in {"text", "reasoning", "begin", "args"} \ {"text"}
    OBVIOUS
  <2>3. Wire(x)
    BY <1>5 DEF Same
  <2>. HIDE DEF X
  <2>. QED BY <2>1, <2>2, <2>3, DeliveredQuiet DEF y
<1>17. Same(w, z)
  BY <1>5, <1>6, <1>10, SameTrans
<1>. QED BY <1>7, <1>10, <1>16, <1>17, <1>21, <1>22, <1>23, <1>24, <1>25 DEF UpToDate, c

(* The empty text has no call.                                             *)
LEMMA NoTextNoCall ==
    ASSUME NEW kind \in Kinds
    PROVE  Live(kind, <<>>).calls = <<>>
<1>. DEFINE e == <<>>
<1>1. e \in TextOf /\ e \in Seq(Char) /\ Len(e) = 0
  BY TextIs
<1>. HIDE DEF e
<1>2. Find(e, ThinkOpen) = 0 /\ Find(e, CallOpen) = 0
  <2>1. ASSUME NEW m PROVE Find(e, m) = 0
    <3>1. Find(e, m) \in 0 .. Len(e)
      BY <1>1, FindIs
    <3>. QED BY <1>1, <3>1
  <2>. QED BY <2>1
<1>3. ContentOf(kind, TRUE, e) = e
  BY <1>1, <1>2, ContentOfIs DEF Opening
<1>4. CallsOf(kind, TRUE, e) = <<>>
  BY <1>1, <1>2, CallsOfIs DEF NoCall
<1>5. Live(kind, e).calls = <<>>
  BY <1>3, <1>4, ParsedCalls
<1>. QED BY <1>5 DEF e

-----------------------------------------------------------------------------
(* Texts that begin with others, and what is printed of a text.            *)

(* A sequence that agrees with the beginning of another is its prefix.     *)
LEMMA PrefixIs ==
    ASSUME NEW S, NEW s \in Seq(S), NEW r \in Seq(S), Len(s) <= Len(r),
           \A i \in 1 .. Len(s) : s[i] = r[i]
    PROVE  IsPrefix(s, r)
<1>1. Len(s) \in Nat /\ Len(r) \in Nat /\ Len(s) + 1 \in 1 .. Len(s) + 1 /\ Len(s) + 1 \in 1 .. Len(r) + 1
  OBVIOUS
<1>. DEFINE n == Len(s) + 1
            b == Before(s, n)
            c == Before(r, n)
<1>2. n - 1 = Len(s)
  BY <1>1
<1>. HIDE DEF n
<1>3. b \in Seq(S) /\ Len(b) = n - 1 /\ \A j \in 1 .. n - 1 : b[j] = s[j]
  BY <1>1, BeforeIs DEF n
<1>4. c \in Seq(S) /\ Len(c) = n - 1 /\ \A j \in 1 .. n - 1 : c[j] = r[j]
  BY <1>1, BeforeIs DEF n
<1>. HIDE DEF b, c
<1>5. b = c
  BY <1>2, <1>3, <1>4, SeqEqual
<1>6. SubSeq(s, 1, Len(s)) = SubSeq(r, 1, Len(s))
  BY <1>2, <1>5 DEF b, c, Before
<1>. QED BY <1>6 DEF IsPrefix

(* A text begins with another when it is that text and then others.        *)
Begins(s, r) == \E v \in TextOf : r = s \o v

(* Which is to say that this is its prefix.                                *)
LEMMA BeginsIs ==
    ASSUME NEW s \in TextOf, NEW r \in TextOf
    PROVE  /\ Begins(s, r) <=> IsPrefix(s, r)
           /\ IsPrefix(s, r) => After(r, Len(s)) \in TextOf /\ r = s \o After(r, Len(s))
<1>1. s \in Seq(Char) /\ r \in Seq(Char) /\ Len(s) \in Nat /\ Len(r) \in Nat
  BY TextIs
<1>2. ASSUME NEW v \in TextOf, r = s \o v PROVE IsPrefix(s, r)
  <2>1. /\ v \in Seq(Char) /\ Len(v) \in Nat /\ Len(r) = Len(s) + Len(v)
        /\ \A i \in 1 .. Len(s) + Len(v) : r[i] = IF i <= Len(s) THEN s[i] ELSE v[i - Len(s)]
    BY <1>1, <1>2, ConcatProperties, TextIs
  <2>2. Len(s) <= Len(r) /\ \A i \in 1 .. Len(s) : s[i] = r[i]
    BY <1>1, <2>1
  <2>. QED BY <1>1, <2>2, PrefixIs
<1>3. ASSUME IsPrefix(s, r) PROVE After(r, Len(s)) \in TextOf /\ r = s \o After(r, Len(s))
  <2>. DEFINE v == After(r, Len(s))
              x == s \o v
  <2>1. Len(s) <= Len(r) /\ SubSeq(s, 1, Len(s)) = SubSeq(r, 1, Len(s))
    BY <1>3 DEF IsPrefix
  <2>2. \A i \in 1 .. Len(s) : s[i] = r[i]
    <3>. DEFINE b == SubSeq(s, 1, Len(s))
                d == SubSeq(r, 1, Len(s))
    <3>1. b \in Seq(Char) /\ Len(b) = Len(s) /\ \A i \in 1 .. Len(s) : b[i] = s[i]
      BY <1>1
    <3>2. d \in Seq(Char) /\ Len(d) = Len(s) /\ \A i \in 1 .. Len(s) : d[i] = r[i]
      BY <1>1, <2>1
    <3>3. b = d
      BY <2>1
    <3>. HIDE DEF b, d
    <3>. QED BY <3>1, <3>2, <3>3
  <2>3. v \in Seq(Char) /\ Len(v) = Len(r) - Len(s) /\ \A i \in 1 .. Len(r) - Len(s) : v[i] = r[Len(s) + i]
    <3>1. Len(s) \in 0 .. Len(r)
      BY <1>1, <2>1
    <3>. QED BY <1>1, <3>1, AfterIs
  <2>. HIDE DEF v
  <2>4. /\ x \in Seq(Char) /\ Len(x) = Len(s) + Len(v)
        /\ \A i \in 1 .. Len(s) + Len(v) : x[i] = IF i <= Len(s) THEN s[i] ELSE v[i - Len(s)]
    BY <1>1, <2>3, ConcatProperties
  <2>. HIDE DEF x
  <2>5. ASSUME NEW i \in 1 .. Len(r) PROVE x[i] = r[i]
    <3>1. CASE i <= Len(s)
      BY <1>1, <2>1, <2>2, <2>3, <2>4, <3>1
    <3>2. CASE ~(i <= Len(s))
      <4>1. i - Len(s) \in 1 .. Len(r) - Len(s) /\ Len(s) + (i - Len(s)) = i
        BY <1>1, <3>2
      <4>2. x[i] = v[i - Len(s)]
        BY <1>1, <2>3, <2>4, <3>2
      <4>3. v[i - Len(s)] = r[Len(s) + (i - Len(s))]
        BY <2>3, <4>1
      <4>. QED BY <4>1, <4>2, <4>3
    <3>. QED BY <3>1, <3>2
  <2>6. Len(x) = Len(r)
    BY <1>1, <2>3, <2>4
  <2>7. x = r
    BY <1>1, <2>4, <2>5, <2>6, SeqEqual
  <2>. QED BY <2>3, <2>7, TextIs DEF v, x
<1>. QED BY <1>2, <1>3 DEF Begins

(* What is printed of one character.                                       *)
Ink1(c) == IF c = "nl" THEN <<>> ELSE <<c>>

(* What is printed of a text, a character at a time.                       *)
LEMMA PrintedIs ==
    ASSUME NEW t \in TextOf
    PROVE  /\ Printed(t) \in TextOf
           /\ \A c \in Char : Printed(Append(t, c)) = Printed(t) \o Ink1(c)
           /\ Printed(<<>>) = <<>>
<1>. DEFINE marks(s) == [i \in DOMAIN s |-> Ink1(s[i])]
<1>1. \A s : Printed(s) = FlattenSeq(marks(s))
  BY DEF Printed, Ink1
<1>2. \A c \in Char : Ink1(c) \in Seq(Char)
  BY DEF Ink1
<1>3. \A s \in Seq(Char) : marks(s) \in Seq(Seq(Char)) /\ Len(marks(s)) = Len(s) /\ \A i \in 1 .. Len(s) : marks(s)[i] = Ink1(s[i])
  <2>. SUFFICES ASSUME NEW s \in Seq(Char)
                PROVE  marks(s) \in Seq(Seq(Char)) /\ Len(marks(s)) = Len(s) /\ \A i \in 1 .. Len(s) : marks(s)[i] = Ink1(s[i])
    OBVIOUS
  <2>1. DOMAIN s = 1 .. Len(s) /\ Len(s) \in Nat /\ \A i \in 1 .. Len(s) : s[i] \in Char
    OBVIOUS
  <2>2. marks(s) = [i \in 1 .. Len(s) |-> Ink1(s[i])]
    BY <2>1
  <2>. DEFINE n == Len(s)
              m == marks(s)
  <2>3. m \in [1 .. n -> Seq(Char)] /\ \A i \in 1 .. n : m[i] = Ink1(s[i])
    BY <1>2, <2>1, <2>2
  <2>. HIDE DEF m, n
  <2>4. n \in Nat
    BY <2>1 DEF n
  <2>5. m \in Seq(Seq(Char)) /\ Len(m) = n
    BY <2>3, <2>4, SeqDef
  <2>. QED BY <2>3, <2>5 DEF m, n
<1>4. t \in Seq(Char)
  BY TextIs
<1>5. Printed(t) \in Seq(Char)
  <2>. DEFINE m == marks(t)
  <2>1. m \in Seq(Seq(Char)) /\ Printed(t) = FlattenSeq(m)
    BY <1>1, <1>3, <1>4
  <2>. HIDE DEF m
  <2>. QED BY <2>1, FlattenIs
<1>6. ASSUME NEW c \in Char PROVE Printed(Append(t, c)) = Printed(t) \o Ink1(c)
  <2>. DEFINE x == Append(t, c)
              m == marks(t)
              n == marks(x)
              y == Append(m, Ink1(c))
  <2>1. /\ x \in Seq(Char) /\ Len(x) = Len(t) + 1 /\ x[Len(t) + 1] = c
        /\ \A i \in 1 .. Len(t) : x[i] = t[i]
    BY <1>4, AppendProperties
  <2>2. /\ m \in Seq(Seq(Char)) /\ Len(m) = Len(t) /\ \A i \in 1 .. Len(t) : m[i] = Ink1(t[i])
    BY <1>3, <1>4
  <2>. HIDE DEF x
  <2>3. /\ n \in Seq(Seq(Char)) /\ Len(n) = Len(x) /\ \A i \in 1 .. Len(x) : n[i] = Ink1(x[i])
    BY <1>3, <2>1
  <2>4. Printed(t) = FlattenSeq(m) /\ Printed(x) = FlattenSeq(n)
    BY <1>1
  <2>. HIDE DEF marks, m, n
  <2>5. /\ y \in Seq(Seq(Char)) /\ Len(y) = Len(m) + 1 /\ \A i \in 1 .. Len(m) : y[i] = m[i]
        /\ y[Len(m) + 1] = Ink1(c)
    BY <1>2, <2>2, AppendProperties
  <2>. HIDE DEF y
  <2>6. Len(t) \in Nat /\ \A i \in 1 .. Len(t) + 1 : i \in 1 .. Len(t) \/ i = Len(t) + 1
    BY <1>4
  <2>7. ASSUME NEW i \in 1 .. Len(n) PROVE n[i] = y[i]
    <3>1. i \in 1 .. Len(t) + 1 /\ i \in 1 .. Len(x)
      BY <2>1, <2>3
    <3>2. CASE i \in 1 .. Len(t)
      BY <2>1, <2>2, <2>3, <2>5, <3>1, <3>2
    <3>3. CASE i = Len(t) + 1
      BY <2>1, <2>2, <2>3, <2>5, <3>1, <3>3
    <3>. QED BY <2>6, <3>1, <3>2, <3>3
  <2>8. n = y
    BY <2>1, <2>2, <2>3, <2>5, <2>7, SeqEqual
  <2>9. FlattenSeq(Append(m, Ink1(c))) = FlattenSeq(m) \o Ink1(c)
    BY <1>2, <2>2, FlattenAppend
  <2>. QED BY <2>4, <2>8, <2>9 DEF x, y
<1>7. Printed(<<>>) = <<>>
  <2>1. marks(<<>>) = <<>>
    OBVIOUS
  <2>. HIDE DEF marks
  <2>. QED BY <1>1, <2>1, FlattenEmpty
<1>. QED BY <1>5, <1>6, <1>7, TextIs

(* A text that is not empty is a text and a character.                     *)
LEMMA TextEnds ==
    ASSUME NEW t \in TextOf, t # <<>>
    PROVE  \E s \in TextOf : \E c \in Char : t = Append(s, c) /\ Len(s) < Len(t)
<1>1. t \in Seq(Char)
  BY TextIs
<1>2. PICK s \in Seq(Char) : \E c \in Char : t = Append(s, c)
  BY <1>1, SequenceEmptyOrAppend
<1>3. PICK c \in Char : t = Append(s, c)
  BY <1>2
<1>4. Len(s) < Len(t)
  BY <1>3, AppendProperties
<1>. QED BY <1>2, <1>3, <1>4, TextIs

(* What is printed of two texts.                                           *)
LEMMA PrintedConcat ==
    ASSUME NEW t \in TextOf, NEW u \in TextOf
    PROVE  Printed(t \o u) = Printed(t) \o Printed(u)
<1>. DEFINE U == {s \in TextOf : Printed(t \o s) = Printed(t) \o Printed(s)}
<1>1. ASSUME NEW s \in TextOf, \A r \in TextOf : Len(r) < Len(s) => r \in U PROVE s \in U
  <2>1. CASE s = <<>>
    <3>1. t \o <<>> = t /\ Printed(t) \o <<>> = Printed(t) /\ Printed(<<>>) = <<>>
      <4>1. t \in Seq(Char) /\ Printed(t) \in Seq(Char)
        BY PrintedIs, TextIs
      <4>2. \A x \in Seq(Char) : x \o <<>> = x
        BY ConcatEmptySeq
      <4>. QED BY <4>1, <4>2, PrintedIs
    <3>. QED BY <2>1, <3>1
  <2>2. CASE s # <<>>
    <3>1. PICK r \in TextOf : \E d \in Char : s = Append(r, d) /\ Len(r) < Len(s)
      BY <2>2, TextEnds
    <3>2. PICK c \in Char : s = Append(r, c) /\ Len(r) < Len(s)
      BY <3>1
    <3>3. Printed(t \o r) = Printed(t) \o Printed(r)
      BY <1>1, <3>2
    <3>4. t \in Seq(Char) /\ r \in Seq(Char) /\ t \o r \in Seq(Char)
      BY ConcatProperties, TextIs
    <3>5. t \o s = Append(t \o r, c)
      <4>. DEFINE l == <<c>>
      <4>1. l \in Seq(Char)
        OBVIOUS
      <4>2. Append(r, c) = r \o l /\ Append(t \o r, c) = (t \o r) \o l
        BY <3>4, AppendIsConcat
      <4>. HIDE DEF l
      <4>3. (t \o r) \o l = t \o (r \o l)
        BY <3>4, <4>1, ConcatAssociative, SMTT(60)
      <4>. QED BY <3>2, <4>2, <4>3
    <3>6. Printed(Append(t \o r, c)) = Printed(t \o r) \o Ink1(c) /\ Printed(Append(r, c)) = Printed(r) \o Ink1(c)
      BY <3>4, PrintedIs, TextIs
    <3>. DEFINE a == Printed(t)
                b == Printed(r)
                d == Ink1(c)
    <3>7. a \in Seq(Char) /\ b \in Seq(Char) /\ d \in Seq(Char)
      BY PrintedIs, TextIs DEF Ink1
    <3>. HIDE DEF a, b, d
    <3>8. (a \o b) \o d = a \o (b \o d)
      BY <3>7, ConcatAssociative, SMTT(60)
    <3>9. Printed(t \o s) = Printed(t) \o Printed(s)
      BY <3>2, <3>3, <3>5, <3>6, <3>8 DEF a, b, d
    <3>. QED BY <3>9
  <2>. QED BY <2>1, <2>2
<1>. HIDE DEF U
<1>2. TextOf \subseteq U
  BY <1>1, TextInduction
<1>. QED BY <1>2 DEF U

(* Nothing is printed of white space.                                      *)
LEMMA PrintedBlank ==
    ASSUME NEW t \in TextOf, \A i \in 1 .. Len(t) : t[i] = "nl"
    PROVE  Printed(t) = <<>>
<1>. DEFINE Blank(s) == \A i \in 1 .. Len(s) : s[i] = "nl"
            U == {s \in TextOf : Blank(s) => Printed(s) = <<>>}
<1>1. ASSUME NEW s \in TextOf, \A r \in TextOf : Len(r) < Len(s) => r \in U PROVE s \in U
  <2>. SUFFICES ASSUME Blank(s), s # <<>> PROVE Printed(s) = <<>>
    BY PrintedIs
  <2>1. PICK r \in TextOf : \E d \in Char : s = Append(r, d) /\ Len(r) < Len(s)
    BY TextEnds
  <2>2. PICK c \in Char : s = Append(r, c) /\ Len(r) < Len(s)
    BY <2>1
  <2>3. r \in Seq(Char)
    BY TextIs
  <2>4. Len(s) = Len(r) + 1 /\ s[Len(r) + 1] = c /\ \A i \in 1 .. Len(r) : s[i] = r[i]
    BY <2>2, <2>3, AppendProperties
  <2>5. c = "nl" /\ Blank(r)
    BY <2>3, <2>4
  <2>6. Printed(r) = <<>>
    BY <1>1, <2>2, <2>5
  <2>7. Printed(s) = Printed(r) \o <<>>
    BY <2>2, <2>5, PrintedIs DEF Ink1
  <2>8. <<>> \o <<>> = <<>>
    OBVIOUS
  <2>. QED BY <2>6, <2>7, <2>8
<1>. HIDE DEF U
<1>2. TextOf \subseteq U
  BY <1>1, TextInduction
<1>. QED BY <1>2 DEF U

-----------------------------------------------------------------------------
(* The reasoning of a text that grows.                                     *)

(* A part of a text begins with a shorter one from the same place.         *)
LEMMA PartBegins ==
    ASSUME NEW t \in TextOf, NEW u \in TextOf, NEW i \in 1 .. Len(t) + 1, NEW j \in 0 .. Len(t),
           NEW k \in 0 .. Len(t \o u), j <= k
    PROVE  /\ SubSeq(t, i, j) \in TextOf /\ SubSeq(t \o u, i, k) \in TextOf
           /\ Begins(SubSeq(t, i, j), SubSeq(t \o u, i, k))
<1>1. t \in Seq(Char) /\ u \in Seq(Char) /\ Len(t) \in Nat /\ Len(u) \in Nat
  BY TextIs
<1>. DEFINE x == t \o u
            a == SubSeq(t, i, j)
            b == SubSeq(x, i, k)
<1>2. /\ x \in Seq(Char) /\ Len(x) = Len(t) + Len(u)
      /\ \A n \in 1 .. Len(t) + Len(u) : x[n] = IF n <= Len(t) THEN t[n] ELSE u[n - Len(t)]
  BY <1>1, ConcatProperties
<1>3. k \in 0 .. Len(x)
  OBVIOUS
<1>. HIDE DEF x
<1>4. i \in Int /\ j \in Int /\ k \in Int /\ i >= 1 /\ j <= Len(t) /\ k <= Len(x)
  BY <1>1, <1>2, <1>3
<1>5. /\ a \in Seq(Char) /\ Len(a) = (IF i <= j THEN j - i + 1 ELSE 0)
      /\ \A n \in 1 .. j - i + 1 : a[n] = t[i + n - 1]
  <2>1. \A n \in i .. j : t[n] \in Char
    BY <1>1, <1>4
  <2>. QED BY <1>1, <1>4, <2>1, SubSeqProperties, SMTT(60)
<1>6. /\ b \in Seq(Char) /\ Len(b) = (IF i <= k THEN k - i + 1 ELSE 0)
      /\ \A n \in 1 .. k - i + 1 : b[n] = x[i + n - 1]
  <2>1. \A n \in i .. k : x[n] \in Char
    BY <1>2, <1>4
  <2>. QED BY <1>2, <1>4, <2>1, SubSeqProperties
<1>. HIDE DEF a, b
<1>7. Len(a) <= Len(b)
  BY <1>4, <1>5, <1>6
<1>8. ASSUME NEW n \in 1 .. Len(a) PROVE a[n] = b[n]
  <2>1. n \in 1 .. j - i + 1 /\ n \in 1 .. k - i + 1 /\ i + n - 1 \in 1 .. Len(t) + Len(u) /\ i + n - 1 <= Len(t)
    BY <1>1, <1>4, <1>5
  <2>. QED BY <1>2, <1>5, <1>6, <2>1
<1>9. IsPrefix(a, b)
  BY <1>5, <1>6, <1>7, <1>8, PrefixIs
<1>10. a \in TextOf /\ b \in TextOf
  BY <1>5, <1>6, TextIs
<1>11. Begins(a, b)
  BY <1>9, <1>10, BeginsIs
<1>. QED BY <1>10, <1>11 DEF a, b, x

(* What a text that grows shows stays.                                     *)
LEMMA InkGrows ==
    ASSUME NEW t \in TextOf, NEW u \in TextOf
    PROVE  /\ Ink(t) \subseteq Ink(t \o u)
           /\ \A i \in Ink(t \o u) : i \in Ink(t) \/ i > Len(t)
<1>1. t \in Seq(Char) /\ u \in Seq(Char) /\ Len(t) \in Nat /\ Len(u) \in Nat
  BY TextIs
<1>. DEFINE x == t \o u
<1>2. /\ x \in Seq(Char) /\ Len(x) = Len(t) + Len(u)
      /\ \A n \in 1 .. Len(t) + Len(u) : x[n] = IF n <= Len(t) THEN t[n] ELSE u[n - Len(t)]
  BY <1>1, ConcatProperties
<1>3. DOMAIN x = 1 .. Len(x) /\ DOMAIN t = 1 .. Len(t)
  BY <1>1, <1>2
<1>. HIDE DEF x
<1>4. Ink(x) = {i \in 1 .. Len(x) : x[i] # "nl"} /\ Ink(t) = {i \in 1 .. Len(t) : t[i] # "nl"}
  BY <1>3 DEF Ink
<1>5. \A i \in 1 .. Len(t) : i \in 1 .. Len(x) /\ x[i] = t[i]
  BY <1>1, <1>2
<1>6. \A i \in 1 .. Len(x) : i \in 1 .. Len(t) \/ i > Len(t)
  BY <1>1, <1>2
<1>. QED BY <1>4, <1>5, <1>6 DEF x

(* So does a body whose end is not known.                                  *)
LEMMA TrimGrows ==
    ASSUME NEW t \in TextOf, NEW u \in TextOf
    PROVE  Begins(TrimEnd(t), TrimEnd(t \o u)) /\ Begins(Trim(t), Trim(t \o u))
<1>. DEFINE x == t \o u
<1>1. t \in Seq(Char) /\ x \in Seq(Char) /\ x \in TextOf /\ Len(t) \in Nat /\ Len(x) \in Nat
  <2>1. u \in Seq(Char) /\ t \in Seq(Char)
    BY TextIs
  <2>2. x \in Seq(Char)
    BY <2>1, ConcatProperties
  <2>. QED BY <2>1, <2>2, TextIs
<1>2. Ink(t) \subseteq Ink(x) /\ \A i \in Ink(x) : i \in Ink(t) \/ i > Len(t)
  BY InkGrows
<1>3. Begins(TrimEnd(t), TrimEnd(x))
  <2>. DEFINE j == Max(Ink(t) \cup {0})
              k == Max(Ink(x) \cup {0})
  <2>. HIDE DEF x
  <2>1. j \in 0 .. Len(t) /\ k \in 0 .. Len(x)
    BY <1>1, InkIs
  <2>2. Ink(x) \cup {0} \subseteq 0 .. Len(x) /\ Ink(t) \cup {0} \subseteq 0 .. Len(t)
    <3>1. Ink(x) \subseteq 1 .. Len(x) /\ Ink(t) \subseteq 1 .. Len(t)
      BY <1>1, InkIs
    <3>. QED BY <1>1, <3>1
  <2>3. j \in Ink(t) \cup {0} /\ \A y \in Ink(x) \cup {0} : k >= y
    BY <1>1, <2>2, MaxIs
  <2>4. j <= k
    BY <1>2, <2>1, <2>3
  <2>5. 1 \in 1 .. Len(t) + 1
    BY <1>1
  <2>6. TrimEnd(t) = SubSeq(t, 1, j) /\ TrimEnd(x) = SubSeq(x, 1, k)
    BY DEF TrimEnd
  <2>. HIDE DEF j, k
  <2>. QED BY <2>1, <2>4, <2>5, <2>6, PartBegins DEF x
<1>4. Begins(Trim(t), Trim(x))
  <2>1. CASE Ink(t) = {}
    <3>1. Trim(t) = <<>>
      BY <2>1 DEF Trim
    <3>2. Trim(x) \in TextOf
      <4>. HIDE DEF x
      <4>. QED BY <1>1, TrimIs, TextIs
    <3>. DEFINE y == Trim(x)
    <3>. HIDE DEF y
    <3>3. y \in Seq(Char)
      BY <3>2, TextIs DEF y
    <3>4. <<>> \o y = y
      BY <3>3, ConcatEmptySeq
    <3>. QED BY <3>1, <3>2, <3>4 DEF Begins, y
  <2>2. CASE Ink(t) # {}
    <3>. HIDE DEF x
    <3>. DEFINE i == Min(Ink(t))
                j == Max(Ink(t))
                k == Max(Ink(x))
    <3>1. Ink(x) # {} /\ Ink(x) \subseteq 1 .. Len(x) /\ Ink(t) \subseteq 1 .. Len(t)
      BY <1>1, <1>2, <2>2, InkIs
    <3>2. i \in 1 .. Len(t) /\ j \in 1 .. Len(t) /\ k \in 1 .. Len(x)
      BY <1>1, <2>2, <3>1, InkIs
    <3>3. i \in Ink(t) /\ (\A y \in Ink(t) : i <= y) /\ j \in Ink(t)
      <4>1. Ink(t) \subseteq Nat /\ Ink(t) \subseteq 0 .. Len(t)
        BY <1>1, <3>1
      <4>. QED BY <1>1, <2>2, <4>1, MinIs, MaxIs
    <3>4. Min(Ink(x)) = i
      <4>1. Ink(x) \subseteq Nat
        BY <1>1, <3>1
      <4>2. Min(Ink(x)) \in Ink(x) /\ \A y \in Ink(x) : Min(Ink(x)) <= y
        BY <3>1, <4>1, MinIs
      <4>3. i \in Ink(x) /\ \A y \in Ink(x) : i <= y
        BY <1>1, <1>2, <3>1, <3>2, <3>3
      <4>. DEFINE m == Min(Ink(x))
      <4>. HIDE DEF m, i
      <4>4. m \in Nat /\ i \in Nat /\ m <= i /\ i <= m
        BY <4>1, <4>2, <4>3 DEF m
      <4>. QED BY <4>4 DEF m
    <3>5. j <= k
      <4>1. Ink(x) \subseteq 0 .. Len(x)
        BY <1>1, <3>1
      <4>2. \A y \in Ink(x) : k >= y
        BY <1>1, <3>1, <4>1, MaxIs
      <4>. QED BY <1>2, <3>2, <3>3, <4>2
    <3>6. Trim(t) = SubSeq(t, i, j) /\ Trim(x) = SubSeq(x, i, k)
      BY <2>2, <3>1, <3>4 DEF Trim
    <3>. HIDE DEF i, j, k
    <3>7. i \in 1 .. Len(t) + 1 /\ j \in 0 .. Len(t) /\ k \in 0 .. Len(x)
      BY <1>1, <3>2
    <3>. QED BY <3>5, <3>6, <3>7, PartBegins DEF x
  <2>. QED BY <2>1, <2>2
<1>. QED BY <1>3, <1>4

(* Trimming at the beginning as well changes nothing that is printed, and  *)
(* nothing at all when the text does not begin with white space.           *)
LEMMA TrimPrinted ==
    ASSUME NEW t \in TextOf
    PROVE  /\ Printed(Trim(t)) = Printed(TrimEnd(t))
           /\ (Len(t) > 0 => t[1] # "nl") => Trim(t) = TrimEnd(t)
<1>1. t \in Seq(Char) /\ Len(t) \in Nat
  BY TextIs
<1>2. Ink(t) \subseteq 1 .. Len(t) /\ Ink(t) = {n \in 1 .. Len(t) : t[n] # "nl"}
  BY <1>1, InkIs DEF Ink
<1>3. CASE Ink(t) = {}
  <2>1. Ink(t) \cup {0} = {0}
    BY <1>3
  <2>2. Max({0}) = 0
    <3>1. {0} \subseteq 0 .. 0 /\ {0} # {} /\ 0 \in Nat
      OBVIOUS
    <3>2. Max({0}) \in {0}
      BY <3>1, MaxIs
    <3>. QED BY <3>2
  <2>3. TrimEnd(t) = SubSeq(t, 1, 0)
    BY <2>1, <2>2 DEF TrimEnd
  <2>4. SubSeq(t, 1, 0) = <<>>
    BY SubSeqEmpty
  <2>5. Trim(t) = <<>>
    BY <1>3 DEF Trim
  <2>. QED BY <2>3, <2>4, <2>5
<1>4. CASE Ink(t) # {}
  <2>. DEFINE i == Min(Ink(t))
              j == Max(Ink(t))
  <2>1. Ink(t) \subseteq Nat /\ Ink(t) \subseteq 0 .. Len(t) /\ Ink(t) \cup {0} \subseteq 0 .. Len(t)
    BY <1>1, <1>2
  <2>2. i \in Ink(t) /\ \A y \in Ink(t) : i <= y
    BY <1>4, <2>1, MinIs
  <2>3. j \in Ink(t) /\ \A y \in Ink(t) : j >= y
    BY <1>1, <1>4, <2>1, MaxIs
  <2>4. Max(Ink(t) \cup {0}) = j
    <3>. DEFINE m == Max(Ink(t) \cup {0})
    <3>1. m \in Ink(t) \cup {0} /\ \A y \in Ink(t) \cup {0} : m >= y
      BY <1>1, <2>1, MaxIs
    <3>. HIDE DEF m, j
    <3>2. m \in Nat /\ j \in Nat /\ m >= j
      BY <2>1, <2>3, <3>1
    <3>3. m <= j
      BY <2>3, <3>1, <3>2
    <3>. QED BY <3>2, <3>3 DEF m
  <2>5. Trim(t) = SubSeq(t, i, j) /\ TrimEnd(t) = SubSeq(t, 1, j)
    BY <1>4, <2>4 DEF Trim, TrimEnd
  <2>6. i \in 1 .. Len(t) /\ j \in 1 .. Len(t) /\ i <= j
    BY <1>2, <2>2, <2>3
  <2>. HIDE DEF i, j
  <2>7. ASSUME Len(t) > 0 => t[1] # "nl" PROVE i = 1
    <3>1. 1 \in Ink(t)
      BY <1>1, <1>2, <2>6, <2>7
    <3>. QED BY <2>2, <2>6, <3>1
  <2>. DEFINE a == SubSeq(t, 1, i - 1)
              b == SubSeq(t, i, j)
              d == SubSeq(t, 1, j)
  <2>8. d = a \o b
    <3>1. 1 \in 1 .. Len(t) + 1 /\ i - 1 \in 1 - 1 .. Len(t) /\ j \in i - 1 .. Len(t) /\ i - 1 + 1 = i
      BY <1>1, <2>6
    <3>2. SubSeq(t, 1, i - 1) \o SubSeq(t, i - 1 + 1, j) = SubSeq(t, 1, j)
      BY <1>1, <3>1, ConcatAdjacentSubSeq
    <3>. QED BY <3>1, <3>2
  <2>9. /\ a \in Seq(Char) /\ Len(a) = i - 1 /\ \A n \in 1 .. i - 1 : a[n] = t[n]
    <3>1. i \in 1 .. Len(t) + 1
      BY <1>1, <2>6
    <3>. QED BY <1>1, <3>1, BeforeIs DEF Before
  <2>10. b \in Seq(Char)
    <3>1. Trim(t) \in Seq(Char)
      BY <1>1, TrimIs
    <3>. QED BY <2>5, <3>1
  <2>. HIDE DEF a, b, d
  <2>11. Printed(a) = <<>>
    <3>1. \A n \in 1 .. Len(a) : a[n] = "nl"
      <4>1. ASSUME NEW n \in 1 .. i - 1 PROVE t[n] = "nl"
        <5>1. n \in 1 .. Len(t) /\ ~(i <= n)
          BY <1>1, <2>6
        <5>. QED BY <1>2, <2>2, <5>1
      <4>. QED BY <2>9, <4>1
    <3>. QED BY <2>9, <3>1, PrintedBlank, TextIs
  <2>12. Printed(d) = Printed(b)
    <3>1. Printed(d) = <<>> \o Printed(b)
      BY <2>8, <2>9, <2>10, <2>11, PrintedConcat, TextIs
    <3>2. Printed(b) \in Seq(Char)
      BY <2>10, PrintedIs, TextIs
    <3>. DEFINE y == Printed(b)
    <3>. HIDE DEF y
    <3>3. y \in Seq(Char)
      BY <3>2 DEF y
    <3>4. <<>> \o y = y
      BY <3>3, ConcatEmptySeq
    <3>. QED BY <3>1, <3>4 DEF y
  <2>. QED BY <2>5, <2>7, <2>12 DEF b, d
<1>. QED BY <1>3, <1>4

(* The reasoning of the streaming parse and of the other one.              *)
ReasoningOf(kind, live, t) == Channels(kind, live, t).reasoning

(* The reasoning of such a record.                                         *)
LEMMA ReasoningOfRecord ==
    ASSUME NEW c, NEW b
    PROVE  [content |-> c, reasoning |-> b].reasoning = b
OBVIOUS

(* It is the body of the first channel, and the reasoning of the rest.     *)
LEMMA ReasoningOfIs ==
    ASSUME NEW kind \in Kinds, NEW live \in BOOLEAN, NEW t \in TextOf
    PROVE  /\ ReasoningOf(kind, live, t) \in TextOf
           /\ Opening(t) = 0 \/ Nameless(kind, live, t) => ReasoningOf(kind, live, t) = <<>>
           /\ Opening(t) # 0 /\ ~Nameless(kind, live, t) /\ Closing(kind, t) = 0 =>
                 ReasoningOf(kind, live, t) = LastBody(kind, live, t)
           /\ ~NoChannel(kind, live, t) =>
                 ReasoningOf(kind, live, t)
                   = JoinBody(FirstBody(kind, t), ReasoningOf(kind, live, ChannelRest(kind, t)))
<1>. DEFINE r == Channels(kind, live, ChannelRest(kind, t))
<1>1. Channels(kind, live, t) \in Channel /\ Channels(kind, live, t) = ChannelStep(kind, live, t, r)
  BY ChannelsUnfold
<1>2. ReasoningOf(kind, live, t) \in TextOf
  BY <1>1 DEF ReasoningOf, Channel
<1>. HIDE DEF r
<1>3. ASSUME Opening(t) = 0 \/ Nameless(kind, live, t) PROVE ChannelStep(kind, live, t, r).reasoning = <<>>
  <2>1. CASE Opening(t) = 0
    BY <2>1, StepNone
  <2>2. CASE Opening(t) # 0
    BY <1>3, <2>2, StepNameless
  <2>. QED BY <2>1, <2>2
<1>4. ASSUME Opening(t) # 0, ~Nameless(kind, live, t), Closing(kind, t) = 0
      PROVE  ChannelStep(kind, live, t, r).reasoning = LastBody(kind, live, t)
  <2>1. ChannelStep(kind, live, t, r) =
          [content |-> Before(t, Opening(t)), reasoning |-> LastBody(kind, live, t)]
    BY <1>4, StepOpen
  <2>. QED BY <2>1, ReasoningOfRecord, Zenon
<1>5. ASSUME ~NoChannel(kind, live, t)
      PROVE  ChannelStep(kind, live, t, r).reasoning = JoinBody(FirstBody(kind, t), r.reasoning)
  <2>1. ChannelStep(kind, live, t, r) =
          [content |-> Before(t, Opening(t)) \o r.content, reasoning |-> JoinBody(FirstBody(kind, t), r.reasoning)]
    BY <1>5, StepClosed
  <2>. QED BY <2>1, ReasoningOfRecord, Zenon
<1>. QED BY <1>1, <1>2, <1>3, <1>4, <1>5 DEF ReasoningOf, r

(* Where a body would begin with white space: Gemma has two line breaks in *)
(* a row. Reasoning that does not grow otherwise only loses what is not    *)
(* printed.                                                                *)
Lines(kind, t) == kind = "gemma" /\ Occurs(t, <<"nl", "nl">>) # {}

Gains(indented, r, s) == Begins(r, s) \/ (indented /\ Printed(r) = Printed(s))

(* A body in front changes nothing of that.                                *)
LEMMA JoinGains ==
    ASSUME NEW b \in TextOf, NEW r \in TextOf, NEW s \in TextOf, NEW i, Gains(i, r, s)
    PROVE  Gains(i, JoinBody(b, r), JoinBody(b, s))
<1>. DEFINE l == <<"nl">>
<1>1. b \in Seq(Char) /\ r \in Seq(Char) /\ s \in Seq(Char) /\ l \in Seq(Char)
  BY TextIs DEF Char
<1>2. ASSUME NEW x \in TextOf PROVE Printed(JoinBody(b, x)) = Printed(b) \o Printed(x)
  <2>1. Printed(b) \in Seq(Char) /\ Printed(x) \in Seq(Char) /\ x \in Seq(Char)
    BY PrintedIs, TextIs
  <2>. DEFINE p == Printed(b)
              q == Printed(x)
  <2>2. p \in Seq(Char) /\ q \in Seq(Char)
    BY <2>1
  <2>3. CASE x = <<>>
    <3>1. q = <<>> /\ JoinBody(b, x) = b
      BY <2>3, PrintedIs DEF JoinBody
    <3>. HIDE DEF p, q
    <3>2. p \o <<>> = p
      BY <2>2, ConcatEmptySeq
    <3>. QED BY <3>1, <3>2 DEF p, q
  <2>4. CASE x # <<>> /\ b = <<>>
    <3>1. p = <<>> /\ JoinBody(b, x) = x
      BY <2>4, PrintedIs DEF JoinBody
    <3>. HIDE DEF p, q
    <3>2. <<>> \o q = q
      BY <2>2, ConcatEmptySeq
    <3>. QED BY <3>1, <3>2 DEF p, q
  <2>5. CASE x # <<>> /\ b # <<>>
    <3>1. JoinBody(b, x) = (b \o l) \o x
      BY <2>5 DEF JoinBody
    <3>2. l \in TextOf /\ Printed(l) = <<>>
      <4>1. Len(l) = 1 /\ l[1] = "nl"
        OBVIOUS
      <4>2. l \in TextOf
        BY <1>1, TextIs
      <4>. HIDE DEF l
      <4>3. \A n \in 1 .. Len(l) : l[n] = "nl"
        BY <4>1
      <4>. QED BY <4>2, <4>3, PrintedBlank
    <3>. HIDE DEF l
    <3>3. b \o l \in TextOf
      BY <1>1, ConcatProperties, TextIs
    <3>4. Printed((b \o l) \o x) = Printed(b \o l) \o q
      BY <3>3, PrintedConcat
    <3>5. Printed(b \o l) = p \o <<>>
      BY <3>2, PrintedConcat, ZenonT(60)
    <3>. HIDE DEF p, q
    <3>6. p \o <<>> = p
      BY <2>2, ConcatEmptySeq
    <3>. QED BY <3>1, <3>4, <3>5, <3>6 DEF p, q
  <2>. QED BY <2>3, <2>4, <2>5
<1>3. ASSUME Begins(r, s) PROVE Begins(JoinBody(b, r), JoinBody(b, s))
  <2>1. PICK v \in TextOf : s = r \o v
    BY <1>3 DEF Begins
  <2>2. v \in Seq(Char)
    BY TextIs
  <2>3. CASE b = <<>>
    <3>1. \A x : JoinBody(b, x) = x
      BY <2>3 DEF JoinBody
    <3>. QED BY <1>3, <3>1
  <2>4. CASE b # <<>> /\ r = <<>>
    <3>1. JoinBody(b, r) = b
      BY <2>4 DEF JoinBody
    <3>2. CASE s = <<>>
      <4>1. JoinBody(b, s) = b
        BY <3>2 DEF JoinBody
      <4>2. b \o <<>> = b
        BY <1>1, ConcatEmptySeq
      <4>3. <<>> \in TextOf
        BY TextIs
      <4>. QED BY <3>1, <4>1, <4>2, <4>3 DEF Begins
    <3>3. CASE s # <<>>
      <4>1. JoinBody(b, s) = (b \o l) \o s
        BY <2>4, <3>3 DEF JoinBody
      <4>. HIDE DEF l
      <4>2. (b \o l) \o s = b \o (l \o s)
        BY <1>1, ConcatAssociative, SMTT(60)
      <4>3. l \o s \in TextOf
        BY <1>1, ConcatProperties, TextIs
      <4>. QED BY <3>1, <4>1, <4>2, <4>3 DEF Begins
    <3>. QED BY <3>2, <3>3
  <2>5. CASE b # <<>> /\ r # <<>>
    <3>1. s # <<>>
      <4>1. Len(r) > 0 /\ Len(s) = Len(r) + Len(v) /\ Len(r) \in Nat /\ Len(v) \in Nat
        BY <1>1, <2>1, <2>2, <2>5, ConcatProperties
      <4>. QED BY <4>1
    <3>2. JoinBody(b, r) = (b \o l) \o r /\ JoinBody(b, s) = (b \o l) \o s
      BY <2>5, <3>1 DEF JoinBody
    <3>. HIDE DEF l
    <3>. DEFINE a == b \o l
    <3>3. a \in Seq(Char)
      BY <1>1, ConcatProperties
    <3>. HIDE DEF a
    <3>4. (a \o r) \o v = a \o (r \o v)
      <4>1. \A x, y, z \in Seq(Char) : (x \o y) \o z = x \o (y \o z)
        BY ConcatAssociative
      <4>. QED BY <1>1, <2>2, <3>3, <4>1
    <3>. QED BY <2>1, <3>2, <3>4 DEF Begins, a
  <2>. QED BY <2>3, <2>4, <2>5
<1>. QED BY <1>2, <1>3 DEF Gains

(* A token that is free of markers or a marker alone, and a text that does *)
(* not end with the beginning of one.                                      *)
Alone(g) == \/ \A j \in 1 .. Len(g) : g[j] # "<"
            \/ Len(g) = 2 /\ g[1] = "<" /\ g[2] \in Tails
Ready(t) == Len(t) > 0 => t[Len(t)] # "<"

(* A text that does not begin with the end of the marker m.                *)
Late(u, m) == Len(u) > 0 => u[1] # m[2]

(* Such a token closes a channel in which that text ends, or not.          *)
LEMMA AloneCloses ==
    ASSUME NEW w \in TextOf, NEW g \in TextOf, Ready(w), Alone(g), Find(w, ThinkClose) = 0
    PROVE  \/ Find(w \o g, ThinkClose) = 0
           \/ Find(w \o g, ThinkClose) = Len(w) + 1 /\ Len(g) = 2
<1>. DEFINE x == w \o g
            k == Find(x, ThinkClose)
<1>1. w \in Seq(Char) /\ g \in Seq(Char) /\ Len(w) \in Nat /\ Len(g) \in Nat
  BY TextIs
<1>2. /\ x \in Seq(Char) /\ Len(x) = Len(w) + Len(g)
      /\ \A n \in 1 .. Len(w) + Len(g) : x[n] = IF n <= Len(w) THEN w[n] ELSE g[n - Len(w)]
  BY <1>1, ConcatProperties
<1>3. k = 0 \/ k > Len(w) \/ (k = Len(w) /\ Len(w) > 0 /\ w[Len(w)] = "<")
  BY <1>1, FindExtends DEF ThinkClose
<1>. HIDE DEF x
<1>4. k \in 0 .. Len(x) /\ (k # 0 => k < Len(x) /\ Stands(x, ThinkClose, k))
  BY <1>2, FindIs
<1>. HIDE DEF k
<1>5. ASSUME k # 0 PROVE k = Len(w) + 1 /\ Len(g) = 2
  <2>1. k > Len(w) /\ k < Len(w) + Len(g) /\ x[k] = "<" /\ x[k + 1] = "/think"
    BY <1>1, <1>2, <1>3, <1>4, <1>5 DEF Ready, Stands, ThinkClose
  <2>2. /\ k - Len(w) \in 1 .. Len(g) /\ k \in 1 .. Len(w) + Len(g) /\ ~(k <= Len(w))
    BY <1>1, <1>4, <2>1
  <2>3. g[k - Len(w)] = "<"
    BY <1>2, <2>1, <2>2
  <2>4. Len(g) = 2 /\ g[1] = "<"
    BY <2>2, <2>3 DEF Alone
  <2>. QED BY <1>1, <1>4, <2>1, <2>4
<1>. QED BY <1>5 DEF k, x

(* The end of a text.                                                      *)
LEMMA ReadyAfter ==
    ASSUME NEW t \in TextOf, Ready(t), NEW d \in 0 .. Len(t)
    PROVE  Ready(After(t, d))
<1>1. t \in Seq(Char) /\ Len(t) \in Nat
  BY TextIs
<1>. DEFINE r == After(t, d)
<1>2. r \in Seq(Char) /\ Len(r) = Len(t) - d /\ \A i \in 1 .. Len(t) - d : r[i] = t[d + i]
  BY <1>1, AfterIs
<1>. HIDE DEF r
<1>3. ASSUME Len(r) > 0 PROVE r[Len(r)] = t[Len(t)] /\ Len(t) > 0
  <2>1. Len(r) \in 1 .. Len(t) - d /\ d + Len(r) = Len(t)
    BY <1>1, <1>2, <1>3
  <2>2. r[Len(r)] = t[d + Len(r)]
    BY <1>2, <2>1
  <2>. QED BY <1>1, <1>2, <2>1, <2>2
<1>4. Ready(r)
  BY <1>3 DEF Ready
<1>. QED BY <1>4 DEF r

(* What stands twice in the end of a text stands twice in it.              *)
LEMMA LinesAfter ==
    ASSUME NEW kind, NEW t \in TextOf, NEW d \in 0 .. Len(t), Lines(kind, After(t, d))
    PROVE  Lines(kind, t)
<1>1. t \in Seq(Char) /\ Len(t) \in Nat
  BY TextIs
<1>. DEFINE r == After(t, d)
            m == <<"nl", "nl">>
<1>2. r \in Seq(Char) /\ Len(r) = Len(t) - d /\ \A i \in 1 .. Len(t) - d : r[i] = t[d + i]
  BY <1>1, AfterIs
<1>3. kind = "gemma" /\ Occurs(r, m) # {}
  BY DEF Lines
<1>. HIDE DEF r, m
<1>4. PICK i \in Occurs(r, m) : TRUE
  BY <1>3
<1>5. r \in TextOf
  BY <1>2, TextIs
<1>6. i \in 1 .. Len(r) /\ i < Len(r) /\ Stands(r, m, i)
  BY <1>4, <1>5, OccursIs
<1>7. i + 1 \in 1 .. Len(t) - d /\ i \in 1 .. Len(t) - d /\ d + i \in 1 .. Len(t) /\ d + i < Len(t) /\ d + (i + 1) = d + i + 1
  BY <1>1, <1>2, <1>6
<1>8. Stands(t, m, d + i)
  BY <1>2, <1>6, <1>7 DEF Stands
<1>9. d + i \in Occurs(t, m)
  BY <1>7, <1>8, OccursIs
<1>. QED BY <1>3, <1>9 DEF Lines, m

(* A body of Gemma that begins with white space follows a line break.      *)
LEMMA WindowLines ==
    ASSUME NEW t \in TextOf, Opening(t) # 0, ~Nameless("gemma", TRUE, t),
           Len(Window("gemma", t)) > 0, Window("gemma", t)[1] = "nl"
    PROVE  Lines("gemma", t)
<1>. DEFINE o == Opening(t)
            named == After(t, o + 1)
            line == NameEnd("gemma", t)
            window == Window("gemma", t)
            m == <<"nl", "nl">>
<1>1. t \in Seq(Char) /\ Len(t) \in Nat
  BY TextIs
<1>2. line # 0 /\ line = FindChar(named, "nl") /\ window = After(t, o + 1 + line)
  BY DEF Nameless, NameEnd, Window
<1>3. "gemma" \in Kinds
  BY DEF Kinds
<1>4. /\ o \in 1 .. Len(t) /\ o + 1 \in 0 .. Len(t) /\ named \in Seq(Char)
      /\ line \in 0 .. Len(named) /\ o + 1 + line \in 0 .. Len(t) /\ window \in Seq(Char)
  BY <1>3, ChannelParts, TextIs
<1>5. Len(window) > 0 /\ window[1] = "nl"
  OBVIOUS
<1>6. named[line] = "nl"
  <2>. HIDE DEF named, line
  <2>. QED BY <1>2, <1>4, FindCharIs
<1>7. Len(named) = Len(t) - (o + 1) /\ \A i \in 1 .. Len(t) - (o + 1) : named[i] = t[o + 1 + i]
  <2>. HIDE DEF o
  <2>. QED BY <1>1, <1>4, AfterIs
<1>. DEFINE e == o + 1 + line
<1>8. Len(window) = Len(t) - e /\ \A i \in 1 .. Len(t) - e : window[i] = t[e + i]
  <2>1. e \in 0 .. Len(t) /\ window = After(t, e)
    BY <1>2, <1>4
  <2>. HIDE DEF e, window
  <2>. QED BY <1>1, <2>1, AfterIs
<1>. HIDE DEF o, named, line, window
<1>9. t[e] = "nl"
  <2>1. line \in 1 .. Len(t) - (o + 1)
    BY <1>1, <1>2, <1>4, <1>7, SMTT(60)
  <2>. QED BY <1>6, <1>7, <2>1
<1>10. e \in 1 .. Len(t) /\ e < Len(t) /\ 1 \in 1 .. Len(t) - e
  BY <1>1, <1>4, <1>5, <1>8
<1>11. t[e + 1] = "nl"
  BY <1>5, <1>8, <1>10
<1>. HIDE DEF e
<1>12. Stands(t, m, e)
  BY <1>9, <1>11 DEF Stands
<1>. HIDE DEF m
<1>13. e \in Occurs(t, m)
  BY <1>10, <1>12, OccursIs
<1>. QED BY <1>13 DEF Lines, m

(* The reasoning of an open channel that grows.                            *)
LEMMA BodyGains ==
    ASSUME NEW kind \in Kinds, NEW t \in TextOf, NEW g \in TextOf, Ready(t), Alone(g),
           Opening(t) # 0, ~Nameless(kind, TRUE, t), Closing(kind, t) = 0
    PROVE  Gains(Lines(kind, t), ReasoningOf(kind, TRUE, t), ReasoningOf(kind, TRUE, t \o g))
<1>. DEFINE x == t \o g
            w == Window(kind, t)
            r == ReasoningOf(kind, TRUE, t)
            s == ReasoningOf(kind, TRUE, x)
<1>1. x \in TextOf /\ w \in TextOf /\ Ready(w)
  <2>1. x \in TextOf
    BY ConcatProperties, TextIs
  <2>2. w \in TextOf
    BY ChannelParts
  <2>3. Ready(w)
    <3>1. Opening(t) + 1 + NameEnd(kind, t) \in 0 .. Len(t)
      BY ChannelParts
    <3>. QED BY <3>1, ReadyAfter DEF Window
  <2>. QED BY <2>1, <2>2, <2>3
<1>2. Opening(x) # 0 /\ ~Nameless(kind, TRUE, x) /\ Window(kind, x) = w \o g
  BY WindowGrows
<1>3. r = LastBody(kind, TRUE, t)
  BY ReasoningOfIs
<1>4. Find(w, ThinkClose) = 0
  BY DEF Closing
<1>5. Closing(kind, x) = Find(w \o g, ThinkClose)
  BY <1>2 DEF Closing
<1>. HIDE DEF x, w, r
<1>6. CASE Closing(kind, x) = 0
  <2>1. s = LastBody(kind, TRUE, x)
    BY <1>1, <1>2, <1>6, ReasoningOfIs
  <2>2. Begins(TrimEnd(w), TrimEnd(w \o g)) /\ Begins(Trim(w), Trim(w \o g))
    BY <1>1, TrimGrows
  <2>3. Begins(r, s)
    BY <1>2, <1>3, <2>1, <2>2 DEF LastBody, w
  <2>. QED BY <2>3 DEF Gains, r, x
<1>7. CASE Closing(kind, x) = Len(w) + 1 /\ Len(g) = 2
  <2>. DEFINE e == <<>>
              n == Len(w) + 1
  <2>1. w \in Seq(Char) /\ g \in Seq(Char) /\ Len(w) \in Nat /\ Len(w \o g) = Len(w) + 2 /\ w \o g \in Seq(Char)
    <3>1. w \in Seq(Char) /\ g \in Seq(Char) /\ Len(w) \in Nat
      BY <1>1, TextIs
    <3>2. w \o g \in Seq(Char) /\ Len(w \o g) = Len(w) + Len(g)
      BY <3>1, ConcatProperties
    <3>. QED BY <1>7, <3>1, <3>2
  <2>2. ~NoChannel(kind, TRUE, x)
    <3>1. Closing(kind, x) # 0
      BY <1>7, <2>1
    <3>. QED BY <1>2, <3>1 DEF NoChannel
  <2>3. FirstBody(kind, x) = Trim(w)
    <3>1. Before(w \o g, n) = Before(w, n)
      <4>1. n \in 1 .. Len(w) + 1
        BY <2>1
      <4>. HIDE DEF n
      <4>. QED BY <2>1, <4>1, BeforeConcat
    <3>2. Before(w, n) = w
      <4>1. SubSeq(w, 1, Len(w)) = w
        BY <2>1, SubSeqFull
      <4>2. n - 1 = Len(w)
        BY <2>1
      <4>. QED BY <4>1, <4>2 DEF Before
    <3>. QED BY <1>2, <1>7, <3>1, <3>2 DEF FirstBody
  <2>4. ChannelRest(kind, x) = e
    <3>. DEFINE y == w \o g
    <3>1. ChannelRest(kind, x) = After(y, n + 1)
      BY <1>2, <1>7 DEF ChannelRest
    <3>. HIDE DEF y
    <3>2. y \in Seq(Char) /\ n + 1 = Len(y)
      BY <2>1 DEF y
    <3>3. Len(y) \in 0 .. Len(y) /\ Len(y) \in Nat
      BY <3>2
    <3>4. After(y, Len(y)) \in Seq(Char) /\ Len(After(y, Len(y))) = Len(y) - Len(y)
      BY <3>2, <3>3, AfterIs
    <3>5. After(y, Len(y)) = e
      BY <3>3, <3>4
    <3>. QED BY <3>1, <3>2, <3>5
  <2>5. ReasoningOf(kind, TRUE, e) = <<>>
    <3>1. e \in TextOf /\ e \in Seq(Char) /\ Len(e) = 0
      BY TextIs
    <3>. HIDE DEF e
    <3>2. Find(e, ThinkOpen) \in 0 .. Len(e)
      BY <3>1, FindIs
    <3>3. Opening(e) = 0
      BY <3>1, <3>2 DEF Opening
    <3>. QED BY <3>1, <3>3, ReasoningOfIs
  <2>6. s = Trim(w)
    <3>1. s = JoinBody(FirstBody(kind, x), ReasoningOf(kind, TRUE, ChannelRest(kind, x)))
      BY <1>1, <2>2, ReasoningOfIs
    <3>. HIDE DEF s, e
    <3>2. s = JoinBody(Trim(w), <<>>)
      BY <2>3, <2>4, <2>5, <3>1
    <3>. QED BY <3>2 DEF JoinBody
  <2>7. Trim(w) \in TextOf /\ TrimEnd(w) \in TextOf
    BY <2>1, TrimIs, TextIs
  <2>8. r = TrimEnd(w) \/ r = Trim(w)
    BY <1>3 DEF LastBody, w
  <2>9. Begins(Trim(w), Trim(w))
    <3>. DEFINE y == Trim(w)
    <3>. HIDE DEF y
    <3>1. y \in Seq(Char)
      BY <2>7, TextIs DEF y
    <3>2. y \o <<>> = y
      BY <3>1, ConcatEmptySeq
    <3>3. <<>> \in TextOf
      BY TextIs
    <3>4. Begins(y, y)
      BY <3>2, <3>3 DEF Begins
    <3>. QED BY <3>4 DEF y
  <2>10. CASE kind = "gemma" /\ Lines(kind, t)
    <3>1. Printed(r) = Printed(s)
      BY <1>1, <2>6, <2>8, TrimPrinted
    <3>. QED BY <2>10, <3>1 DEF Gains, r, x
  <2>11. CASE ~(kind = "gemma" /\ Lines(kind, t))
    <3>1. r = s
      <4>1. CASE kind # "gemma"
        BY <1>3, <2>6, <4>1 DEF LastBody, w
      <4>2. CASE kind = "gemma"
        <5>1. Len(w) > 0 => w[1] # "nl"
          BY <2>11, <4>2, WindowLines DEF w
        <5>2. Trim(w) = TrimEnd(w)
          BY <1>1, <5>1, TrimPrinted
        <5>. QED BY <2>6, <2>8, <5>2
      <4>. QED BY <4>1, <4>2
    <3>2. Begins(r, s)
      BY <2>6, <2>9, <3>1
    <3>. QED BY <3>2 DEF Gains, r, x
  <2>. QED BY <2>10, <2>11
<1>. QED BY <1>1, <1>4, <1>5, <1>6, <1>7, AloneCloses

(* The reasoning of the streaming parse gains with every token.            *)
LEMMA ReasoningGains ==
    ASSUME NEW kind \in Kinds, NEW t \in TextOf, NEW g \in TextOf, Ready(t), Alone(g)
    PROVE  Gains(Lines(kind, t), ReasoningOf(kind, TRUE, t), ReasoningOf(kind, TRUE, t \o g))
<1>. DEFINE G(s) == Gains(Lines(kind, s), ReasoningOf(kind, TRUE, s), ReasoningOf(kind, TRUE, s \o g))
            U == {s \in TextOf : Ready(s) => G(s)}
<1>1. ASSUME NEW s \in TextOf, \A r \in TextOf : Len(r) < Len(s) => r \in U PROVE s \in U
  <2>. SUFFICES ASSUME Ready(s) PROVE G(s)
    OBVIOUS
  <2>0. s \o g \in TextOf
    BY ConcatProperties, TextIs
  <2>1. CASE Opening(s) = 0 \/ Nameless(kind, TRUE, s)
    <3>1. ReasoningOf(kind, TRUE, s) = <<>>
      BY <2>1, ReasoningOfIs
    <3>. DEFINE y == ReasoningOf(kind, TRUE, s \o g)
    <3>2. y \in TextOf
      BY <2>0, ReasoningOfIs
    <3>. HIDE DEF y
    <3>3. y \in Seq(Char)
      BY <3>2, TextIs
    <3>4. <<>> \o y = y
      BY <3>3, ConcatEmptySeq
    <3>5. Begins(<<>>, y)
      BY <3>2, <3>4 DEF Begins
    <3>. QED BY <3>1, <3>5 DEF Gains, y
  <2>2. CASE Opening(s) # 0 /\ ~Nameless(kind, TRUE, s) /\ Closing(kind, s) = 0
    BY <2>2, BodyGains
  <2>3. CASE ~NoChannel(kind, TRUE, s)
    <3>. DEFINE r == ChannelRest(kind, s)
                d == Opening(s) + 1 + NameEnd(kind, s)
                w == Window(kind, s)
                e == Closing(kind, s) + 1
    <3>1. r \in TextOf /\ Len(r) < Len(s)
      BY <2>3, ChannelParts DEF NoChannel
    <3>2. d \in 0 .. Len(s) /\ w \in TextOf /\ e \in 0 .. Len(w) /\ w = After(s, d) /\ r = After(w, e)
      BY <2>3, ChannelParts DEF NoChannel, Window, ChannelRest
    <3>3. ~NoChannel(kind, TRUE, s \o g) /\ FirstBody(kind, s \o g) = FirstBody(kind, s)
          /\ ChannelRest(kind, s \o g) = r \o g
      BY <2>3, ChannelPartsStay
    <3>. DEFINE b == FirstBody(kind, s)
    <3>4. b \in TextOf
      <4>1. Before(Window(kind, s), Closing(kind, s)) \in Seq(Char)
        BY <2>3, ChannelParts, TextIs DEF NoChannel
      <4>. QED BY <4>1, TrimIs, TextIs DEF FirstBody
    <3>5. ReasoningOf(kind, TRUE, s) = JoinBody(b, ReasoningOf(kind, TRUE, r))
      BY <2>3, ReasoningOfIs
    <3>6. ReasoningOf(kind, TRUE, s \o g) = JoinBody(b, ReasoningOf(kind, TRUE, r \o g))
      <4>. DEFINE y == s \o g
      <4>1. y \in TextOf /\ ~NoChannel(kind, TRUE, y) /\ FirstBody(kind, y) = b /\ ChannelRest(kind, y) = r \o g
        BY <2>0, <3>3
      <4>. HIDE DEF y, b, r
      <4>2. ReasoningOf(kind, TRUE, y) = JoinBody(FirstBody(kind, y), ReasoningOf(kind, TRUE, ChannelRest(kind, y)))
        BY <4>1, ReasoningOfIs
      <4>. QED BY <4>1, <4>2 DEF y
    <3>. HIDE DEF r, d, w, e, b
    <3>7. Ready(w) /\ Ready(r)
      BY <3>2, ReadyAfter
    <3>8. Gains(Lines(kind, r), ReasoningOf(kind, TRUE, r), ReasoningOf(kind, TRUE, r \o g))
      BY <1>1, <3>1, <3>7
    <3>9. Lines(kind, r) => Lines(kind, s)
      BY <3>2, LinesAfter
    <3>10. Gains(Lines(kind, s), ReasoningOf(kind, TRUE, r), ReasoningOf(kind, TRUE, r \o g))
      BY <3>8, <3>9 DEF Gains
    <3>11. r \o g \in TextOf
      BY <3>1, ConcatProperties, TextIs
    <3>. DEFINE a == ReasoningOf(kind, TRUE, r)
                c == ReasoningOf(kind, TRUE, r \o g)
                l == Lines(kind, s)
    <3>12. a \in TextOf /\ c \in TextOf /\ Gains(l, a, c)
      BY <3>1, <3>10, <3>11, ReasoningOfIs
    <3>. HIDE DEF a, c, l
    <3>13. Gains(l, JoinBody(b, a), JoinBody(b, c))
      BY <3>4, <3>12, JoinGains
    <3>. QED BY <3>5, <3>6, <3>13 DEF a, c, l
  <2>. QED BY <2>1, <2>2, <2>3 DEF NoChannel
<1>. HIDE DEF U
<1>2. TextOf \subseteq U
  BY <1>1, TextInduction
<1>. QED BY <1>2 DEF U

(* A channel of a text whose channels are closed is closed.                *)
LEMMA ClosedCloses ==
    ASSUME NEW kind \in Kinds, NEW t \in TextOf, Closed(kind, t), Opening(t) # 0
    PROVE  Closing(kind, t) # 0
<1>. DEFINE o == Opening(t)
            named == After(t, o + 1)
            line == NameEnd(kind, t)
            w == Window(kind, t)
            e == o + 1 + line
<1>1. t \in Seq(Char) /\ Len(t) \in Nat /\ o \in 1 .. Len(t) /\ o < Len(t) /\ Stands(t, ThinkOpen, o)
  BY TextIs, FindIs DEF Opening
<1>2. /\ named \in Seq(Char) /\ line \in 0 .. Len(named) /\ e \in 0 .. Len(t) /\ w = After(t, e) /\ o + 1 \in 0 .. Len(t)
      /\ (kind = "gemma" => line = FindChar(named, "nl"))
  BY ChannelParts, TextIs DEF NameEnd, Window
<1>3. t[o] = "<" /\ t[o + 1] = "think"
  BY <1>1 DEF Stands, ThinkOpen
<1>4. o \in Occurs(t, ThinkOpen)
  <2>. HIDE DEF o
  <2>. QED BY <1>1, OccursIs
<1>5. PICK k \in Occurs(t, ThinkClose) : o < k /\ (kind = "gemma" => \E j \in o .. k : t[j] = "nl")
  BY <1>4 DEF Closed
<1>6. k \in 1 .. Len(t) /\ k < Len(t) /\ t[k] = "<" /\ t[k + 1] = "/think"
  <2>1. k \in 1 .. Len(t) /\ k < Len(t) /\ Stands(t, ThinkClose, k)
    BY OccursIs
  <2>. QED BY <2>1 DEF Stands, ThinkClose
<1>7. /\ Len(named) = Len(t) - (o + 1) /\ \A i \in 1 .. Len(t) - (o + 1) : named[i] = t[o + 1 + i]
  <2>. HIDE DEF o
  <2>. QED BY <1>1, <1>2, AfterIs
<1>8. w \in Seq(Char) /\ Len(w) = Len(t) - e /\ \A i \in 1 .. Len(t) - e : w[i] = t[e + i]
  <2>. HIDE DEF e, w
  <2>. QED BY <1>1, <1>2, AfterIs
<1>10. e = o + 1 + line
  OBVIOUS
<1>. HIDE DEF o, named, line, w, e
<1>9. k > e
  <2>1. k > o + 1
    BY <1>1, <1>3, <1>5, <1>6
  <2>2. CASE kind # "gemma"
    <3>1. line = 0
      BY <2>2 DEF line, NameEnd
    <3>. QED BY <1>1, <1>6, <1>10, <2>1, <3>1
  <2>3. CASE kind = "gemma"
    <3>1. PICK j \in o .. k : t[j] = "nl"
      BY <1>5, <2>3
    <3>2. j # o /\ j # o + 1 /\ j # k
      BY <1>3, <1>6, <3>1
    <3>3. j - (o + 1) \in 1 .. Len(t) - (o + 1) /\ o + 1 + (j - (o + 1)) = j /\ j < k
      BY <1>1, <1>6, <3>2
    <3>4. named[j - (o + 1)] = "nl"
      BY <1>7, <3>1, <3>3
    <3>5. FindChar(named, "nl") <= j - (o + 1)
      <4>. DEFINE f == FindChar(named, "nl")
                  i == j - (o + 1)
      <4>1. /\ f \in 0 .. Len(named) /\ (f # 0 => \A n \in 1 .. f - 1 : named[n] # "nl")
            /\ (f = 0 => \A n \in 1 .. Len(named) : named[n] # "nl")
        BY <1>2, FindCharIs
      <4>2. i \in 1 .. Len(named) /\ named[i] = "nl"
        BY <1>7, <3>3, <3>4
      <4>. HIDE DEF f, i
      <4>3. f # 0 /\ ~(i \in 1 .. f - 1)
        BY <4>1, <4>2
      <4>4. f <= i
        BY <1>2, <4>1, <4>2, <4>3
      <4>. QED BY <4>4 DEF f, i
    <3>. QED BY <1>1, <1>2, <1>6, <1>10, <2>3, <3>3, <3>5
  <2>. QED BY <2>2, <2>3
<1>11. e \in Nat /\ k - e \in 1 .. Len(w) - 1 /\ e + (k - e) = k /\ e + (k - e + 1) = k + 1
       /\ k - e \in 1 .. Len(t) - e /\ k - e + 1 \in 1 .. Len(t) - e
  BY <1>1, <1>2, <1>6, <1>8, <1>9
<1>12. Stands(w, ThinkClose, k - e)
  <2>1. w[k - e] = t[e + (k - e)] /\ w[k - e + 1] = t[e + (k - e + 1)]
    BY <1>8, <1>11
  <2>. QED BY <1>6, <1>11, <2>1 DEF Stands, ThinkClose
<1>13. Find(w, ThinkClose) # 0
  BY <1>8, <1>11, <1>12, FindIs
<1>. QED BY <1>13 DEF Closing, w

(* The reasoning of such a text is the same in both parses.                *)
LEMMA ReasoningClosed ==
    ASSUME NEW kind \in Kinds, NEW t \in TextOf, Closed(kind, t)
    PROVE  ReasoningOf(kind, FALSE, t) = ReasoningOf(kind, TRUE, t)
<1>. DEFINE U == {s \in TextOf : Closed(kind, s) => ReasoningOf(kind, FALSE, s) = ReasoningOf(kind, TRUE, s)}
<1>1. ASSUME NEW s \in TextOf, \A r \in TextOf : Len(r) < Len(s) => r \in U PROVE s \in U
  <2>. SUFFICES ASSUME Closed(kind, s) PROVE ReasoningOf(kind, FALSE, s) = ReasoningOf(kind, TRUE, s)
    OBVIOUS
  <2>1. CASE Opening(s) = 0
    BY <2>1, ReasoningOfIs
  <2>2. CASE Opening(s) # 0
    <3>1. ~Nameless(kind, TRUE, s) /\ Closing(kind, s) # 0
      BY <2>2, ClosedNamed, ClosedCloses
    <3>2. ~NoChannel(kind, TRUE, s) /\ ~NoChannel(kind, FALSE, s)
      BY <2>2, <3>1, SameChannels DEF NoChannel
    <3>3. ChannelRest(kind, s) \in U /\ Closed(kind, ChannelRest(kind, s))
      BY <1>1, <2>2, <3>1, <3>2, ChannelParts, ClosedRest
    <3>4. ReasoningOf(kind, FALSE, ChannelRest(kind, s)) = ReasoningOf(kind, TRUE, ChannelRest(kind, s))
      BY <3>3
    <3>5. ReasoningOf(kind, TRUE, s) = JoinBody(FirstBody(kind, s), ReasoningOf(kind, TRUE, ChannelRest(kind, s)))
      BY <3>2, ReasoningOfIs
    <3>6. ReasoningOf(kind, FALSE, s) = JoinBody(FirstBody(kind, s), ReasoningOf(kind, FALSE, ChannelRest(kind, s)))
      BY <3>2, ReasoningOfIs
    <3>. QED BY <3>4, <3>5, <3>6
  <2>. QED BY <2>1, <2>2
<1>. HIDE DEF U
<1>2. TextOf \subseteq U
  BY <1>1, TextInduction
<1>. QED BY <1>2 DEF U

-----------------------------------------------------------------------------
(* What the client of a stream puts together of the text: the text of the  *)
(* streaming parse grows with the answer, and into that of the plain       *)
(* response, when no marker is removed right after a "<" (Doubled) and     *)
(* Gemma starts no other turn (Overshoots).                                *)

(* Two texts in a row.                                                     *)
LEMMA TextConcat ==
    ASSUME NEW t \in TextOf, NEW u \in TextOf
    PROVE  /\ t \o u \in TextOf /\ Len(t \o u) = Len(t) + Len(u)
           /\ Len(t) \in Nat /\ Len(u) \in Nat
           /\ \A i \in 1 .. Len(t) + Len(u) : (t \o u)[i] = IF i <= Len(t) THEN t[i] ELSE u[i - Len(t)]
           /\ t \o <<>> = t /\ <<>> \o t = t
<1>1. t \in Seq(Char) /\ u \in Seq(Char)
  BY TextIs
<1>2. /\ t \o u \in Seq(Char) /\ Len(t \o u) = Len(t) + Len(u)
      /\ \A i \in 1 .. Len(t) + Len(u) : (t \o u)[i] = IF i <= Len(t) THEN t[i] ELSE u[i - Len(t)]
  BY <1>1, ConcatProperties
<1>3. t \o <<>> = t /\ <<>> \o t = t
  BY <1>1, ConcatEmptySeq
<1>. QED BY <1>1, <1>2, <1>3, TextIs

(* Three texts in a row.                                                   *)
LEMMA TextAssoc ==
    ASSUME NEW t \in TextOf, NEW u \in TextOf, NEW v \in TextOf
    PROVE  (t \o u) \o v = t \o (u \o v)
<1>1. t \in Seq(Char) /\ u \in Seq(Char) /\ v \in Seq(Char)
  BY TextIs
<1>2. \A x, y, z \in Seq(Char) : (x \o y) \o z = x \o (y \o z)
  BY ConcatAssociative
<1>. QED BY <1>1, <1>2

(* A text is cut in two at any place.                                      *)
LEMMA TextCut ==
    ASSUME NEW t \in TextOf, NEW d \in 0 .. Len(t)
    PROVE  /\ Before(t, d + 1) \in TextOf /\ After(t, d) \in TextOf
           /\ t = Before(t, d + 1) \o After(t, d)
<1>1. t \in Seq(Char) /\ Len(t) \in Nat /\ d + 1 \in 1 .. Len(t) + 1 /\ d + 1 - 1 = d
  BY TextIs
<1>. DEFINE b == Before(t, d + 1)
            a == After(t, d)
            i == d + 1
            x == b \o a
<1>2. b \in Seq(Char) /\ Len(b) = d /\ \A j \in 1 .. d : b[j] = t[j]
  <2>. HIDE DEF i
  <2>1. /\ Before(t, i) \in Seq(Char) /\ Len(Before(t, i)) = i - 1
        /\ \A j \in 1 .. i - 1 : Before(t, i)[j] = t[j]
    BY <1>1, BeforeIs DEF i
  <2>. QED BY <1>1, <2>1 DEF i
<1>3. a \in Seq(Char) /\ Len(a) = Len(t) - d /\ \A j \in 1 .. Len(t) - d : a[j] = t[d + j]
  BY <1>1, AfterIs
<1>. HIDE DEF b, a
<1>4. /\ x \in Seq(Char) /\ Len(x) = Len(b) + Len(a)
      /\ \A j \in 1 .. Len(b) + Len(a) : x[j] = IF j <= Len(b) THEN b[j] ELSE a[j - Len(b)]
  BY <1>2, <1>3, ConcatProperties
<1>. HIDE DEF x
<1>5. Len(x) = Len(t)
  BY <1>1, <1>2, <1>3, <1>4
<1>6. ASSUME NEW j \in 1 .. Len(x) PROVE x[j] = t[j]
  <2>1. CASE j <= d
    BY <1>1, <1>2, <1>3, <1>4, <1>5, <2>1
  <2>2. CASE j > d
    <3>1. j - d \in 1 .. Len(t) - d /\ j \in 1 .. Len(b) + Len(a) /\ ~(j <= Len(b)) /\ d + (j - d) = j
      BY <1>1, <1>2, <1>3, <1>5, <2>2
    <3>2. x[j] = a[j - d]
      BY <1>2, <1>4, <3>1
    <3>3. a[j - d] = t[d + (j - d)]
      BY <1>3, <3>1
    <3>. QED BY <3>1, <3>2, <3>3
  <2>. QED BY <1>1, <2>1, <2>2
<1>7. x = t
  BY <1>1, <1>4, <1>5, <1>6, SeqEqual
<1>. QED BY <1>2, <1>3, <1>7, TextIs DEF x, a, b

(* A text without the marker m.                                            *)
Free(t, m) == Occurs(t, m) = {}

(* It is one in which m does not stand anywhere, and is not found.         *)
LEMMA FreeIs ==
    ASSUME NEW t \in TextOf, NEW m
    PROVE  /\ Free(t, m) <=> \A i \in 1 .. Len(t) - 1 : ~Stands(t, m, i)
           /\ Free(t, m) <=> Find(t, m) = 0
<1>1. t \in Seq(Char) /\ Len(t) \in Nat
  BY TextIs
<1>2. \A i : i \in Occurs(t, m) <=> i \in 1 .. Len(t) /\ i < Len(t) /\ Stands(t, m, i)
  BY OccursIs
<1>3. Free(t, m) <=> \A i \in 1 .. Len(t) - 1 : ~Stands(t, m, i)
  BY <1>1, <1>2 DEF Free
<1>4. /\ Find(t, m) # 0 => Find(t, m) < Len(t) /\ Stands(t, m, Find(t, m)) /\ Find(t, m) \in 1 .. Len(t) - 1
      /\ Find(t, m) = 0 => \A i \in 1 .. Len(t) - 1 : ~Stands(t, m, i)
  BY <1>1, FindIs
<1>. QED BY <1>3, <1>4

(* The parts of a text without a marker have none.                         *)
LEMMA FreeParts ==
    ASSUME NEW t \in TextOf, NEW u \in TextOf, NEW m, Free(t \o u, m)
    PROVE  Free(t, m) /\ Free(u, m)
<1>. DEFINE x == t \o u
<1>1. /\ x \in TextOf /\ Len(x) = Len(t) + Len(u) /\ Len(t) \in Nat /\ Len(u) \in Nat
      /\ \A i \in 1 .. Len(t) + Len(u) : x[i] = IF i <= Len(t) THEN t[i] ELSE u[i - Len(t)]
  BY TextConcat
<1>2. Free(x, m)
  OBVIOUS
<1>. HIDE DEF x
<1>3. \A i \in 1 .. Len(x) - 1 : ~Stands(x, m, i)
  BY <1>1, <1>2, FreeIs
<1>4. ASSUME NEW i \in 1 .. Len(t) - 1 PROVE ~Stands(t, m, i)
  <2>1. x[i] = t[i] /\ x[i + 1] = t[i + 1] /\ i \in 1 .. Len(x) - 1
    BY <1>1
  <2>. QED BY <1>3, <2>1 DEF Stands
<1>5. ASSUME NEW i \in 1 .. Len(u) - 1 PROVE ~Stands(u, m, i)
  <2>. DEFINE k == Len(t) + i
  <2>1. /\ k \in 1 .. Len(t) + Len(u) /\ k + 1 \in 1 .. Len(t) + Len(u) /\ k \in 1 .. Len(x) - 1
        /\ ~(k <= Len(t)) /\ ~(k + 1 <= Len(t)) /\ k - Len(t) = i /\ k + 1 - Len(t) = i + 1
    BY <1>1
  <2>. HIDE DEF k
  <2>2. x[k] = u[i] /\ x[k + 1] = u[i + 1]
    BY <1>1, <2>1
  <2>. QED BY <1>3, <2>1, <2>2 DEF Stands
<1>. QED BY <1>4, <1>5, FreeIs

(* A marker does not arise where the first text does not end with its      *)
(* beginning, or the second does not begin with its end.                   *)
LEMMA FreeJoin ==
    ASSUME NEW t \in TextOf, NEW u \in TextOf, NEW m, m[1] = "<", Ready(t) \/ Late(u, m), Free(t, m), Free(u, m)
    PROVE  Free(t \o u, m)
<1>. DEFINE x == t \o u
<1>1. /\ x \in TextOf /\ Len(x) = Len(t) + Len(u) /\ Len(t) \in Nat /\ Len(u) \in Nat
      /\ \A i \in 1 .. Len(t) + Len(u) : x[i] = IF i <= Len(t) THEN t[i] ELSE u[i - Len(t)]
  BY TextConcat
<1>2. (\A i \in 1 .. Len(t) - 1 : ~Stands(t, m, i)) /\ (\A i \in 1 .. Len(u) - 1 : ~Stands(u, m, i))
  BY FreeIs
<1>. HIDE DEF x
<1>3. ASSUME NEW i \in 1 .. Len(x) - 1 PROVE ~Stands(x, m, i)
  <2>1. CASE i < Len(t)
    <3>1. x[i] = t[i] /\ x[i + 1] = t[i + 1] /\ i \in 1 .. Len(t) - 1
      BY <1>1, <2>1
    <3>. QED BY <1>2, <3>1 DEF Stands
  <2>2. CASE i = Len(t)
    <3>1. x[i] = t[i] /\ Len(t) > 0 /\ x[i + 1] = u[1] /\ Len(u) > 0
      BY <1>1, <2>2
    <3>. QED BY <2>2, <3>1 DEF Ready, Late, Stands
  <2>3. CASE i > Len(t)
    <3>. DEFINE k == i - Len(t)
    <3>1. /\ k \in 1 .. Len(u) - 1 /\ i \in 1 .. Len(t) + Len(u) /\ i + 1 \in 1 .. Len(t) + Len(u)
          /\ ~(i <= Len(t)) /\ ~(i + 1 <= Len(t)) /\ i + 1 - Len(t) = k + 1
      BY <1>1, <2>3
    <3>2. x[i] = u[k] /\ x[i + 1] = u[k + 1]
      BY <1>1, <3>1
    <3>. QED BY <1>2, <3>1, <3>2 DEF Stands
  <2>. QED BY <1>1, <2>1, <2>2, <2>3
<1>4. Free(x, m)
  BY <1>1, <1>3, FreeIs
<1>. QED BY <1>4 DEF x

(* Two texts in a row do not end with a "<" when neither does.             *)
LEMMA ReadyJoin ==
    ASSUME NEW t \in TextOf, NEW u \in TextOf, Ready(t), Ready(u)
    PROVE  Ready(t \o u)
<1>. DEFINE x == t \o u
<1>1. /\ x \in TextOf /\ Len(x) = Len(t) + Len(u) /\ Len(t) \in Nat /\ Len(u) \in Nat
      /\ \A i \in 1 .. Len(t) + Len(u) : x[i] = IF i <= Len(t) THEN t[i] ELSE u[i - Len(t)]
  BY TextConcat
<1>. HIDE DEF x
<1>2. CASE Len(u) = 0
  <2>1. Len(x) = Len(t) /\ (Len(t) > 0 => x[Len(t)] = t[Len(t)])
    BY <1>1, <1>2
  <2>2. Ready(x)
    BY <2>1 DEF Ready
  <2>. QED BY <2>2 DEF x
<1>3. CASE Len(u) > 0
  <2>1. Len(x) \in 1 .. Len(t) + Len(u) /\ ~(Len(x) <= Len(t)) /\ Len(x) - Len(t) = Len(u)
    BY <1>1, <1>3
  <2>2. x[Len(x)] = u[Len(u)]
    BY <1>1, <2>1
  <2>3. Ready(x)
    BY <1>3, <2>2 DEF Ready
  <2>. QED BY <2>3 DEF x
<1>. QED BY <1>1, <1>2, <1>3

Twice == <<"<", "<">>

(* What stands before a "<" does not end with another one.                 *)
LEMMA ReadyBefore ==
    ASSUME NEW t \in TextOf, Free(t, Twice), NEW i \in 1 .. Len(t), t[i] = "<"
    PROVE  Ready(Before(t, i))
<1>1. t \in Seq(Char) /\ Len(t) \in Nat /\ i \in 1 .. Len(t) + 1
  BY TextIs
<1>. DEFINE b == Before(t, i)
<1>2. b \in Seq(Char) /\ Len(b) = i - 1 /\ \A j \in 1 .. i - 1 : b[j] = t[j]
  BY <1>1, BeforeIs
<1>. HIDE DEF b
<1>3. \A j \in 1 .. Len(t) - 1 : ~Stands(t, Twice, j)
  BY FreeIs
<1>4. ASSUME Len(b) > 0, b[Len(b)] = "<" PROVE FALSE
  <2>1. i - 1 \in 1 .. i - 1 /\ i - 1 \in 1 .. Len(t) - 1 /\ i - 1 + 1 = i
    BY <1>1, <1>2, <1>4
  <2>2. t[i - 1] = "<"
    BY <1>2, <1>4, <2>1
  <2>. QED BY <1>3, <2>1, <2>2 DEF Stands, Twice
<1>5. Ready(b)
  BY <1>4 DEF Ready
<1>. QED BY <1>5 DEF b

(* A text that can be parsed and heard piece by piece: no "<" stands right *)
(* before another one, and Gemma starts no other turn.                     *)
Clean(kind, t) == Free(t, Twice) /\ (kind = "gemma" => Free(t, TurnOpen))

(* Parts of a clean text are clean.                                        *)
LEMMA CleanParts ==
    ASSUME NEW kind, NEW t \in TextOf, NEW u \in TextOf, Clean(kind, t \o u)
    PROVE  Clean(kind, t) /\ Clean(kind, u)
BY FreeParts DEF Clean

(* Clean texts make a clean text when the first does not end with a "<".   *)
LEMMA CleanJoin ==
    ASSUME NEW kind, NEW t \in TextOf, NEW u \in TextOf, Ready(t), Clean(kind, t), Clean(kind, u)
    PROVE  Clean(kind, t \o u)
<1>1. Twice[1] = "<" /\ TurnOpen[1] = "<"
  BY DEF Twice, TurnOpen
<1>2. Free(t \o u, Twice)
  BY <1>1, FreeJoin DEF Clean
<1>3. ASSUME kind = "gemma" PROVE Free(t \o u, TurnOpen)
  BY <1>1, <1>3, FreeJoin DEF Clean
<1>. QED BY <1>2, <1>3 DEF Clean

(* The parts of a text before and after a place.                           *)
LEMMA CleanCut ==
    ASSUME NEW kind, NEW t \in TextOf, Clean(kind, t), NEW d \in 0 .. Len(t)
    PROVE  Clean(kind, Before(t, d + 1)) /\ Clean(kind, After(t, d))
<1>. DEFINE b == Before(t, d + 1)
            a == After(t, d)
<1>1. b \in TextOf /\ a \in TextOf /\ t = b \o a
  BY TextCut
<1>. HIDE DEF b, a
<1>2. Clean(kind, b) /\ Clean(kind, a)
  BY <1>1, CleanParts
<1>. QED BY <1>2 DEF b, a

(* The part before a "<".                                                  *)
LEMMA CleanBefore ==
    ASSUME NEW kind, NEW t \in TextOf, Clean(kind, t), NEW i \in 1 .. Len(t), t[i] = "<"
    PROVE  Before(t, i) \in TextOf /\ Clean(kind, Before(t, i)) /\ Ready(Before(t, i))
<1>. DEFINE d == i - 1
<1>1. d \in 0 .. Len(t) /\ d + 1 = i
  BY TextIs
<1>. HIDE DEF d
<1>2. Before(t, d + 1) \in TextOf /\ Clean(kind, Before(t, d + 1))
  BY <1>1, TextCut, CleanCut
<1>3. Ready(Before(t, i))
  BY ReadyBefore DEF Clean
<1>. QED BY <1>1, <1>2, <1>3

(* Where a marker was found.                                               *)
LEMMA FoundAt ==
    ASSUME NEW t \in TextOf, NEW m, m[1] = "<", Find(t, m) # 0
    PROVE  /\ Find(t, m) \in 1 .. Len(t) - 1 /\ Find(t, m) \in 1 .. Len(t) /\ Find(t, m) + 1 \in 0 .. Len(t)
           /\ t[Find(t, m)] = "<"
           /\ Before(t, Find(t, m)) \in TextOf /\ After(t, Find(t, m) + 1) \in TextOf
           /\ Len(After(t, Find(t, m) + 1)) < Len(t)
<1>. DEFINE i == Find(t, m)
            k == i + 1
<1>1. t \in Seq(Char) /\ Len(t) \in Nat
  BY TextIs
<1>2. i \in 0 .. Len(t) /\ i < Len(t) /\ Stands(t, m, i)
  BY <1>1, FindIs
<1>. HIDE DEF i
<1>3. i # 0
  BY DEF i
<1>4. i \in 1 .. Len(t) - 1 /\ i \in 1 .. Len(t) /\ i \in 1 .. Len(t) + 1 /\ k \in 0 .. Len(t) /\ t[i] = "<"
  BY <1>1, <1>2, <1>3 DEF Stands
<1>. HIDE DEF k
<1>5. Before(t, i) \in Seq(Char) /\ After(t, k) \in Seq(Char) /\ Len(After(t, k)) = Len(t) - k
  BY <1>1, <1>4, BeforeIs, AfterIs
<1>6. Len(After(t, k)) < Len(t)
  BY <1>1, <1>4, <1>5 DEF k
<1>. QED BY <1>4, <1>5, <1>6, TextIs DEF i, k

(* One step of the removal of a marker, with what is left of the rest.     *)
StripRest(t, m)    == After(t, Find(t, m) + 1)
StripStep(t, m, r) == IF Find(t, m) = 0 THEN t ELSE Before(t, Find(t, m)) \o r

(* The removal of a marker (chat_parse.rs, strip) unfolds.                 *)
LEMMA StripUnfold ==
    ASSUME NEW t \in TextOf, NEW m, m[1] = "<"
    PROVE  /\ StripMarker(t, m) \in TextOf
           /\ StripMarker(t, m) = StripStep(t, m, StripMarker(StripRest(t, m), m))
<1>. DEFINE Def(f) == f = [s \in TextOf |-> StripStep(s, m, f[StripRest(s, m)])]
            size == [s \in TextOf |-> Len(s)]
            next == [s \in TextOf |-> StripRest(s, m)]
            base == {s \in TextOf : Find(s, m) = 0}
            b == [s \in TextOf |-> s]
            G == [x \in TextOf \X TextOf |-> Before(x[1], Find(x[1], m)) \o x[2]]
<1>1. size \in [TextOf -> Nat]
  BY TextIs
<1>2. b \in [TextOf -> TextOf]
  OBVIOUS
<1>3. ASSUME NEW s \in TextOf, NEW r \in TextOf PROVE Before(s, Find(s, m)) \o r \in TextOf
  <2>1. CASE Find(s, m) # 0
    BY <2>1, FoundAt, TextConcat
  <2>2. CASE Find(s, m) = 0
    <3>1. Before(s, 0) = <<>>
      <4>1. s \in Seq(Char)
        BY TextIs
      <4>. QED BY <4>1, SubSeqEmpty DEF Before
    <3>2. <<>> \in TextOf
      BY TextIs
    <3>. QED BY <2>2, <3>1, <3>2, TextConcat
  <2>. QED BY <2>1, <2>2
<1>4. G \in [TextOf \X TextOf -> TextOf]
  BY <1>3
<1>5. ASSUME NEW s \in TextOf, s \notin base PROVE next[s] \in TextOf /\ size[next[s]] < size[s]
  BY <1>5, FoundAt DEF StripRest
<1>6. PICK f \in [TextOf -> TextOf] : Solves(f, TextOf, base, b, G, next)
  <2>. HIDE DEF size, next, base, b, G
  <2>. QED BY <1>1, <1>2, <1>4, <1>5, Recursion
<1>7. ASSUME NEW s \in TextOf PROVE f[s] = StripStep(s, m, f[StripRest(s, m)])
  <2>1. CASE Find(s, m) = 0
    BY <1>6, <2>1 DEF Solves, StripStep
  <2>2. CASE Find(s, m) # 0
    <3>1. StripRest(s, m) \in TextOf /\ f[StripRest(s, m)] \in TextOf
      BY <2>2, FoundAt DEF StripRest
    <3>2. f[s] = G[<<s, f[next[s]]>>]
      BY <1>6, <2>2 DEF Solves
    <3>3. next[s] = StripRest(s, m)
      OBVIOUS
    <3>4. <<s, f[StripRest(s, m)]>> \in TextOf \X TextOf
      BY <3>1
    <3>5. G[<<s, f[StripRest(s, m)]>>] = Before(s, Find(s, m)) \o f[StripRest(s, m)]
      BY <3>4
    <3>. QED BY <2>2, <3>2, <3>3, <3>5 DEF StripStep
  <2>. QED BY <2>1, <2>2
<1>8. Def(f)
  BY <1>7
<1>. DEFINE F == CHOOSE g : Def(g)
<1>9. \A s \in TextOf : StripMarker(s, m) = F[s]
  BY DEF StripMarker, StripStep, StripRest
<1>10. Def(F)
  BY <1>8
<1>. HIDE DEF F
<1>11. \A s \in TextOf : F[s] = StripStep(s, m, F[StripRest(s, m)])
  BY <1>10
<1>12. ASSUME NEW s \in TextOf, \A r \in TextOf : Len(r) < Len(s) => F[r] \in TextOf PROVE F[s] \in TextOf
  <2>1. CASE Find(s, m) = 0
    BY <1>11, <2>1 DEF StripStep
  <2>2. CASE Find(s, m) # 0
    <3>1. F[StripRest(s, m)] \in TextOf
      BY <1>12, <2>2, FoundAt DEF StripRest
    <3>2. F[s] = Before(s, Find(s, m)) \o F[StripRest(s, m)]
      BY <1>11, <2>2 DEF StripStep
    <3>. QED BY <1>3, <3>1, <3>2
  <2>. QED BY <2>1, <2>2
<1>13. \A s \in TextOf : F[s] \in TextOf
  <2>. DEFINE U == {s \in TextOf : F[s] \in TextOf}
  <2>1. \A s \in TextOf : (\A r \in TextOf : Len(r) < Len(s) => r \in U) => s \in U
    BY <1>12
  <2>. HIDE DEF U
  <2>2. TextOf \subseteq U
    BY <2>1, TextInduction
  <2>. QED BY <2>2 DEF U
<1>14. F[t] = StripStep(t, m, StripMarker(StripRest(t, m), m))
  <2>1. CASE Find(t, m) = 0
    BY <1>11, <2>1 DEF StripStep
  <2>2. CASE Find(t, m) # 0
    <3>1. StripRest(t, m) \in TextOf
      BY <2>2, FoundAt DEF StripRest
    <3>2. StripMarker(StripRest(t, m), m) = F[StripRest(t, m)]
      BY <1>9, <3>1
    <3>. QED BY <1>11, <3>2
  <2>. QED BY <2>1, <2>2
<1>. QED BY <1>9, <1>13, <1>14

(* The removal of a marker: at its first place, then in what follows.      *)
LEMMA StripIs ==
    ASSUME NEW t \in TextOf, NEW m, m[1] = "<"
    PROVE  /\ StripMarker(t, m) \in TextOf
           /\ Find(t, m) = 0 => StripMarker(t, m) = t
           /\ Find(t, m) # 0 =>
                /\ After(t, Find(t, m) + 1) \in TextOf
                /\ StripMarker(t, m) = Before(t, Find(t, m)) \o StripMarker(After(t, Find(t, m) + 1), m)
BY StripUnfold, FoundAt DEF StripStep, StripRest

(* What is left of a text without a double "<" has none, and does not end  *)
(* with a "<" when the text does not.                                      *)
LEMMA StripClean ==
    ASSUME NEW m, m[1] = "<", NEW t \in TextOf, Free(t, Twice)
    PROVE  Free(StripMarker(t, m), Twice) /\ (Ready(t) => Ready(StripMarker(t, m)))
<1>. DEFINE Good(s) == Free(s, Twice) =>
                         Free(StripMarker(s, m), Twice) /\ (Ready(s) => Ready(StripMarker(s, m)))
            U == {s \in TextOf : Good(s)}
<1>1. ASSUME NEW s \in TextOf, \A r \in TextOf : Len(r) < Len(s) => r \in U PROVE s \in U
  <2>1. CASE Find(s, m) = 0
    BY <2>1, StripIs
  <2>2. CASE Find(s, m) # 0
    <3>. DEFINE i == Find(s, m)
                b == Before(s, i)
                k == i + 1
                r == After(s, k)
                x == StripMarker(r, m)
    <3>. SUFFICES ASSUME Free(s, Twice)
                  PROVE  Free(StripMarker(s, m), Twice) /\ (Ready(s) => Ready(StripMarker(s, m)))
      OBVIOUS
    <3>1. i \in 1 .. Len(s) /\ k \in 0 .. Len(s) /\ s[i] = "<" /\ b \in TextOf /\ r \in TextOf /\ Len(r) < Len(s)
      BY <2>2, FoundAt
    <3>2. StripMarker(s, m) = b \o x /\ x \in TextOf
      BY <2>2, <3>1, StripIs
    <3>. HIDE DEF i, k
    <3>3. Ready(b)
      BY <3>1, ReadyBefore
    <3>4. Free(b, Twice) /\ Free(r, Twice)
      <4>1. Clean("none", s)
        BY DEF Clean
      <4>2. Clean("none", b) /\ Clean("none", r)
        BY <3>1, <4>1, CleanBefore, CleanCut
      <4>. QED BY <4>2 DEF Clean
    <3>5. Ready(s) => Ready(r)
      BY <3>1, ReadyAfter
    <3>. HIDE DEF b, r
    <3>6. Good(r)
      BY <1>1, <3>1
    <3>7. Free(x, Twice) /\ (Ready(s) => Ready(x))
      BY <3>4, <3>5, <3>6
    <3>. HIDE DEF x
    <3>8. Free(b \o x, Twice)
      BY <3>1, <3>2, <3>3, <3>4, <3>7, FreeJoin DEF Twice
    <3>9. Ready(s) => Ready(b \o x)
      BY <3>1, <3>2, <3>3, <3>7, ReadyJoin
    <3>. QED BY <3>2, <3>8, <3>9
  <2>. QED BY <2>1, <2>2
<1>. HIDE DEF U
<1>2. TextOf \subseteq U
  BY <1>1, TextInduction
<1>. QED BY <1>2 DEF U

(* Two texts are stripped one by one when the first does not end with the  *)
(* beginning of a marker, or the second does not begin with its end.       *)
LEMMA StripConcat ==
    ASSUME NEW m, m[1] = "<", NEW t \in TextOf, NEW u \in TextOf, Ready(t) \/ Late(u, m)
    PROVE  StripMarker(t \o u, m) = StripMarker(t, m) \o StripMarker(u, m)
<1>. DEFINE Good(s) == Ready(s) \/ Late(u, m) => StripMarker(s \o u, m) = StripMarker(s, m) \o StripMarker(u, m)
            U == {s \in TextOf : Good(s)}
<1>0. StripMarker(u, m) \in TextOf
  BY StripIs
<1>1. ASSUME NEW s \in TextOf, \A r \in TextOf : Len(r) < Len(s) => r \in U PROVE s \in U
  <2>. DEFINE z == s \o u
  <2>. SUFFICES ASSUME Ready(s) \/ Late(u, m)
                PROVE  StripMarker(z, m) = StripMarker(s, m) \o StripMarker(u, m)
    OBVIOUS
  <2>0. z \in TextOf /\ s \in Seq(Char) /\ u \in Seq(Char) /\ z \in Seq(Char) /\ Len(z) = Len(s) + Len(u)
        /\ Len(s) \in Nat /\ Len(u) \in Nat
    BY TextConcat, TextIs
  <2>1. CASE Find(s, m) # 0
    <3>. DEFINE i == Find(s, m)
                b == Before(s, i)
                k == i + 1
                r == After(s, k)
    <3>1. i \in 1 .. Len(s) /\ k \in 0 .. Len(s) /\ s[i] = "<" /\ b \in TextOf /\ r \in TextOf /\ Len(r) < Len(s)
      BY <2>1, FoundAt
    <3>2. StripMarker(s, m) = b \o StripMarker(r, m) /\ StripMarker(r, m) \in TextOf
      BY <2>1, <3>1, StripIs
    <3>3. Find(z, m) = i
      BY <2>0, <2>1, FindExtends
    <3>4. StripMarker(z, m) = Before(z, i) \o StripMarker(After(z, k), m)
      <4>. HIDE DEF z
      <4>1. StripMarker(z, m) = Before(z, Find(z, m)) \o StripMarker(After(z, Find(z, m) + 1), m)
        BY <2>0, <2>1, <3>3, StripIs
      <4>. QED BY <3>3, <4>1
    <3>. HIDE DEF i, k
    <3>5. Before(z, i) = b /\ After(z, k) = r \o u
      <4>1. i \in 1 .. Len(s) + 1
        BY <2>0, <3>1
      <4>. QED BY <2>0, <3>1, <4>1, BeforeConcat, AfterConcat
    <3>6. Ready(r) \/ Late(u, m)
      BY <3>1, ReadyAfter
    <3>. HIDE DEF b, r, z
    <3>7. StripMarker(r \o u, m) = StripMarker(r, m) \o StripMarker(u, m)
      BY <1>1, <3>1, <3>6
    <3>8. (b \o StripMarker(r, m)) \o StripMarker(u, m) = b \o (StripMarker(r, m) \o StripMarker(u, m))
      <4>. DEFINE x == StripMarker(r, m)
                  y == StripMarker(u, m)
      <4>1. x \in TextOf /\ y \in TextOf
        BY <1>0, <3>2
      <4>. HIDE DEF x, y
      <4>2. (b \o x) \o y = b \o (x \o y)
        <5>1. \A c, d, e \in TextOf : (c \o d) \o e = c \o (d \o e)
          BY TextAssoc
        <5>2. b \in TextOf
          BY <3>1
        <5>. QED BY <4>1, <5>1, <5>2
      <4>. QED BY <4>2 DEF x, y
    <3>. QED BY <3>2, <3>4, <3>5, <3>7, <3>8
  <2>2. CASE Find(s, m) = 0
    <3>1. StripMarker(s, m) = s
      BY <2>2, StripIs
    <3>2. CASE Find(u, m) = 0
      <4>1. Free(s, m) /\ Free(u, m)
        BY <2>2, <3>2, FreeIs
      <4>2. Free(z, m)
        BY <4>1, FreeJoin
      <4>3. Find(z, m) = 0
        <5>. HIDE DEF z
        <5>. QED BY <2>0, <4>2, FreeIs
      <4>4. StripMarker(z, m) = z /\ StripMarker(u, m) = u
        <5>. HIDE DEF z
        <5>. QED BY <2>0, <3>2, <4>3, StripIs
      <4>. QED BY <3>1, <4>4
    <3>3. CASE Find(u, m) # 0
      <4>. DEFINE j == Find(u, m)
                  k == j + 1
                  i == Len(s) + j
                  n == Len(s) + k
      <4>1. j \in 1 .. Len(u) - 1 /\ j \in 1 .. Len(u) /\ k \in 0 .. Len(u)
            /\ Before(u, j) \in TextOf /\ After(u, k) \in TextOf
        BY <3>3, FoundAt
      <4>2. StripMarker(u, m) = Before(u, j) \o StripMarker(After(u, k), m)
            /\ StripMarker(After(u, k), m) \in TextOf
        BY <3>3, <4>1, StripIs
      <4>3. Find(z, m) = i
        <5>1. /\ Stands(u, m, j) /\ \A l \in 1 .. j - 1 : ~Stands(u, m, l)
          BY <2>0, <3>3, FindIs
        <5>2. \A l \in 1 .. Len(s) - 1 : ~Stands(s, m, l)
          BY <2>2, FreeIs
        <5>3. \A l \in 1 .. Len(s) + Len(u) : z[l] = IF l <= Len(s) THEN s[l] ELSE u[l - Len(s)]
          BY TextConcat
        <5>. HIDE DEF z, j
        <5>4. i \in 1 .. Len(z) - 1 /\ Stands(z, m, i)
          <6>1. i \in 1 .. Len(z) - 1 /\ i \in 1 .. Len(s) + Len(u) /\ i + 1 \in 1 .. Len(s) + Len(u)
                /\ ~(i <= Len(s)) /\ ~(i + 1 <= Len(s)) /\ i - Len(s) = j /\ i + 1 - Len(s) = j + 1
            BY <2>0, <4>1
          <6>. HIDE DEF i
          <6>2. z[i] = u[j] /\ z[i + 1] = u[j + 1]
            BY <5>3, <6>1
          <6>. QED BY <5>1, <6>1, <6>2 DEF Stands
        <5>5. ASSUME NEW l \in 1 .. i - 1 PROVE ~Stands(z, m, l)
          <6>1. CASE l < Len(s)
            <7>1. z[l] = s[l] /\ z[l + 1] = s[l + 1] /\ l \in 1 .. Len(s) - 1
              BY <2>0, <5>3, <6>1
            <7>. QED BY <5>2, <7>1 DEF Stands
          <6>2. CASE l = Len(s)
            <7>1. z[l] = s[l] /\ Len(s) > 0 /\ z[l + 1] = u[1] /\ Len(u) > 0
              BY <2>0, <4>1, <5>3, <6>2
            <7>. QED BY <6>2, <7>1 DEF Ready, Late, Stands
          <6>3. CASE l > Len(s)
            <7>1. l - Len(s) \in 1 .. j - 1 /\ l \in 1 .. Len(s) + Len(u) /\ l + 1 \in 1 .. Len(s) + Len(u)
                  /\ ~(l <= Len(s)) /\ ~(l + 1 <= Len(s)) /\ l + 1 - Len(s) = (l - Len(s)) + 1
              BY <2>0, <4>1, <6>3
            <7>2. z[l] = u[l - Len(s)] /\ z[l + 1] = u[(l - Len(s)) + 1]
              BY <5>3, <7>1
            <7>. QED BY <5>1, <7>1, <7>2 DEF Stands
          <6>. QED BY <2>0, <4>1, <6>1, <6>2, <6>3
        <5>. HIDE DEF i
        <5>. QED BY <2>0, <5>4, <5>5, FindIsFirst
      <4>. HIDE DEF j
      <4>4. i + 1 = n /\ i # 0
        BY <2>0, <4>1
      <4>5. StripMarker(z, m) = Before(z, i) \o StripMarker(After(z, n), m)
        <5>. HIDE DEF z, i, n
        <5>1. StripMarker(z, m) = Before(z, Find(z, m)) \o StripMarker(After(z, Find(z, m) + 1), m)
          BY <2>0, <4>3, <4>4, StripIs
        <5>. QED BY <4>3, <4>4, <5>1
      <4>6. Before(z, i) = s \o Before(u, j)
        <5>1. j \in 1 .. Len(u) + 1
          BY <2>0, <4>1
        <5>. QED BY <2>0, <5>1, BeforeConcatLate
      <4>. HIDE DEF k
      <4>7. After(z, n) = After(u, k)
        <5>1. n \in 0 .. Len(z) /\ Len(z) - n = Len(u) - k
          BY <2>0, <4>1
        <5>2. After(u, k) \in Seq(Char) /\ Len(After(u, k)) = Len(u) - k
              /\ \A l \in 1 .. Len(u) - k : After(u, k)[l] = u[k + l]
          BY <2>0, <4>1, AfterIs
        <5>3. \A l \in 1 .. Len(u) - k : z[n + l] = u[k + l]
          <6>1. \A l \in 1 .. Len(s) + Len(u) : z[l] = IF l <= Len(s) THEN s[l] ELSE u[l - Len(s)]
            BY TextConcat
          <6>. HIDE DEF z
          <6>2. ASSUME NEW l \in 1 .. Len(u) - k PROVE z[n + l] = u[k + l]
            <7>. DEFINE p == n + l
            <7>1. p \in 1 .. Len(s) + Len(u) /\ ~(p <= Len(s)) /\ p - Len(s) = k + l
              BY <2>0, <4>1
            <7>. HIDE DEF p
            <7>2. z[p] = u[p - Len(s)]
              BY <6>1, <7>1
            <7>. QED BY <7>1, <7>2 DEF p
          <6>. QED BY <6>2
        <5>. HIDE DEF z, n
        <5>4. After(z, n) \in Seq(Char) /\ Len(After(z, n)) = Len(z) - n
              /\ \A l \in 1 .. Len(z) - n : After(z, n)[l] = z[n + l]
          BY <2>0, <5>1, AfterIs
        <5>. DEFINE p == After(z, n)
                    q == After(u, k)
        <5>5. /\ p \in Seq(Char) /\ q \in Seq(Char) /\ Len(p) = Len(q) /\ Len(q) = Len(u) - k
              /\ \A l \in 1 .. Len(u) - k : p[l] = z[n + l] /\ q[l] = u[k + l]
          BY <5>1, <5>2, <5>4
        <5>. HIDE DEF p, q
        <5>6. \A l \in 1 .. Len(p) : p[l] = q[l]
          BY <5>3, <5>5
        <5>7. p = q
          BY <5>5, <5>6, SeqEqual
        <5>. QED BY <5>7 DEF p, q
      <4>8. s \o (Before(u, j) \o StripMarker(After(u, k), m)) = (s \o Before(u, j)) \o StripMarker(After(u, k), m)
        BY <4>1, <4>2, TextAssoc
      <4>. HIDE DEF z
      <4>. QED BY <3>1, <4>2, <4>5, <4>6, <4>7, <4>8
    <3>. QED BY <3>2, <3>3
  <2>. QED BY <2>1, <2>2
<1>. HIDE DEF U
<1>2. TextOf \subseteq U
  BY <1>1, TextInduction
<1>. QED BY <1>2 DEF U

(* A text that is cut where no marker can be.                              *)
Split(x, y, z) == /\ x \in TextOf /\ y \in TextOf /\ z = x \o y
                  /\ Ready(x) /\ Free(x, Twice) /\ Free(y, Twice)

(* Removing a marker keeps the cut of a text.                              *)
LEMMA StripSplit ==
    ASSUME NEW m, m[1] = "<", NEW x, NEW y, NEW z, Split(x, y, z)
    PROVE  Split(StripMarker(x, m), StripMarker(y, m), StripMarker(z, m))
<1>1. x \in TextOf /\ y \in TextOf /\ z = x \o y /\ Ready(x) /\ Free(x, Twice) /\ Free(y, Twice)
  BY DEF Split
<1>2. StripMarker(x, m) \in TextOf /\ StripMarker(y, m) \in TextOf
  BY <1>1, StripIs
<1>3. Ready(StripMarker(x, m)) /\ Free(StripMarker(x, m), Twice) /\ Free(StripMarker(y, m), Twice)
  BY <1>1, StripClean
<1>4. StripMarker(z, m) = StripMarker(x, m) \o StripMarker(y, m)
  BY <1>1, StripConcat
<1>. QED BY <1>2, <1>3, <1>4 DEF Split

(* The removal of all the markers that remain.                             *)
LEMMA StripsSplit ==
    ASSUME NEW kind, NEW x, NEW y, NEW z, Split(x, y, z)
    PROVE  Split(Strip(kind, x), Strip(kind, y), Strip(kind, z))
<1>. DEFINE S(t, m) == StripMarker(t, m)
            c(t) == S(S(t, CallOpen), CallClose)
            d(t) == S(S(c(t), TurnOpen), TurnClose)
            e(t) == IF kind = "gemma" THEN d(t) ELSE c(t)
<1>1. /\ CallOpen[1] = "<" /\ CallClose[1] = "<" /\ TurnOpen[1] = "<" /\ TurnClose[1] = "<"
      /\ ThinkOpen[1] = "<" /\ ThinkClose[1] = "<"
  BY DEF CallOpen, CallClose, TurnOpen, TurnClose, ThinkOpen, ThinkClose
<1>2. ASSUME NEW m, m[1] = "<", NEW p, NEW q, NEW r, Split(p, q, r) PROVE Split(S(p, m), S(q, m), S(r, m))
  BY <1>2, StripSplit
<1>3. \A t : Strip(kind, t) = S(S(e(t), ThinkOpen), ThinkClose)
  BY DEF Strip, StripCalls, StripTurns
<1>. HIDE DEF S
<1>4. Split(c(x), c(y), c(z))
  BY <1>1, <1>2
<1>. HIDE DEF c
<1>5. Split(d(x), d(y), d(z))
  BY <1>1, <1>2, <1>4
<1>. HIDE DEF d
<1>6. Split(e(x), e(y), e(z))
  BY <1>4, <1>5
<1>. HIDE DEF e
<1>. QED BY <1>1, <1>2, <1>3, <1>6

Opens == <<"<">>

(* The beginning of a marker alone is no marker.                           *)
LEMMA OpensIs ==
    /\ Opens \in TextOf /\ Len(Opens) = 1 /\ Opens[1] = "<"
    /\ \A m : Free(Opens, m) /\ Find(Opens, m) = 0
<1>1. Opens \in Seq(Char) /\ Opens \in TextOf /\ Len(Opens) = 1 /\ Opens[1] = "<"
  BY TextIs DEF Opens
<1>2. ASSUME NEW m PROVE Free(Opens, m) /\ Find(Opens, m) = 0
  <2>1. \A i \in 1 .. Len(Opens) - 1 : ~Stands(Opens, m, i)
    BY <1>1
  <2>. QED BY <1>1, <2>1, FreeIs
<1>. QED BY <1>1, <1>2

(* The beginning of a marker is not removed.                               *)
LEMMA StripsOpens ==
    ASSUME NEW kind
    PROVE  Strip(kind, Opens) = Opens
<1>1. ASSUME NEW m, m[1] = "<" PROVE StripMarker(Opens, m) = Opens
  BY <1>1, OpensIs, StripIs
<1>2. /\ CallOpen[1] = "<" /\ CallClose[1] = "<" /\ TurnOpen[1] = "<" /\ TurnClose[1] = "<"
      /\ ThinkOpen[1] = "<" /\ ThinkClose[1] = "<"
  BY DEF CallOpen, CallClose, TurnOpen, TurnClose, ThinkOpen, ThinkClose
<1>3. /\ StripMarker(Opens, CallOpen) = Opens /\ StripMarker(Opens, CallClose) = Opens
      /\ StripMarker(Opens, TurnOpen) = Opens /\ StripMarker(Opens, TurnClose) = Opens
      /\ StripMarker(Opens, ThinkOpen) = Opens /\ StripMarker(Opens, ThinkClose) = Opens
  BY <1>1, <1>2
<1>. QED BY <1>3 DEF Strip, StripCalls, StripTurns

(* What is held back of a text.                                            *)
LEMMA HoldsOpens ==
    ASSUME NEW x \in TextOf
    PROVE  HoldBack(x \o Opens) = x /\ (Ready(x) => HoldBack(x) = x)
<1>. DEFINE t == x \o Opens
<1>1. /\ t \in TextOf /\ Len(t) = Len(x) + 1 /\ Len(x) \in Nat
      /\ \A i \in 1 .. Len(x) + 1 : t[i] = IF i <= Len(x) THEN x[i] ELSE Opens[i - Len(x)]
  BY OpensIs, TextConcat, ZenonT(60)
<1>. HIDE DEF t
<1>2. x \in Seq(Char) /\ t \in Seq(Char)
  BY <1>1, TextIs
<1>3. t # <<>> /\ t[Len(t)] = "<"
  <2>1. Len(x) + 1 \in 1 .. Len(x) + 1 /\ ~(Len(x) + 1 <= Len(x)) /\ Len(x) + 1 - Len(x) = 1
    BY <1>1
  <2>. QED BY <1>1, <1>2, <2>1, OpensIs
<1>4. Last(t) = "<"
  BY <1>3 DEF Last
<1>5. HoldBack(t) = Before(t, Len(t))
  BY <1>3, <1>4 DEF HoldBack, Front, Before
<1>. DEFINE n == Len(t)
            b == Before(t, n)
<1>6. b \in Seq(Char) /\ Len(b) = n - 1 /\ \A j \in 1 .. n - 1 : b[j] = t[j]
  <2>1. n \in 1 .. Len(t) + 1
    BY <1>1
  <2>. HIDE DEF n
  <2>. QED BY <1>2, <2>1, BeforeIs
<1>7. n - 1 = Len(x) /\ \A j \in 1 .. n - 1 : t[j] = x[j]
  BY <1>1
<1>. HIDE DEF n, b
<1>8. b = x
  <2>1. Len(b) = Len(x) /\ \A j \in 1 .. Len(b) : b[j] = x[j]
    BY <1>6, <1>7
  <2>. QED BY <1>2, <1>6, <2>1, SeqEqual
<1>9. ASSUME Ready(x) PROVE HoldBack(x) = x
  <2>1. ASSUME x # <<>> PROVE Last(x) # "<"
    <3>1. Len(x) > 0
      BY <1>2, <2>1
    <3>. QED BY <1>9, <3>1 DEF Ready, Last
  <2>. QED BY <2>1 DEF HoldBack
<1>. QED BY <1>5, <1>8, <1>9 DEF b, n, t

(* A text is what is held back and what is not.                            *)
LEMMA HeldIs ==
    ASSUME NEW t \in TextOf, Free(t, Twice)
    PROVE  /\ HoldBack(t) \in TextOf /\ Ready(HoldBack(t))
           /\ t = HoldBack(t) \/ t = HoldBack(t) \o Opens
<1>1. CASE Ready(t)
  BY <1>1, HoldsOpens
<1>2. CASE ~Ready(t)
  <2>1. Len(t) > 0 /\ t[Len(t)] = "<" /\ Len(t) \in 1 .. Len(t)
    BY <1>2, TextIs DEF Ready
  <2>. DEFINE b == Before(t, Len(t))
  <2>2. b \in TextOf /\ t = b \o Opens
    BY <2>1, LastHeld DEF Opens
  <2>3. Ready(b)
    BY <2>1, ReadyBefore
  <2>. HIDE DEF b
  <2>4. HoldBack(t) = b
    BY <2>2, HoldsOpens
  <2>. QED BY <2>2, <2>3, <2>4
<1>. QED BY <1>1, <1>2

(* What is complete is not held back when the text grows.                  *)
LEMMA BeginsHeld ==
    ASSUME NEW w \in TextOf, NEW v \in TextOf, Ready(w)
    PROVE  \E u \in TextOf : HoldBack(w \o v) = w \o u
<1>1. CASE Ready(v)
  <2>. DEFINE x == w \o v
  <2>1. Ready(x) /\ x \in TextOf
    BY <1>1, ReadyJoin, TextConcat
  <2>. HIDE DEF x
  <2>2. HoldBack(x) = x
    BY <2>1, HoldsOpens
  <2>. QED BY <2>2 DEF x
<1>2. CASE ~Ready(v)
  <2>1. Len(v) > 0 /\ v[Len(v)] = "<"
    BY <1>2 DEF Ready
  <2>. DEFINE b == Before(v, Len(v))
              x == w \o b
  <2>2. b \in TextOf /\ v = b \o Opens
    BY <2>1, LastHeld DEF Opens
  <2>. HIDE DEF b
  <2>3. w \o v = x \o Opens
    BY <2>2, OpensIs, TextAssoc, ZenonT(60)
  <2>4. x \in TextOf
    BY <2>2, TextConcat
  <2>. HIDE DEF x
  <2>5. HoldBack(x \o Opens) = x
    BY <2>4, HoldsOpens
  <2>. QED BY <2>2, <2>3, <2>5 DEF x
<1>. QED BY <1>1, <1>2

-----------------------------------------------------------------------------
(* What is said outside the calls.                                         *)
Said(kind, live, t) == Calls(kind, live, t).content

(* What is said outside the calls, by the first call.                      *)
LEMMA SaidIs ==
    ASSUME NEW kind \in Kinds, NEW live \in BOOLEAN, NEW t \in TextOf
    PROVE  /\ Said(kind, live, t) \in TextOf
           /\ Find(t, CallOpen) = 0 => Said(kind, live, t) = t
           /\ Find(t, CallOpen) # 0 /\ NoCall(t) =>
                Said(kind, live, t) = Before(t, Find(t, CallOpen)) \o
                                        (IF live \/ kind = "qwen" THEN <<>> ELSE CallBody(t))
           /\ ~NoCall(t) => /\ CallRest(t) \in TextOf
                            /\ Len(CallRest(t)) < Len(t)
                            /\ Said(kind, live, CallRest(t)) \in TextOf
                            /\ Said(kind, live, t) = Before(t, Find(t, CallOpen))
                                                       \o Said(kind, live, CallRest(t))
<1>1. Calls(kind, live, t) \in Cut /\ Calls(kind, live, t) = CallStep(kind, live, t, Calls(kind, live, CallRest(t)))
  BY CallsUnfold
<1>2. Said(kind, live, t) \in TextOf
  BY <1>1 DEF Said, Cut
<1>3. ASSUME Find(t, CallOpen) = 0 PROVE Said(kind, live, t) = t
  BY <1>1, <1>3 DEF CallStep, Said
<1>4. ASSUME Find(t, CallOpen) # 0, NoCall(t)
      PROVE  Said(kind, live, t) = Before(t, Find(t, CallOpen)) \o
                                     (IF live \/ kind = "qwen" THEN <<>> ELSE CallBody(t))
  BY <1>1, <1>4 DEF CallStep, Said, NoCall, CallEnd, CallBody
<1>5. ASSUME ~NoCall(t)
      PROVE  /\ CallRest(t) \in TextOf
             /\ Len(CallRest(t)) < Len(t)
             /\ Said(kind, live, CallRest(t)) \in TextOf
             /\ Said(kind, live, t) = Before(t, Find(t, CallOpen)) \o Said(kind, live, CallRest(t))
  <2>1. CallRest(t) \in TextOf /\ Len(CallRest(t)) < Len(t)
    BY <1>5, CallParts DEF NoCall
  <2>2. Said(kind, live, CallRest(t)) \in TextOf
    BY <2>1, CallsUnfold DEF Said, Cut
  <2>3. CallStep(kind, live, t, Calls(kind, live, CallRest(t))).content =
          Before(t, Find(t, CallOpen)) \o Calls(kind, live, CallRest(t)).content
    BY <1>5 DEF CallStep, NoCall, CallEnd, CallBody
  <2>. QED BY <1>1, <2>1, <2>2, <2>3 DEF Said
<1>. QED BY <1>2, <1>3, <1>4, <1>5

(* The parts of a text with a call.                                        *)
LEMMA CallPlaces ==
    ASSUME NEW t \in TextOf, Find(t, CallOpen) # 0
    PROVE  /\ Find(t, CallOpen) \in 1 .. Len(t) /\ t[Find(t, CallOpen)] = "<"
           /\ Find(t, CallOpen) + 1 \in 0 .. Len(t)
           /\ Before(t, Find(t, CallOpen)) \in TextOf
           /\ CallBody(t) \in TextOf
           /\ ~NoCall(t) => CallEnd(t) + 1 \in 0 .. Len(CallBody(t)) /\ CallRest(t) \in TextOf
<1>0. CallOpen[1] = "<" /\ CallClose[1] = "<"
  BY DEF CallOpen, CallClose
<1>1. /\ Find(t, CallOpen) \in 1 .. Len(t) /\ t[Find(t, CallOpen)] = "<"
      /\ Find(t, CallOpen) + 1 \in 0 .. Len(t)
      /\ Before(t, Find(t, CallOpen)) \in TextOf
      /\ CallBody(t) \in TextOf
  BY <1>0, FoundAt DEF CallBody
<1>2. ASSUME ~NoCall(t) PROVE CallEnd(t) + 1 \in 0 .. Len(CallBody(t)) /\ CallRest(t) \in TextOf
  <2>. DEFINE b == CallBody(t)
  <2>1. b \in TextOf /\ Find(b, CallClose) # 0
    BY <1>1, <1>2 DEF NoCall, CallEnd
  <2>. HIDE DEF b
  <2>2. Find(b, CallClose) + 1 \in 0 .. Len(b) /\ After(b, Find(b, CallClose) + 1) \in TextOf
    BY <1>0, <2>1, FoundAt
  <2>. QED BY <2>2 DEF b, CallEnd, CallRest
<1>. QED BY <1>1, <1>2

(* It is clean when the text is; and while the answer grows no call is     *)
(* opened in it, and it does not end with a "<" unless the text does.      *)
LEMMA SaidClean ==
    ASSUME NEW kind \in Kinds, NEW live \in BOOLEAN, NEW t \in TextOf, Clean(kind, t)
    PROVE  /\ Clean(kind, Said(kind, live, t))
           /\ live => /\ Free(Said(kind, live, t), CallOpen)
                      /\ Ready(t) => Ready(Said(kind, live, t))
<1>. DEFINE Tidy(s, x) == Clean(kind, x) /\ (live => Free(x, CallOpen) /\ (Ready(s) => Ready(x)))
            U == {s \in TextOf : Clean(kind, s) => Tidy(s, Said(kind, live, s))}
<1>1. ASSUME NEW s \in TextOf, \A r \in TextOf : Len(r) < Len(s) => r \in U PROVE s \in U
  <2>. SUFFICES ASSUME Clean(kind, s) PROVE Tidy(s, Said(kind, live, s))
    OBVIOUS
  <2>1. CASE Find(s, CallOpen) = 0
    <3>1. Said(kind, live, s) = s
      BY <2>1, SaidIs
    <3>2. Free(s, CallOpen)
      BY <2>1, FreeIs
    <3>. QED BY <3>1, <3>2
  <2>2. CASE Find(s, CallOpen) # 0
    <3>. DEFINE o == Find(s, CallOpen)
                b == Before(s, o)
    <3>1. o \in 1 .. Len(s) /\ s[o] = "<" /\ o + 1 \in 0 .. Len(s) /\ b \in TextOf /\ CallBody(s) \in TextOf
      BY <2>2, CallPlaces
    <3>2. Free(b, CallOpen)
      <4>1. s \in Seq(Char)
        BY TextIs
      <4>2. \A i \in 1 .. o - 1 : ~Stands(s, CallOpen, i)
        BY <2>2, <4>1, FindIs
      <4>. HIDE DEF o
      <4>3. Len(b) = o - 1 /\ \A j \in 1 .. o - 1 : b[j] = s[j]
        <5>1. o \in 1 .. Len(s) + 1
          BY <3>1
        <5>. QED BY <4>1, <5>1, BeforeIs
      <4>. HIDE DEF b
      <4>4. ASSUME NEW i \in 1 .. Len(b) - 1 PROVE ~Stands(b, CallOpen, i)
        <5>1. i \in 1 .. o - 1 /\ i + 1 \in 1 .. o - 1
          BY <3>1, <4>3
        <5>2. b[i] = s[i] /\ b[i + 1] = s[i + 1]
          BY <4>3, <5>1
        <5>. QED BY <4>2, <5>1, <5>2 DEF Stands
      <4>. QED BY <3>1, <4>4, FreeIs
    <3>3. Clean(kind, b) /\ Ready(b)
      <4>. HIDE DEF o
      <4>. QED BY <3>1, CleanBefore
    <3>4. Clean(kind, CallBody(s)) /\ (Ready(s) => Ready(CallBody(s)))
      <4>. DEFINE k == o + 1
      <4>1. k \in 0 .. Len(s)
        BY <3>1
      <4>2. CallBody(s) = After(s, k)
        BY DEF CallBody
      <4>. HIDE DEF k
      <4>. QED BY <4>1, <4>2, CleanCut, ReadyAfter
    <3>5. CASE NoCall(s)
      <4>1. Said(kind, live, s) = b \o (IF live \/ kind = "qwen" THEN <<>> ELSE CallBody(s))
        BY <2>2, <3>5, SaidIs
      <4>. HIDE DEF o, b
      <4>2. CASE live \/ kind = "qwen"
        <5>1. Said(kind, live, s) = b
          BY <3>1, <4>1, <4>2, TextConcat
        <5>. QED BY <3>2, <3>3, <5>1
      <4>3. CASE ~(live \/ kind = "qwen")
        <5>1. Said(kind, live, s) = b \o CallBody(s)
          BY <4>1, <4>3
        <5>2. Clean(kind, b \o CallBody(s))
          BY <3>1, <3>3, <3>4, CleanJoin
        <5>. QED BY <4>3, <5>1, <5>2
      <4>. QED BY <4>2, <4>3
    <3>6. CASE ~NoCall(s)
      <4>. DEFINE r == CallRest(s)
                  x == Said(kind, live, r)
      <4>1. r \in TextOf /\ Len(r) < Len(s) /\ x \in TextOf /\ Said(kind, live, s) = b \o x
        BY <3>6, SaidIs
      <4>2. Clean(kind, r) /\ (Ready(s) => Ready(r))
        <5>. DEFINE k == CallEnd(s) + 1
                    y == CallBody(s)
        <5>1. k \in 0 .. Len(y) /\ r = After(y, k)
          BY <2>2, <3>6, CallPlaces DEF CallRest
        <5>2. y \in TextOf /\ Clean(kind, y) /\ (Ready(s) => Ready(y))
          BY <3>1, <3>4
        <5>. HIDE DEF k, y, r
        <5>. QED BY <5>1, <5>2, CleanCut, ReadyAfter
      <4>. HIDE DEF o, b, r
      <4>3. Tidy(r, x)
        BY <1>1, <4>1, <4>2
      <4>. HIDE DEF x
      <4>4. Clean(kind, b \o x)
        BY <3>1, <3>3, <4>1, <4>3, CleanJoin
      <4>5. ASSUME live PROVE Free(b \o x, CallOpen) /\ (Ready(s) => Ready(b \o x))
        <5>1. Free(x, CallOpen) /\ (Ready(s) => Ready(x))
          BY <4>2, <4>3, <4>5
        <5>2. CallOpen[1] = "<"
          BY DEF CallOpen
        <5>3. Free(b \o x, CallOpen)
          BY <3>1, <3>2, <3>3, <4>1, <5>1, <5>2, FreeJoin
        <5>4. Ready(s) => Ready(b \o x)
          BY <3>1, <3>3, <4>1, <5>1, ReadyJoin
        <5>. QED BY <5>3, <5>4
      <4>. QED BY <4>1, <4>4, <4>5
    <3>. QED BY <3>5, <3>6
  <2>. QED BY <2>1, <2>2
<1>. HIDE DEF U
<1>2. TextOf \subseteq U
  BY <1>1, TextInduction
<1>3. Tidy(t, Said(kind, live, t))
  BY <1>2 DEF U
<1>. QED BY <1>3

(* What stands before the first call is said first.                        *)
LEMMA SaidBegins ==
    ASSUME NEW kind \in Kinds, NEW live \in BOOLEAN, NEW t \in TextOf, Find(t, CallOpen) # 0
    PROVE  \E x \in TextOf : Said(kind, live, t) = Before(t, Find(t, CallOpen)) \o x
<1>. DEFINE b == Before(t, Find(t, CallOpen))
            y == IF live \/ kind = "qwen" THEN <<>> ELSE CallBody(t)
            x == Said(kind, live, CallRest(t))
<1>1. y \in TextOf
  BY CallPlaces, TextIs
<1>2. NoCall(t) => Said(kind, live, t) = b \o y
  BY SaidIs
<1>3. ~NoCall(t) => x \in TextOf /\ Said(kind, live, t) = b \o x
  BY SaidIs
<1>. HIDE DEF b, x, y
<1>4. \E v \in TextOf : Said(kind, live, t) = b \o v
  BY <1>1, <1>2, <1>3
<1>. QED BY <1>4 DEF b

(* What follows the first call is said next.                               *)
LEMMA SaidRest ==
    ASSUME NEW kind \in Kinds, NEW live \in BOOLEAN, NEW t \in TextOf, ~NoCall(t)
    PROVE  Said(kind, live, t) = Before(t, Find(t, CallOpen)) \o Said(kind, live, CallRest(t))
BY SaidIs

(* What is said in a text that is complete stays when the text grows.      *)
LEMMA SaidGrows ==
    ASSUME NEW kind \in Kinds, NEW live \in BOOLEAN, NEW w \in TextOf, NEW v \in TextOf, Ready(w)
    PROVE  Begins(Said(kind, TRUE, w), Said(kind, live, w \o v))
<1>. DEFINE Good(s) == Ready(s) => Begins(Said(kind, TRUE, s), Said(kind, live, s \o v))
            U == {s \in TextOf : Good(s)}
<1>1. ASSUME NEW s \in TextOf, \A r \in TextOf : Len(r) < Len(s) => r \in U PROVE s \in U
  <2>. DEFINE z == s \o v
              o == Find(s, CallOpen)
              p == Find(z, CallOpen)
  <2>. SUFFICES ASSUME Ready(s) PROVE Begins(Said(kind, TRUE, s), Said(kind, live, z))
    OBVIOUS
  <2>0. /\ z \in TextOf /\ z \in Seq(Char) /\ Len(z) = Len(s) + Len(v) /\ s \in Seq(Char) /\ v \in Seq(Char)
        /\ Len(s) \in Nat /\ Len(v) \in Nat
    BY TextConcat, TextIs
  <2>1. CASE o # 0
    <3>1. o \in 1 .. Len(s) /\ Before(s, o) \in TextOf /\ CallBody(s) \in TextOf
      BY <2>1, CallPlaces
    <3>2. p = o
      BY <2>0, <2>1, FindExtends
    <3>3. Before(z, o) = Before(s, o)
      <4>. HIDE DEF o
      <4>1. o \in 1 .. Len(s) + 1
        BY <2>0, <3>1
      <4>. QED BY <2>0, <4>1, BeforeConcat
    <3>4. CASE NoCall(s)
      <4>1. Said(kind, TRUE, s) = Before(s, o)
        BY <2>1, <3>1, <3>4, SaidIs, TextConcat, ZenonT(60)
      <4>2. \E x \in TextOf : Said(kind, live, z) = Before(z, p) \o x
        <5>. HIDE DEF z
        <5>1. p # 0
          BY <2>1, <3>2
        <5>. QED BY <2>0, <5>1, SaidBegins
      <4>. QED BY <3>2, <3>3, <4>1, <4>2 DEF Begins
    <3>5. CASE ~NoCall(s)
      <4>. DEFINE r == CallRest(s)
                  b == Before(s, o)
                  x == Said(kind, TRUE, r)
      <4>1. r \in TextOf /\ Len(r) < Len(s) /\ x \in TextOf /\ Said(kind, TRUE, s) = b \o x
        BY <3>5, SaidIs
      <4>2. ~NoCall(z) /\ CallRest(z) = r \o v
        BY <3>5, CallPartsStay
      <4>3. Said(kind, live, z) = Before(z, p) \o Said(kind, live, r \o v)
        <5>. HIDE DEF z, r
        <5>1. Said(kind, live, z) = Before(z, p) \o Said(kind, live, CallRest(z))
          BY <2>0, <4>2, SaidRest
        <5>. QED BY <4>2, <5>1
      <4>4. Ready(r)
        <5>. DEFINE k == CallEnd(s) + 1
                    y == CallBody(s)
                    n == o + 1
        <5>1. k \in 0 .. Len(y) /\ r = After(y, k) /\ n \in 0 .. Len(s) /\ y = After(s, n)
          BY <2>1, <3>5, CallPlaces DEF CallRest, CallBody
        <5>2. y \in TextOf
          BY <3>1
        <5>. HIDE DEF k, y, r, n
        <5>3. Ready(y)
          BY <5>1, ReadyAfter
        <5>. QED BY <5>1, <5>2, <5>3, ReadyAfter
      <4>5. b \in TextOf
        BY <3>1
      <4>. HIDE DEF r
      <4>6. PICK q \in TextOf : Said(kind, live, r \o v) = x \o q
        BY <1>1, <4>1, <4>4 DEF Begins
      <4>. HIDE DEF b, x, z, o
      <4>7. b \o (x \o q) = (b \o x) \o q
        BY <4>1, <4>5, <4>6, TextAssoc, ZenonT(60)
      <4>8. Said(kind, live, z) = b \o (x \o q)
        BY <3>2, <3>3, <4>3, <4>6 DEF b
      <4>. QED BY <4>1, <4>6, <4>7, <4>8 DEF Begins
    <3>. QED BY <3>4, <3>5
  <2>2. CASE o = 0
    <3>1. Said(kind, TRUE, s) = s
      BY <2>2, SaidIs
    <3>2. p = 0 \/ p > Len(s)
      BY <2>0, <2>2, FindExtends DEF Ready, CallOpen
    <3>3. CASE p = 0
      <4>1. Said(kind, live, z) = z
        <5>. HIDE DEF z
        <5>. QED BY <2>0, <3>3, SaidIs
      <4>. QED BY <3>1, <4>1 DEF Begins
    <3>4. CASE p > Len(s)
      <4>. DEFINE j == p - Len(s)
      <4>0. p # 0
        BY <2>0, <3>4
      <4>1. p \in 1 .. Len(z) /\ CallBody(z) \in TextOf
        <5>. HIDE DEF z
        <5>. QED BY <2>0, <4>0, CallPlaces
      <4>2. \E x \in TextOf : Said(kind, live, z) = Before(z, p) \o x
        <5>. HIDE DEF z
        <5>. QED BY <2>0, <4>0, SaidBegins
      <4>3. PICK x \in TextOf : Said(kind, live, z) = Before(z, p) \o x
        BY <4>2
      <4>4. j \in 1 .. Len(v) /\ j \in 1 .. Len(v) + 1 /\ p = Len(s) + j
        BY <2>0, <3>4, <4>1
      <4>. HIDE DEF j, p
      <4>5. Before(z, p) = s \o Before(v, j)
        BY <2>0, <4>4, BeforeConcatLate
      <4>. DEFINE b == Before(v, j)
      <4>6. b \in TextOf
        <5>1. Before(v, j) \in Seq(Char)
          BY <2>0, <4>4, BeforeIs
        <5>. QED BY <5>1, TextIs
      <4>. HIDE DEF b
      <4>7. (s \o b) \o x = s \o (b \o x) /\ b \o x \in TextOf
        <5>1. x \in TextOf
          BY <4>3
        <5>2. \A c, d, e \in TextOf : (c \o d) \o e = c \o (d \o e)
          BY TextAssoc
        <5>3. s \in TextOf
          OBVIOUS
        <5>4. (s \o b) \o x = s \o (b \o x)
          BY <4>6, <5>1, <5>2, <5>3, ZenonT(60)
        <5>5. b \o x \in TextOf
          BY <4>6, <5>1, TextConcat
        <5>. QED BY <5>4, <5>5
      <4>8. Said(kind, live, z) = (s \o b) \o x
        BY <4>3, <4>5 DEF b
      <4>. HIDE DEF z
      <4>. QED BY <3>1, <4>7, <4>8 DEF Begins
    <3>. QED BY <3>2, <3>3, <3>4
  <2>. QED BY <2>1, <2>2
<1>. HIDE DEF U
<1>2. TextOf \subseteq U
  BY <1>1, TextInduction
<1>. QED BY <1>2 DEF U

(* The beginning of a marker at the end of the text comes to the end of    *)
(* what is said, or is part of a call.                                     *)
LEMMA SaidHeld ==
    ASSUME NEW kind \in Kinds, NEW w \in TextOf
    PROVE  \/ Said(kind, TRUE, w \o Opens) = Said(kind, TRUE, w)
           \/ Said(kind, TRUE, w \o Opens) = Said(kind, TRUE, w) \o Opens
<1>. DEFINE Good(s) == \/ Said(kind, TRUE, s \o Opens) = Said(kind, TRUE, s)
                       \/ Said(kind, TRUE, s \o Opens) = Said(kind, TRUE, s) \o Opens
            U == {s \in TextOf : Good(s)}
<1>0. \A s \in TextOf : s \o Opens \in TextOf
  BY OpensIs, TextConcat
<1>1. ASSUME NEW s \in TextOf, \A r \in TextOf : Len(r) < Len(s) => r \in U PROVE s \in U
  <2>. DEFINE z == s \o Opens
              o == Find(s, CallOpen)
  <2>0. z \in TextOf /\ s \in Seq(Char) /\ Opens \in Seq(Char) /\ Len(s) \in Nat
    BY <1>0, OpensIs, TextIs
  <2>1. Find(z, CallOpen) = o
    <3>1. CallOpen[2] # "<"
      BY DEF CallOpen
    <3>. QED BY <3>1, FindHeld DEF Opens
  <2>2. CASE o = 0
    <3>1. Said(kind, TRUE, s) = s
      BY <2>2, SaidIs
    <3>2. Said(kind, TRUE, z) = z
      <4>. HIDE DEF z
      <4>. QED BY <2>0, <2>1, <2>2, SaidIs
    <3>. QED BY <3>1, <3>2
  <2>3. CASE o # 0
    <3>1. o \in 1 .. Len(s) /\ Before(s, o) \in TextOf /\ CallBody(s) \in TextOf /\ o + 1 \in 0 .. Len(s)
      BY <2>3, CallPlaces
    <3>2. Before(z, o) = Before(s, o)
      <4>. HIDE DEF o
      <4>1. o \in 1 .. Len(s) + 1
        BY <2>0, <3>1
      <4>. QED BY <2>0, <4>1, BeforeConcat
    <3>3. CASE NoCall(s)
      <4>1. CallBody(z) = CallBody(s) \o Opens
        <5>. DEFINE n == o + 1
        <5>1. n \in 0 .. Len(s)
          BY <3>1
        <5>2. CallBody(z) = After(z, n) /\ CallBody(s) = After(s, n)
          BY <2>1 DEF CallBody
        <5>. HIDE DEF n
        <5>. QED BY <2>0, <5>1, <5>2, AfterConcat
      <4>2. CallEnd(z) = CallEnd(s)
        <5>1. CallClose[2] # "<"
          BY DEF CallClose
        <5>. DEFINE y == CallBody(s)
        <5>2. y \in TextOf
          BY <3>1
        <5>. HIDE DEF y
        <5>3. Find(y \o Opens, CallClose) = Find(y, CallClose)
          BY <5>1, <5>2, FindHeld DEF Opens
        <5>. QED BY <4>1, <5>3 DEF CallEnd, y
      <4>3. NoCall(z)
        BY <2>1, <3>3, <4>2 DEF NoCall
      <4>4. Said(kind, TRUE, s) = Before(s, o) \o <<>>
        BY <2>3, <3>3, SaidIs
      <4>5. Said(kind, TRUE, z) = Before(z, o) \o <<>>
        <5>. HIDE DEF z, o
        <5>. QED BY <2>0, <2>1, <2>3, <4>3, SaidIs
      <4>. QED BY <3>2, <4>4, <4>5
    <3>4. CASE ~NoCall(s)
      <4>. DEFINE r == CallRest(s)
                  b == Before(s, o)
                  x == Said(kind, TRUE, r)
      <4>1. r \in TextOf /\ Len(r) < Len(s) /\ x \in TextOf /\ Said(kind, TRUE, s) = b \o x
        BY <3>4, SaidIs
      <4>2. ~NoCall(z) /\ CallRest(z) = r \o Opens
        BY <3>4, OpensIs, CallPartsStay
      <4>3. Said(kind, TRUE, z) = Before(z, o) \o Said(kind, TRUE, r \o Opens)
        <5>. HIDE DEF z, r
        <5>1. Said(kind, TRUE, z) = Before(z, Find(z, CallOpen)) \o Said(kind, TRUE, CallRest(z))
          BY <2>0, <4>2, SaidRest
        <5>. QED BY <2>1, <4>2, <5>1
      <4>4. b \in TextOf
        BY <3>1
      <4>. HIDE DEF r
      <4>5. Good(r)
        BY <1>1, <4>1
      <4>. HIDE DEF b, x, z, o
      <4>6. b \o (x \o Opens) = (b \o x) \o Opens
        BY <4>1, <4>4, OpensIs, TextAssoc
      <4>7. Said(kind, TRUE, z) = b \o Said(kind, TRUE, r \o Opens)
        BY <3>2, <4>3 DEF b
      <4>8. Said(kind, TRUE, r \o Opens) = x \/ Said(kind, TRUE, r \o Opens) = x \o Opens
        BY <4>5 DEF x
      <4>. QED BY <4>1, <4>6, <4>7, <4>8 DEF z
    <3>. QED BY <3>3, <3>4
  <2>. QED BY <2>2, <2>3
<1>. HIDE DEF U
<1>2. TextOf \subseteq U
  BY <1>1, TextInduction
<1>. QED BY <1>2 DEF U

(* Every call that is opened is closed.                                    *)
CallsClosed(t) == \A i \in Occurs(t, CallOpen) : \E k \in Occurs(t, CallClose) : i < k

(* The end of a text whose calls are closed has its calls closed.          *)
LEMMA CallsClosedAfter ==
    ASSUME NEW t \in TextOf, CallsClosed(t), NEW d \in 0 .. Len(t)
    PROVE  CallsClosed(After(t, d))
<1>. DEFINE r == After(t, d)
<1>1. t \in Seq(Char) /\ d \in Nat /\ Len(t) \in Nat
  BY TextIs
<1>2. /\ r \in Seq(Char) /\ Len(r) = Len(t) - d
      /\ \A i \in 1 .. Len(t) - d : r[i] = t[d + i]
  BY <1>1, AfterIs
<1>3. r \in TextOf
  BY <1>2, TextIs
<1>. HIDE DEF r
<1>4. ASSUME NEW i \in Occurs(r, CallOpen) PROVE \E k \in Occurs(r, CallClose) : i < k
  <2>1. i \in 1 .. Len(r) /\ i < Len(r) /\ Stands(r, CallOpen, i)
    BY <1>3, OccursIs
  <2>2. r[i] = t[d + i] /\ r[i + 1] = t[d + i + 1]
    BY <1>1, <1>2, <2>1, SMTT(60)
  <2>3. d + i \in Occurs(t, CallOpen)
    <3>1. d + i \in 1 .. Len(t) /\ d + i < Len(t) /\ Stands(t, CallOpen, d + i)
      BY <1>1, <1>2, <2>1, <2>2 DEF Stands
    <3>. QED BY <3>1, OccursIs
  <2>4. PICK k \in Occurs(t, CallClose) : d + i < k
    BY <2>3 DEF CallsClosed
  <2>5. k \in 1 .. Len(t) /\ k < Len(t) /\ Stands(t, CallClose, k)
    BY OccursIs
  <2>6. k - d \in 1 .. Len(r) /\ k - d < Len(r) /\ i < k - d /\ d + (k - d) = k /\ d + (k - d + 1) = k + 1
    BY <1>1, <1>2, <2>1, <2>4, <2>5
  <2>7. r[k - d] = t[k] /\ r[k - d + 1] = t[k + 1]
    <3>1. k - d \in 1 .. Len(t) - d /\ k - d + 1 \in 1 .. Len(t) - d
      BY <1>1, <1>2, <2>6
    <3>2. r[k - d] = t[d + (k - d)] /\ r[k - d + 1] = t[d + (k - d + 1)]
      BY <1>2, <3>1
    <3>. QED BY <2>6, <3>2
  <2>8. k - d \in Occurs(r, CallClose)
    <3>1. Stands(r, CallClose, k - d)
      BY <2>5, <2>7 DEF Stands
    <3>. QED BY <1>3, <2>6, <3>1, OccursIs
  <2>. QED BY <2>6, <2>8
<1>5. CallsClosed(r)
  BY <1>4 DEF CallsClosed
<1>. QED BY <1>5 DEF r

(* The calls of such a text end in it.                                     *)
LEMMA ClosedCall ==
    ASSUME NEW t \in TextOf, CallsClosed(t), Find(t, CallOpen) # 0
    PROVE  ~NoCall(t)
<1>. DEFINE o == Find(t, CallOpen)
            n == o + 1
            y == After(t, n)
<1>1. t \in Seq(Char) /\ Len(t) \in Nat
  BY TextIs
<1>2. o < Len(t) /\ Stands(t, CallOpen, o) /\ o \in 0 .. Len(t)
  BY <1>1, FindIs
<1>3. o \in Occurs(t, CallOpen) /\ o \in Nat
  <2>. HIDE DEF o
  <2>1. o \in 1 .. Len(t)
    BY <1>1, <1>2 DEF o
  <2>. QED BY <1>2, <2>1, OccursIs
<1>4. PICK k \in Occurs(t, CallClose) : o < k
  BY <1>3 DEF CallsClosed
<1>5. k \in 1 .. Len(t) /\ k < Len(t) /\ t[k] = "<" /\ t[k + 1] = "/call"
  BY OccursIs DEF Stands, CallClose
<1>. HIDE DEF o
<1>6. t[n] = "call"
  BY <1>2 DEF Stands, CallOpen
<1>7. k > n
  <2>1. k # n
    BY <1>5, <1>6
  <2>. QED BY <1>1, <1>3, <1>4, <1>5, <2>1
<1>8. n \in 0 .. Len(t) /\ n \in Nat
  BY <1>1, <1>2, <1>3
<1>. HIDE DEF n
<1>9. y \in TextOf /\ Len(y) = Len(t) - n /\ \A i \in 1 .. Len(t) - n : y[i] = t[n + i]
  BY <1>1, <1>8, AfterIs, TextIs
<1>. HIDE DEF y
<1>10. Find(y, CallClose) # 0
  <2>. DEFINE i == k - n
  <2>1. i \in 1 .. Len(t) - n /\ i + 1 \in 1 .. Len(t) - n /\ i \in 1 .. Len(y) - 1
    BY <1>1, <1>5, <1>7, <1>8, <1>9
  <2>2. y[i] = t[n + i] /\ y[i + 1] = t[n + (i + 1)]
    BY <1>9, <2>1
  <2>3. n + i = k /\ n + (i + 1) = k + 1
    BY <1>5, <1>8
  <2>4. Stands(y, CallClose, i)
    BY <1>5, <2>2, <2>3 DEF Stands, CallClose
  <2>. HIDE DEF i
  <2>. QED BY <1>9, <2>1, <2>4, FreeIs
<1>. QED BY <1>10 DEF NoCall, CallEnd, CallBody, y, n, o

(* What is said then does not depend on whether the answer has ended.      *)
LEMMA SaidClosed ==
    ASSUME NEW kind \in Kinds, NEW t \in TextOf, CallsClosed(t)
    PROVE  Said(kind, FALSE, t) = Said(kind, TRUE, t)
<1>. DEFINE U == {s \in TextOf : CallsClosed(s) => Said(kind, FALSE, s) = Said(kind, TRUE, s)}
<1>1. ASSUME NEW s \in TextOf, \A r \in TextOf : Len(r) < Len(s) => r \in U PROVE s \in U
  <2>. SUFFICES ASSUME CallsClosed(s) PROVE Said(kind, FALSE, s) = Said(kind, TRUE, s)
    OBVIOUS
  <2>1. CASE Find(s, CallOpen) = 0
    BY <2>1, SaidIs, ZenonT(60)
  <2>2. CASE Find(s, CallOpen) # 0
    <3>. DEFINE r == CallRest(s)
    <3>1. ~NoCall(s)
      BY <2>2, ClosedCall
    <3>2. /\ r \in TextOf /\ Len(r) < Len(s)
          /\ Said(kind, TRUE, s) = Before(s, Find(s, CallOpen)) \o Said(kind, TRUE, r)
          /\ Said(kind, FALSE, s) = Before(s, Find(s, CallOpen)) \o Said(kind, FALSE, r)
      BY <3>1, SaidIs
    <3>3. CallsClosed(r)
      <4>. DEFINE k == CallEnd(s) + 1
                  y == CallBody(s)
                  n == Find(s, CallOpen) + 1
      <4>1. k \in 0 .. Len(y) /\ r = After(y, k) /\ n \in 0 .. Len(s) /\ y = After(s, n) /\ y \in TextOf
        BY <2>2, <3>1, CallPlaces DEF CallRest, CallBody
      <4>. HIDE DEF k, y, r, n
      <4>2. CallsClosed(y)
        BY <4>1, CallsClosedAfter
      <4>. QED BY <4>1, <4>2, CallsClosedAfter
    <3>4. Said(kind, FALSE, r) = Said(kind, TRUE, r)
      BY <1>1, <3>2, <3>3
    <3>. QED BY <3>2, <3>4
  <2>. QED BY <2>1, <2>2
<1>. HIDE DEF U
<1>2. TextOf \subseteq U
  BY <1>1, TextInduction
<1>. QED BY <1>2 DEF U

-----------------------------------------------------------------------------
(* The text of the two parses.                                             *)

(* What is said has no marker that ends it while the answer grows; of a    *)
(* finished answer what is complete stays.                                 *)
LEMMA TruncateIs ==
    ASSUME NEW t \in TextOf, NEW m
    PROVE  /\ Free(t, m) => Truncate(t, m) = t
           /\ ~Free(t, m) => Truncate(t, m) = Before(t, Find(t, m))
BY DEF Truncate, Free

(* Nothing is dropped from a clean text without a call.                    *)
LEMMA NoOvershoot ==
    ASSUME NEW kind, NEW calls, NEW t \in TextOf, Clean(kind, t), Free(t, CallOpen)
    PROVE  Overshoot(kind, calls, t) = t
<1>1. CASE kind = "gemma"
  <2>1. Truncate(t, TurnOpen) = t
    BY <1>1, TruncateIs DEF Clean
  <2>2. Truncate(t, CallOpen) = t
    BY TruncateIs
  <2>. QED BY <2>1, <2>2 DEF Overshoot
<1>2. CASE kind # "gemma"
  BY <1>2 DEF Overshoot
<1>. QED BY <1>1, <1>2

(* A text that begins with another and says no doubled beginning after it. *)
Keeps(w, r) == \E u \in TextOf : r = w \o u /\ Free(u, Twice)

(* What is dropped comes after a part without a call.                      *)
LEMMA OvershootKeeps ==
    ASSUME NEW kind, NEW calls, NEW w \in TextOf, NEW v \in TextOf, Ready(w), Free(w, CallOpen),
           Clean(kind, w \o v)
    PROVE  Keeps(w, Overshoot(kind, calls, w \o v))
<1>. SUFFICES \E u \in TextOf : Overshoot(kind, calls, w \o v) = w \o u /\ Free(u, Twice)
  BY DEF Keeps
<1>. DEFINE t == w \o v
<1>1. /\ t \in TextOf /\ t \in Seq(Char) /\ w \in Seq(Char) /\ v \in Seq(Char) /\ Len(t) = Len(w) + Len(v)
      /\ Len(w) \in Nat /\ Len(v) \in Nat
  BY TextConcat, TextIs
<1>2. Clean(kind, v) /\ Free(v, Twice)
  <2>1. Clean(kind, v)
    BY CleanParts
  <2>. QED BY <2>1 DEF Clean
<1>3. Overshoot(kind, calls, t) \in {t, Truncate(t, CallOpen)}
  <2>1. kind = "gemma" => Free(t, TurnOpen)
    BY DEF Clean
  <2>. HIDE DEF t
  <2>2. kind = "gemma" => Truncate(t, TurnOpen) = t
    BY <1>1, <2>1, TruncateIs
  <2>. QED BY <2>2 DEF Overshoot
<1>4. CASE Overshoot(kind, calls, t) = t
  BY <1>2, <1>4
<1>5. CASE Overshoot(kind, calls, t) = Truncate(t, CallOpen)
  <2>. DEFINE p == Find(t, CallOpen)
  <2>1. CASE Free(t, CallOpen)
    <3>1. Truncate(t, CallOpen) = t
      <4>. HIDE DEF t
      <4>. QED BY <1>1, <2>1, TruncateIs
    <3>. QED BY <1>2, <1>5, <3>1
  <2>2. CASE ~Free(t, CallOpen)
    <3>1. Truncate(t, CallOpen) = Before(t, p)
      <4>. HIDE DEF t
      <4>. QED BY <1>1, <2>2, TruncateIs
    <3>2. p # 0 /\ p \in 0 .. Len(t)
      <4>. HIDE DEF t
      <4>. QED BY <1>1, <2>2, FreeIs, FindIs
    <3>3. p > Len(w)
      <4>1. Find(w, CallOpen) = 0
        BY FreeIs
      <4>2. p = 0 \/ p > Len(w) \/ (p = Len(w) /\ Len(w) > 0 /\ w[Len(w)] = CallOpen[1])
        BY <1>1, <4>1, FindExtends
      <4>3. CallOpen[1] = "<"
        BY DEF CallOpen
      <4>. QED BY <3>2, <4>2, <4>3 DEF Ready
    <3>. DEFINE j == p - Len(w)
                d == j - 1
                b == Before(v, j)
    <3>4. j \in 1 .. Len(v) + 1 /\ p = Len(w) + j /\ d \in 0 .. Len(v) /\ d + 1 = j
      BY <1>1, <3>2, <3>3
    <3>. HIDE DEF d, j, p
    <3>5. Before(t, p) = w \o b
      BY <1>1, <3>4, BeforeConcatLate
    <3>6. b \in TextOf /\ Clean(kind, b)
      <4>1. Before(v, d + 1) \in TextOf /\ Clean(kind, Before(v, d + 1))
        BY <1>2, <3>4, TextCut, CleanCut
      <4>. QED BY <3>4, <4>1
    <3>7. Free(b, Twice)
      BY <3>6 DEF Clean
    <3>. HIDE DEF b, t
    <3>8. Overshoot(kind, calls, t) = w \o b
      BY <1>5, <3>1, <3>5 DEF p
    <3>. QED BY <3>6, <3>7, <3>8 DEF t
  <2>. QED BY <2>1, <2>2
<1>. QED BY <1>3, <1>4, <1>5

(* Trimming at both ends takes what trimming at the end leaves.            *)
LEMMA TrimTwice ==
    ASSUME NEW t \in TextOf
    PROVE  TrimEnd(t) \in TextOf /\ Trim(t) \in TextOf /\ Trim(TrimEnd(t)) = Trim(t)
<1>1. t \in Seq(Char) /\ Len(t) \in Nat
  BY TextIs
<1>2. Ink(t) \subseteq 1 .. Len(t) /\ Ink(t) = {n \in 1 .. Len(t) : t[n] # "nl"}
  BY <1>1, InkIs DEF Ink
<1>3. TrimEnd(t) \in TextOf /\ Trim(t) \in TextOf
  BY <1>1, TrimIs, TextIs
<1>4. CASE Ink(t) = {}
  <2>1. Ink(t) \cup {0} = {0}
    BY <1>4
  <2>2. Max({0}) = 0
    <3>1. {0} \subseteq 0 .. 0 /\ {0} # {} /\ 0 \in Nat
      OBVIOUS
    <3>2. Max({0}) \in {0}
      BY <3>1, MaxIs
    <3>. QED BY <3>2
  <2>3. TrimEnd(t) = <<>>
    <3>1. SubSeq(t, 1, 0) = <<>>
      BY SubSeqEmpty
    <3>. QED BY <2>1, <2>2, <3>1 DEF TrimEnd
  <2>4. Trim(<<>>) = <<>>
    BY DEF Trim, Ink
  <2>5. Trim(t) = <<>>
    BY <1>4 DEF Trim
  <2>. QED BY <1>3, <2>3, <2>4, <2>5
<1>5. CASE Ink(t) # {}
  <2>. DEFINE i == Min(Ink(t))
              j == Max(Ink(t))
              e == SubSeq(t, 1, j)
  <2>1. Ink(t) \subseteq Nat /\ Ink(t) \subseteq 0 .. Len(t) /\ Ink(t) \cup {0} \subseteq 0 .. Len(t)
    BY <1>1, <1>2
  <2>2. i \in Ink(t) /\ \A y \in Ink(t) : i <= y
    BY <1>5, <2>1, MinIs
  <2>3. j \in Ink(t) /\ \A y \in Ink(t) : j >= y
    BY <1>1, <1>5, <2>1, MaxIs
  <2>4. Max(Ink(t) \cup {0}) = j
    <3>. DEFINE m == Max(Ink(t) \cup {0})
    <3>1. m \in Ink(t) \cup {0} /\ \A y \in Ink(t) \cup {0} : m >= y
      BY <1>1, <2>1, MaxIs
    <3>. HIDE DEF m, j
    <3>2. m \in Nat /\ j \in Nat /\ m >= j
      BY <2>1, <2>3, <3>1
    <3>3. m <= j
      BY <2>3, <3>1, <3>2
    <3>. QED BY <3>2, <3>3 DEF m
  <2>5. Trim(t) = SubSeq(t, i, j) /\ TrimEnd(t) = e
    BY <1>5, <2>4 DEF Trim, TrimEnd
  <2>6. i \in 1 .. Len(t) /\ j \in 1 .. Len(t) /\ i <= j
    BY <1>2, <2>2, <2>3
  <2>7. e \in Seq(Char) /\ Len(e) = j /\ \A n \in 1 .. j : e[n] = t[n]
    <3>1. 1 \in Int /\ j \in Int /\ \A n \in 1 .. j : t[n] \in Char
      BY <1>1, <2>6
    <3>. HIDE DEF j
    <3>. QED BY <2>6, <3>1, SubSeqProperties
  <2>. HIDE DEF e
  <2>8. Ink(e) = Ink(t)
    <3>1. Ink(e) = {n \in 1 .. Len(e) : e[n] # "nl"}
      BY <2>7 DEF Ink
    <3>2. ASSUME NEW n \in Ink(t) PROVE n \in Ink(e)
      <4>1. n \in 1 .. j /\ t[n] # "nl"
        BY <1>1, <1>2, <2>3, <2>6
      <4>. QED BY <2>7, <3>1, <4>1
    <3>3. ASSUME NEW n \in Ink(e) PROVE n \in Ink(t)
      <4>1. n \in 1 .. j /\ e[n] # "nl"
        BY <2>7, <3>1
      <4>2. n \in 1 .. Len(t) /\ t[n] # "nl"
        BY <2>6, <2>7, <4>1
      <4>. QED BY <1>2, <4>2
    <3>. QED BY <3>2, <3>3
  <2>9. Trim(e) = SubSeq(e, i, j)
    BY <1>5, <2>8 DEF Trim
  <2>. HIDE DEF i, j
  <2>10. SubSeq(e, i, j) = SubSeq(t, i, j)
    <3>. DEFINE p == SubSeq(e, i, j)
                q == SubSeq(t, i, j)
    <3>1. i \in Int /\ j \in Int /\ (\A n \in i .. j : t[n] \in Char /\ e[n] \in Char)
      BY <1>1, <2>6, <2>7
    <3>2. p \in Seq(Char) /\ Len(p) = j - i + 1 /\ \A n \in 1 .. j - i + 1 : p[n] = e[i + n - 1]
      BY <2>6, <3>1, SubSeqProperties
    <3>3. q \in Seq(Char) /\ Len(q) = j - i + 1 /\ \A n \in 1 .. j - i + 1 : q[n] = t[i + n - 1]
      BY <2>6, <3>1, SubSeqProperties
    <3>. HIDE DEF p, q
    <3>4. ASSUME NEW n \in 1 .. Len(p) PROVE p[n] = q[n]
      <4>1. i + n - 1 \in 1 .. j /\ n \in 1 .. j - i + 1
        BY <2>6, <3>2
      <4>. QED BY <2>7, <3>2, <3>3, <4>1
    <3>5. p = q
      BY <3>2, <3>3, <3>4, SeqEqual
    <3>. QED BY <3>5 DEF p, q
  <2>. QED BY <1>3, <2>5, <2>9, <2>10
<1>. QED BY <1>4, <1>5

(* The beginning of a marker at the end of a text is not trimmed.          *)
LEMMA TrimOpens ==
    ASSUME NEW x \in TextOf
    PROVE  Trim(x \o Opens) # <<>> /\ Last(Trim(x \o Opens)) = "<"
<1>. DEFINE t == x \o Opens
            n == Len(x) + 1
<1>1. /\ t \in TextOf /\ Len(t) = n /\ Len(x) \in Nat
      /\ \A i \in 1 .. Len(x) + 1 : t[i] = IF i <= Len(x) THEN x[i] ELSE Opens[i - Len(x)]
  BY OpensIs, TextConcat, ZenonT(60)
<1>. HIDE DEF t
<1>2. n \in 1 .. n /\ n \in Nat /\ t[n] = "<"
  <2>1. n \in 1 .. Len(x) + 1 /\ ~(n <= Len(x)) /\ n - Len(x) = 1
    BY <1>1
  <2>. QED BY <1>1, <2>1, OpensIs
<1>. HIDE DEF n
<1>3. t \in Seq(Char)
  BY <1>1, TextIs
<1>4. n \in Ink(t) /\ Ink(t) \subseteq 1 .. n
  BY <1>1, <1>2, <1>3, InkIs DEF Ink
<1>. DEFINE i == Min(Ink(t))
            j == Max(Ink(t))
            e == SubSeq(t, i, j)
<1>5. i \in 1 .. n
  BY <1>1, <1>3, <1>4, InkIs
<1>6. j = n
  <2>1. Ink(t) \subseteq 0 .. n /\ Ink(t) # {}
    BY <1>2, <1>4
  <2>2. j \in Ink(t) /\ \A y \in Ink(t) : j >= y
    BY <1>2, <2>1, MaxIs
  <2>. QED BY <1>2, <1>4, <2>2
<1>7. Trim(t) = e
  BY <1>4 DEF Trim
<1>. HIDE DEF i, j
<1>8. e \in Seq(Char) /\ Len(e) = n - i + 1 /\ e[n - i + 1] = t[n]
  <2>1. i \in Int /\ j \in Int /\ \A k \in i .. j : t[k] \in Char
    BY <1>1, <1>2, <1>3, <1>5, <1>6
  <2>2. e \in Seq(Char) /\ Len(e) = (IF i <= j THEN j - i + 1 ELSE 0)
        /\ \A k \in 1 .. j - i + 1 : e[k] = t[i + k - 1]
    BY <2>1, SubSeqProperties
  <2>. DEFINE k == j - i + 1
  <2>3. k \in 1 .. j - i + 1 /\ i + k - 1 = n /\ k = n - i + 1 /\ i <= j
    BY <1>2, <1>5, <1>6
  <2>. HIDE DEF e, k
  <2>4. e[k] = t[i + k - 1]
    BY <2>2, <2>3
  <2>. QED BY <2>2, <2>3, <2>4 DEF k
<1>. HIDE DEF e
<1>9. e # <<>> /\ Last(e) = "<"
  BY <1>2, <1>5, <1>8 DEF Last
<1>. QED BY <1>7, <1>9 DEF t

(* The content of a clean answer is clean.                                 *)
LEMMA ContentClean ==
    ASSUME NEW kind \in Kinds, NEW live \in BOOLEAN, NEW t \in TextOf, Clean(kind, t)
    PROVE  Clean(kind, ContentOf(kind, live, t))
<1>. DEFINE U == {s \in TextOf : Clean(kind, s) => Clean(kind, ContentOf(kind, live, s))}
<1>1. ASSUME NEW s \in TextOf, \A r \in TextOf : Len(r) < Len(s) => r \in U PROVE s \in U
  <2>. SUFFICES ASSUME Clean(kind, s) PROVE Clean(kind, ContentOf(kind, live, s))
    OBVIOUS
  <2>1. CASE Opening(s) = 0
    BY <2>1, ContentOfIs
  <2>2. CASE Opening(s) # 0
    <3>. DEFINE o == Opening(s)
                b == Before(s, o)
    <3>1. o \in 1 .. Len(s) /\ s[o] = "<"
      BY <2>2, FoundAt DEF Opening, ThinkOpen
    <3>2. b \in TextOf /\ Clean(kind, b) /\ Ready(b)
      <4>. HIDE DEF o
      <4>. QED BY <3>1, CleanBefore
    <3>3. CASE NoChannel(kind, live, s)
      BY <2>2, <3>2, <3>3, ContentOfIs
    <3>4. CASE ~NoChannel(kind, live, s)
      <4>. DEFINE r == ChannelRest(kind, s)
                  w == Window(kind, s)
                  i == o + 1 + NameEnd(kind, s)
                  k == Closing(kind, s) + 1
                  x == ContentOf(kind, live, r)
      <4>1. /\ i \in 0 .. Len(s) /\ w \in TextOf /\ k \in 0 .. Len(w) /\ r \in TextOf /\ Len(r) < Len(s)
        BY <2>2, <3>4, ChannelParts DEF NoChannel
      <4>2. w = After(s, i) /\ r = After(w, k)
        BY DEF Window, ChannelRest
      <4>3. ContentOf(kind, live, s) = b \o x
        BY <3>4, ContentOfIs
      <4>. HIDE DEF i, w, k, r, o, b
      <4>4. Clean(kind, w)
        BY <4>1, <4>2, CleanCut
      <4>5. Clean(kind, r)
        BY <4>1, <4>2, <4>4, CleanCut
      <4>6. Clean(kind, x) /\ x \in TextOf
        BY <1>1, <4>1, <4>5, ContentOfIs
      <4>. HIDE DEF x
      <4>. QED BY <3>2, <4>3, <4>6, CleanJoin
    <3>. QED BY <3>3, <3>4
  <2>. QED BY <2>1, <2>2
<1>. HIDE DEF U
<1>2. TextOf \subseteq U
  BY <1>1, TextInduction
<1>. QED BY <1>2 DEF U

(* What has been said for good: outside the channels and the calls, and    *)
(* without the beginning of a marker at its end.                           *)
Base(kind, t) == Said(kind, TRUE, HoldBack(ContentOf(kind, TRUE, t)))

(* The base is clean, and short of what is said by a held "<" at most.     *)
LEMMA BaseIs ==
    ASSUME NEW kind \in Kinds, NEW t \in TextOf, Clean(kind, t)
    PROVE  /\ Base(kind, t) \in TextOf /\ Ready(Base(kind, t))
           /\ Clean(kind, Base(kind, t)) /\ Free(Base(kind, t), CallOpen)
           /\ \/ Said(kind, TRUE, ContentOf(kind, TRUE, t)) = Base(kind, t)
              \/ Said(kind, TRUE, ContentOf(kind, TRUE, t)) = Base(kind, t) \o Opens
<1>. DEFINE c == ContentOf(kind, TRUE, t)
            h == HoldBack(c)
<1>1. c \in TextOf /\ Clean(kind, c)
  BY ContentOfIs, ContentClean
<1>. HIDE DEF c
<1>2. h \in TextOf /\ Ready(h) /\ (c = h \/ c = h \o Opens)
  BY <1>1, HeldIs DEF Clean
<1>. HIDE DEF h
<1>3. Clean(kind, h)
  <2>1. CASE c = h
    BY <1>1, <2>1
  <2>2. CASE c = h \o Opens
    <3>1. h \in TextOf /\ Opens \in TextOf /\ Clean(kind, h \o Opens)
      BY <1>1, <1>2, <2>2, OpensIs
    <3>. QED BY <3>1, CleanParts
  <2>. QED BY <1>2, <2>1, <2>2
<1>4. Said(kind, TRUE, h) \in TextOf
  BY <1>2, SaidIs
<1>5. Clean(kind, Said(kind, TRUE, h)) /\ Free(Said(kind, TRUE, h), CallOpen) /\ Ready(Said(kind, TRUE, h))
  BY <1>2, <1>3, SaidClean
<1>6. \/ Said(kind, TRUE, c) = Said(kind, TRUE, h)
      \/ Said(kind, TRUE, c) = Said(kind, TRUE, h) \o Opens
  BY <1>2, SaidHeld
<1>7. Base(kind, t) = Said(kind, TRUE, h)
  BY DEF Base, h, c
<1>. QED BY <1>4, <1>5, <1>6, <1>7 DEF c

(* The removal of markers leaves a text that can be cut like it.           *)
LEMMA StripsBase ==
    ASSUME NEW kind, NEW b \in TextOf, Ready(b), Free(b, Twice), NEW v \in TextOf, Free(v, Twice)
    PROVE  /\ Strip(kind, b) \in TextOf /\ Strip(kind, v) \in TextOf /\ Ready(Strip(kind, b))
           /\ Strip(kind, b \o v) = Strip(kind, b) \o Strip(kind, v)
<1>1. Split(b, v, b \o v)
  BY DEF Split
<1>2. Split(Strip(kind, b), Strip(kind, v), Strip(kind, b \o v))
  BY <1>1, StripsSplit
<1>. QED BY <1>2 DEF Split

(* What remains of a text when markers are removed is text.                *)
LEMMA StripText ==
    ASSUME NEW kind, NEW t \in TextOf
    PROVE  Strip(kind, t) \in TextOf
<1>1. /\ CallOpen[1] = "<" /\ CallClose[1] = "<" /\ TurnOpen[1] = "<" /\ TurnClose[1] = "<"
      /\ ThinkOpen[1] = "<" /\ ThinkClose[1] = "<"
  BY DEF CallOpen, CallClose, TurnOpen, TurnClose, ThinkOpen, ThinkClose
<1>2. \A u \in TextOf : \A m : m[1] = "<" => StripMarker(u, m) \in TextOf
  BY StripUnfold
<1>3. \A u \in TextOf : /\ StripMarker(u, CallOpen) \in TextOf /\ StripMarker(u, CallClose) \in TextOf
                        /\ StripMarker(u, TurnOpen) \in TextOf /\ StripMarker(u, TurnClose) \in TextOf
                        /\ StripMarker(u, ThinkOpen) \in TextOf /\ StripMarker(u, ThinkClose) \in TextOf
  BY <1>1, <1>2
<1>. QED BY <1>3, Zenon DEF Strip, StripCalls, StripTurns

(* What remains when the turns after a call are dropped is text.           *)
LEMMA OvershootText ==
    ASSUME NEW kind, NEW calls, NEW t \in TextOf
    PROVE  Overshoot(kind, calls, t) \in TextOf
<1>1. ASSUME NEW u \in TextOf, NEW m, m[1] = "<" PROVE Truncate(u, m) \in TextOf
  <2>1. CASE Free(u, m)
    BY <2>1, TruncateIs
  <2>2. CASE ~Free(u, m)
    <3>1. Find(u, m) # 0
      BY <2>2, FreeIs
    <3>2. Before(u, Find(u, m)) \in TextOf
      BY <1>1, <3>1, FoundAt
    <3>. QED BY <2>2, <3>2, TruncateIs
  <2>. QED BY <2>1, <2>2
<1>2. TurnOpen[1] = "<" /\ CallOpen[1] = "<"
  BY DEF TurnOpen, CallOpen
<1>3. Truncate(Truncate(t, TurnOpen), CallOpen) \in TextOf
  BY <1>1, <1>2
<1>. QED BY <1>3 DEF Overshoot

(* The text for the user, of a text without calls and channels.            *)
LEMMA ContentIs ==
    ASSUME NEW kind, NEW live, NEW t \in TextOf
    PROVE  Content(kind, live, t) = IF live THEN TrimEnd(HoldBack(Strip(kind, t))) ELSE Trim(Strip(kind, t))
<1>1. Strip(kind, t) \in TextOf
  BY StripText
<1>. QED BY <1>1 DEF Content

(* The content of the streaming parse is what has been said for good,      *)
(* without markers.                                                        *)
LEMMA LiveText ==
    ASSUME NEW kind \in Kinds, NEW t \in TextOf, Clean(kind, t)
    PROVE  Live(kind, t).content = TrimEnd(Strip(kind, Base(kind, t))) /\ Strip(kind, Base(kind, t)) \in TextOf
<1>. DEFINE c == ContentOf(kind, TRUE, t)
            s == Said(kind, TRUE, c)
            b == Base(kind, t)
            calls == CallsOf(kind, TRUE, c)
<1>1. Live(kind, t).content = Content(kind, TRUE, Overshoot(kind, calls, s))
  BY DEF Live, Parse, CallsOf, Said, ContentOf
<1>2. b \in TextOf /\ Ready(b) /\ Clean(kind, b) /\ Free(b, CallOpen) /\ (s = b \/ s = b \o Opens)
  BY BaseIs
<1>. HIDE DEF b, c, calls, s
<1>3. s \in TextOf /\ Clean(kind, s) /\ Free(s, CallOpen)
  <2>1. CASE s = b
    BY <1>2, <2>1
  <2>2. CASE s = b \o Opens
    <3>1. b \o Opens \in TextOf
      BY <1>2, OpensIs, TextConcat
    <3>2. Clean(kind, Opens)
      BY OpensIs DEF Clean
    <3>3. Clean(kind, b \o Opens)
      BY <1>2, <3>2, OpensIs, CleanJoin
    <3>4. CallOpen[1] = "<"
      BY DEF CallOpen
    <3>5. Free(b \o Opens, CallOpen)
      BY <1>2, <3>4, OpensIs, FreeJoin
    <3>. QED BY <2>2, <3>1, <3>3, <3>5
  <2>. QED BY <1>2, <2>1, <2>2
<1>4. Overshoot(kind, calls, s) = s
  BY <1>3, NoOvershoot
<1>5. Free(b, Twice)
  BY <1>2 DEF Clean
<1>6. Strip(kind, b) \in TextOf /\ Ready(Strip(kind, b)) /\ Strip(kind, b \o Opens) = Strip(kind, b) \o Opens
  BY <1>2, <1>5, OpensIs, StripsBase, StripsOpens, SMTT(60)
<1>7. HoldBack(Strip(kind, s)) = Strip(kind, b)
  <2>. DEFINE x == Strip(kind, b)
  <2>1. x \in TextOf /\ Ready(x) /\ (Strip(kind, s) = x \/ Strip(kind, s) = x \o Opens)
    BY <1>2, <1>6
  <2>. HIDE DEF x
  <2>2. HoldBack(Strip(kind, s)) = x
    BY <2>1, HoldsOpens
  <2>. QED BY <2>2 DEF x
<1>8. Content(kind, TRUE, s) = TrimEnd(HoldBack(Strip(kind, s)))
  BY <1>3, ContentIs
<1>. QED BY <1>1, <1>4, <1>6, <1>7, <1>8 DEF b

(* What has been said for good stays when the content grows.               *)
LEMMA BaseGrows ==
    ASSUME NEW kind \in Kinds, NEW t \in TextOf, NEW g \in TextOf, Clean(kind, t)
    PROVE  \E u \in TextOf : ContentOf(kind, TRUE, t \o g) = HoldBack(ContentOf(kind, TRUE, t)) \o u
<1>. DEFINE c == ContentOf(kind, TRUE, t)
            h == HoldBack(c)
<1>1. c \in TextOf /\ Clean(kind, c)
  BY ContentOfIs, ContentClean
<1>2. PICK w \in TextOf, v \in TextOf : /\ ContentOf(kind, TRUE, t \o g) = w \o v
                                        /\ c = w \/ c = w \o Opens
  BY ContentGrows DEF Grows, Opens
<1>. HIDE DEF c
<1>3. h \in TextOf /\ (c = h \/ c = h \o Opens)
  BY <1>1, HeldIs DEF Clean
<1>4. CASE c = w \o Opens
  <2>1. h = w
    BY <1>2, <1>4, HoldsOpens
  <2>. QED BY <1>2, <2>1 DEF c
<1>5. CASE c = w
  <2>. HIDE DEF h
  <2>1. CASE c = h
    <3>1. ContentOf(kind, TRUE, t \o g) = h \o v
      BY <1>2, <1>5, <2>1
    <3>. QED BY <1>2, <3>1 DEF h, c
  <2>2. CASE c = h \o Opens
    <3>1. (h \o Opens) \o v = h \o (Opens \o v) /\ Opens \o v \in TextOf
      <4>1. h \in TextOf /\ v \in TextOf /\ Opens \in TextOf
        BY <1>2, <1>3, OpensIs
      <4>2. Opens \o v \in TextOf
        BY <4>1, TextConcat
      <4>3. \A x, y, z \in TextOf : (x \o y) \o z = x \o (y \o z)
        BY TextAssoc
      <4>4. (h \o Opens) \o v = h \o (Opens \o v)
        BY <4>1, <4>3, ZenonT(60)
      <4>. QED BY <4>2, <4>4
    <3>2. ContentOf(kind, TRUE, t \o g) = h \o (Opens \o v)
      BY <1>2, <1>5, <2>2, <3>1
    <3>. QED BY <3>1, <3>2 DEF h, c
  <2>. QED BY <1>3, <2>1, <2>2
<1>. QED BY <1>2, <1>4, <1>5

(* The text of the streaming parse grows with the answer: what the client  *)
(* has been sent is never taken back.                                      *)
LEMMA LiveTextGrows ==
    ASSUME NEW kind \in Kinds, NEW t \in TextOf, NEW g \in TextOf, Clean(kind, t \o g)
    PROVE  Begins(Live(kind, t).content, Live(kind, t \o g).content)
<1>. DEFINE z == t \o g
            h == HoldBack(ContentOf(kind, TRUE, t))
            c == ContentOf(kind, TRUE, z)
            b == Base(kind, t)
            d == Base(kind, z)
<1>1. z \in TextOf /\ Clean(kind, t) /\ Clean(kind, z)
  BY TextConcat, CleanParts
<1>2. PICK u \in TextOf : c = h \o u
  BY <1>1, BaseGrows
<1>3. h \in TextOf /\ Ready(h)
  <2>. DEFINE x == ContentOf(kind, TRUE, t)
  <2>1. x \in TextOf /\ Clean(kind, x)
    BY <1>1, ContentOfIs, ContentClean
  <2>. HIDE DEF x
  <2>2. Free(x, Twice)
    BY <2>1 DEF Clean
  <2>3. HoldBack(x) \in TextOf /\ Ready(HoldBack(x))
    BY <2>1, <2>2, HeldIs
  <2>. QED BY <2>3 DEF x
<1>4. b = Said(kind, TRUE, h) /\ d = Said(kind, TRUE, HoldBack(c))
  BY DEF Base
<1>5. b \in TextOf /\ Ready(b) /\ Free(b, Twice)
  BY <1>1, BaseIs DEF Clean
<1>6. d \in TextOf /\ Free(d, Twice)
  <2>. HIDE DEF z
  <2>1. Base(kind, z) \in TextOf /\ Clean(kind, Base(kind, z))
    BY <1>1, BaseIs
  <2>. QED BY <2>1 DEF Clean
<1>7. Live(kind, t).content = TrimEnd(Strip(kind, b)) /\ Strip(kind, b) \in TextOf
  BY <1>1, LiveText
<1>8. Live(kind, z).content = TrimEnd(Strip(kind, d))
  <2>. HIDE DEF z
  <2>1. Live(kind, z).content = TrimEnd(Strip(kind, Base(kind, z)))
    BY <1>1, LiveText
  <2>. QED BY <2>1
<1>. HIDE DEF z, h, c, b, d
<1>9. PICK v \in TextOf : HoldBack(c) = h \o v
  BY <1>2, <1>3, BeginsHeld
<1>10. PICK x \in TextOf : d = b \o x
  <2>1. Begins(Said(kind, TRUE, h), Said(kind, TRUE, h \o v))
    BY <1>3, SaidGrows
  <2>2. Begins(b, d)
    BY <1>4, <1>9, <2>1
  <2>. QED BY <2>2 DEF Begins
<1>11. Free(x, Twice)
  BY <1>5, <1>6, <1>10, FreeParts
<1>12. PICK y \in TextOf : Strip(kind, d) = Strip(kind, b) \o y
  <2>1. Strip(kind, b \o x) = Strip(kind, b) \o Strip(kind, x) /\ Strip(kind, x) \in TextOf
    BY <1>5, <1>11, StripsBase
  <2>. QED BY <1>10, <2>1
<1>13. Begins(TrimEnd(Strip(kind, b)), TrimEnd(Strip(kind, d)))
  <2>. DEFINE p == Strip(kind, b)
  <2>1. p \in TextOf /\ Strip(kind, d) = p \o y
    BY <1>7, <1>12
  <2>. HIDE DEF p
  <2>2. Begins(TrimEnd(p), TrimEnd(Strip(kind, d)))
    BY <2>1, TrimGrows
  <2>. QED BY <2>2 DEF p
<1>. QED BY <1>7, <1>8, <1>13 DEF z

(* What a finished answer says.                                            *)
LEMMA WholeText ==
    ASSUME NEW kind \in Kinds, NEW t \in TextOf
    PROVE  Whole(kind, t).content =
             Trim(Strip(kind, Overshoot(kind, CallsOf(kind, FALSE, ContentOf(kind, FALSE, t)),
                                        Said(kind, FALSE, ContentOf(kind, FALSE, t)))))
<1>. DEFINE w == ContentOf(kind, FALSE, t)
            s == Said(kind, FALSE, w)
            calls == CallsOf(kind, FALSE, w)
            o == Overshoot(kind, calls, s)
<1>1. Whole(kind, t).content = Content(kind, FALSE, o)
  BY DEF Whole, Parse, CallsOf, Said, ContentOf
<1>2. w \in TextOf
  BY ContentOfIs
<1>. HIDE DEF w
<1>3. s \in TextOf
  BY <1>2, SaidIs
<1>. HIDE DEF s, calls
<1>4. o \in TextOf
  BY <1>3, OvershootText
<1>. HIDE DEF o
<1>5. Content(kind, FALSE, o) = Trim(Strip(kind, o))
  BY <1>4, ContentIs
<1>. QED BY <1>1, <1>5 DEF o, s, calls, w

(* The text of the streaming parse is the beginning of that of the plain   *)
(* response.                                                               *)
LEMMA WholeTextBegins ==
    ASSUME NEW kind \in Kinds, NEW t \in TextOf, Clean(kind, t)
    PROVE  Begins(Trim(Live(kind, t).content), Whole(kind, t).content)
<1>. DEFINE c == ContentOf(kind, TRUE, t)
            w == ContentOf(kind, FALSE, t)
            h == HoldBack(c)
            b == Base(kind, t)
            calls == CallsOf(kind, FALSE, w)
            s == Said(kind, FALSE, w)
            o == Overshoot(kind, calls, s)
<1>1. c \in TextOf /\ Clean(kind, c) /\ w \in TextOf /\ Clean(kind, w)
  BY ContentOfIs, ContentClean
<1>2. PICK e \in TextOf : w = c \o e
  BY ContentFuller DEF Fuller
<1>3. b = Said(kind, TRUE, h)
  BY DEF Base
<1>4. b \in TextOf /\ Ready(b) /\ Free(b, Twice) /\ Free(b, CallOpen)
  BY BaseIs DEF Clean
<1>5. Live(kind, t).content = TrimEnd(Strip(kind, b)) /\ Strip(kind, b) \in TextOf
  BY LiveText
<1>6. Whole(kind, t).content = Trim(Strip(kind, o))
  BY WholeText
<1>. HIDE DEF c, w, b
<1>7. h \in TextOf /\ Ready(h) /\ (c = h \/ c = h \o Opens)
  BY <1>1, HeldIs DEF Clean
<1>. HIDE DEF h, calls
<1>8. PICK u \in TextOf : w = h \o u
  <2>1. CASE c = h
    BY <1>2, <2>1
  <2>2. CASE c = h \o Opens
    <3>1. h \in TextOf /\ e \in TextOf /\ Opens \in TextOf
      BY <1>2, <1>7, OpensIs
    <3>2. Opens \o e \in TextOf
      BY <3>1, TextConcat
    <3>3. \A x, y, z \in TextOf : (x \o y) \o z = x \o (y \o z)
      BY TextAssoc
    <3>4. (h \o Opens) \o e = h \o (Opens \o e)
      BY <3>1, <3>3, Zenon
    <3>. QED BY <1>2, <2>2, <3>2, <3>4
  <2>. QED BY <1>7, <2>1, <2>2
<1>9. PICK v \in TextOf : s = b \o v
  <2>1. Begins(Said(kind, TRUE, h), Said(kind, FALSE, h \o u))
    BY <1>7, SaidGrows
  <2>2. Begins(b, s)
    BY <1>3, <1>8, <2>1
  <2>. QED BY <2>2 DEF Begins
<1>10. Clean(kind, s)
  BY <1>1, SaidClean
<1>. HIDE DEF s
<1>11. PICK y \in TextOf : o = b \o y /\ Free(y, Twice)
  <2>1. Clean(kind, b \o v)
    BY <1>9, <1>10
  <2>2. Keeps(b, Overshoot(kind, calls, b \o v))
    BY <1>4, <2>1, OvershootKeeps
  <2>3. Keeps(b, o)
    BY <1>9, <2>2 DEF o
  <2>. QED BY <2>3 DEF Keeps
<1>. HIDE DEF o
<1>12. PICK z \in TextOf : Strip(kind, o) = Strip(kind, b) \o z
  <2>1. Strip(kind, b \o y) = Strip(kind, b) \o Strip(kind, y) /\ Strip(kind, y) \in TextOf
    BY <1>4, <1>11, StripsBase
  <2>. QED BY <1>11, <2>1
<1>13. Begins(Trim(Strip(kind, b)), Trim(Strip(kind, o)))
  <2>. DEFINE p == Strip(kind, b)
  <2>1. p \in TextOf /\ Strip(kind, o) = p \o z
    BY <1>5, <1>12
  <2>. HIDE DEF p
  <2>2. Begins(Trim(p), Trim(Strip(kind, o)))
    BY <2>1, TrimGrows
  <2>. QED BY <2>2 DEF p
<1>14. Trim(Live(kind, t).content) = Trim(Strip(kind, b))
  BY <1>5, TrimTwice
<1>. QED BY <1>6, <1>13, <1>14

(* They are the same when nothing is held back at the end.                 *)
LEMMA WholeTextSettled ==
    ASSUME NEW kind \in Kinds, NEW t \in TextOf, Clean(kind, t), Closed(kind, t),
           CallsClosed(ContentOf(kind, FALSE, t)),
           Whole(kind, t).content # <<>> => Last(Whole(kind, t).content) # "<"
    PROVE  Trim(Live(kind, t).content) = Whole(kind, t).content
<1>. DEFINE c == ContentOf(kind, TRUE, t)
            b == Base(kind, t)
            s == Said(kind, TRUE, c)
            calls == CallsOf(kind, FALSE, c)
<1>1. c \in TextOf /\ ContentOf(kind, FALSE, t) = c
  BY ContentOfIs, ContentClosed
<1>2. Said(kind, FALSE, c) = s
  BY <1>1, SaidClosed
<1>3. b \in TextOf /\ Ready(b) /\ Clean(kind, b) /\ Free(b, CallOpen) /\ (s = b \/ s = b \o Opens)
  BY BaseIs
<1>4. Live(kind, t).content = TrimEnd(Strip(kind, b)) /\ Strip(kind, b) \in TextOf
  BY LiveText
<1>5. Whole(kind, t).content = Trim(Strip(kind, Overshoot(kind, calls, s)))
  BY <1>1, <1>2, WholeText
<1>6. Clean(kind, c)
  BY ContentClean
<1>7. s \in TextOf /\ Clean(kind, s) /\ Free(s, CallOpen)
  <2>. HIDE DEF c
  <2>. QED BY <1>1, <1>6, SaidIs, SaidClean
<1>. HIDE DEF b, c, calls, s
<1>8. Overshoot(kind, calls, s) = s
  BY <1>7, NoOvershoot
<1>9. Trim(Live(kind, t).content) = Trim(Strip(kind, b))
  BY <1>4, TrimTwice
<1>10. CASE s = b
  BY <1>5, <1>8, <1>9, <1>10
<1>11. CASE s = b \o Opens
  <2>. DEFINE p == Strip(kind, b)
  <2>1. Strip(kind, s) = p \o Opens
    <3>1. Free(b, Twice)
      BY <1>3 DEF Clean
    <3>2. Opens \in TextOf /\ Free(Opens, Twice)
      BY OpensIs
    <3>3. Strip(kind, b \o Opens) = Strip(kind, b) \o Strip(kind, Opens)
      BY <1>3, <3>1, <3>2, StripsBase
    <3>. QED BY <1>11, <3>3, StripsOpens
  <2>2. p \in TextOf
    BY <1>4
  <2>. HIDE DEF p
  <2>3. Trim(p \o Opens) # <<>> /\ Last(Trim(p \o Opens)) = "<"
    BY <2>2, TrimOpens
  <2>. QED BY <1>5, <1>8, <2>1, <2>3
<1>. QED BY <1>3, <1>10, <1>11

(* A client that has the text of one parse gets that of the next.          *)
LEMMA SentIs ==
    ASSUME NEW r \in TextOf, NEW s \in TextOf, Begins(r, s)
    PROVE  Sent(r, r, s) = s
<1>1. IsPrefix(r, s) /\ s = r \o After(s, Len(r))
  BY BeginsIs
<1>. QED BY <1>1 DEF Sent

(* The content of the two parses is text.                                  *)
LEMMA LiveTextIs ==
    ASSUME NEW kind \in Kinds, NEW t \in TextOf, Clean(kind, t)
    PROVE  Live(kind, t).content \in TextOf
BY LiveText, TrimTwice

-----------------------------------------------------------------------------
(* The texts of the tokens.                                                *)

(* Induction on sequences, an element more at the end.                     *)
LEMMA AppendInduction ==
    ASSUME NEW S, NEW U, <<>> \in U, \A g \in Seq(S) : \A t \in S : g \in U => Append(g, t) \in U
    PROVE  Seq(S) \subseteq U
<1>. DEFINE T == {n \in Nat : \A g \in Seq(S) : Len(g) = n => g \in U}
<1>1. 0 \in T
  <2>1. \A g \in Seq(S) : Len(g) = 0 => g = <<>>
    OBVIOUS
  <2>. QED BY <2>1
<1>2. ASSUME NEW n \in Nat, n \in T PROVE n + 1 \in T
  <2>. SUFFICES ASSUME NEW g \in Seq(S), Len(g) = n + 1 PROVE g \in U
    OBVIOUS
  <2>1. g # <<>>
    BY <1>2
  <2>2. PICK s \in Seq(S) : \E t \in S : g = Append(s, t)
    BY <2>1, SequenceEmptyOrAppend
  <2>3. PICK t \in S : g = Append(s, t)
    BY <2>2
  <2>4. Len(s) = n
    BY <2>3, AppendProperties
  <2>5. s \in U
    BY <1>2, <2>4
  <2>. QED BY <2>3, <2>5
<1>. HIDE DEF T
<1>3. Nat \subseteq T
  BY <1>1, <1>2, Induction
<1>4. ASSUME NEW g \in Seq(S) PROVE g \in U
  <2>1. Len(g) \in T
    BY <1>3
  <2>. QED BY <2>1 DEF T
<1>. QED BY <1>4

(* Three sequences in a row, however they are put together.                *)
LEMMA Regroup ==
    ASSUME NEW S, NEW u \in Seq(Seq(S)), NEW v \in Seq(Seq(S)), NEW w \in Seq(Seq(S))
    PROVE  (u \o v) \o w = u \o (v \o w)
<1>. DEFINE E == Seq(S)
<1>1. u \in Seq(E) /\ v \in Seq(E) /\ w \in Seq(E)
  OBVIOUS
<1>. HIDE DEF E
<1>. QED BY <1>1, ConcatAssociative, SMTT(60)

(* FlattenSeq of two sequences in a row.                                   *)
LEMMA FlattenConcat ==
    ASSUME NEW S, NEW g \in Seq(Seq(S)), NEW h \in Seq(Seq(S))
    PROVE  FlattenSeq(g \o h) = FlattenSeq(g) \o FlattenSeq(h)
<1>. DEFINE U == {s \in Seq(Seq(S)) : FlattenSeq(g \o s) = FlattenSeq(g) \o FlattenSeq(s)}
<1>0. FlattenSeq(g) \in Seq(S)
  BY FlattenIs
<1>1. <<>> \in U
  <2>1. g \o <<>> = g
    BY ConcatEmptySeq
  <2>2. FlattenSeq(g) \o <<>> = FlattenSeq(g)
    BY <1>0, ConcatEmptySeq
  <2>3. FlattenSeq(g \o <<>>) = FlattenSeq(g) \o FlattenSeq(<<>>)
    BY <2>1, <2>2, FlattenEmpty
  <2>4. <<>> \in Seq(Seq(S))
    OBVIOUS
  <2>. QED BY <2>3, <2>4
<1>2. ASSUME NEW s \in Seq(Seq(S)), NEW t \in Seq(S), s \in U PROVE Append(s, t) \in U
  <2>. DEFINE l == <<t>>
              a == FlattenSeq(g)
              b == FlattenSeq(s)
  <2>1. l \in Seq(Seq(S)) /\ Append(s, t) \in Seq(Seq(S)) /\ g \o s \in Seq(Seq(S))
    OBVIOUS
  <2>2. Append(s, t) = s \o l /\ Append(g \o s, t) = (g \o s) \o l
    BY <2>1, AppendIsConcat
  <2>. HIDE DEF l
  <2>3. (g \o s) \o l = g \o (s \o l)
    BY <2>1, Regroup, SMTT(60)
  <2>4. FlattenSeq(Append(g \o s, t)) = FlattenSeq(g \o s) \o t /\ FlattenSeq(Append(s, t)) = b \o t
    BY <2>1, FlattenAppend
  <2>5. a \in Seq(S) /\ b \in Seq(S) /\ FlattenSeq(g \o s) = a \o b
    BY <1>2, FlattenIs
  <2>. HIDE DEF a, b
  <2>6. (a \o b) \o t = a \o (b \o t)
    BY <2>5, ConcatAssociative, SMTT(60)
  <2>7. FlattenSeq(g \o Append(s, t)) = a \o FlattenSeq(Append(s, t))
    BY <2>2, <2>3, <2>4, <2>5, <2>6
  <2>. QED BY <2>1, <2>7 DEF a
<1>. HIDE DEF U
<1>3. Seq(Seq(S)) \subseteq U
  BY <1>1, <1>2, AppendInduction
<1>. QED BY <1>3 DEF U

(* FlattenSeq of one sequence.                                             *)
LEMMA FlattenOne ==
    ASSUME NEW S, NEW t \in Seq(S)
    PROVE  FlattenSeq(<<t>>) = t
<1>1. <<>> \in Seq(Seq(S)) /\ Append(<<>>, t) = <<t>> /\ <<>> \o t = t
  BY ConcatEmptySeq
<1>2. FlattenSeq(Append(<<>>, t)) = FlattenSeq(<<>>) \o t
  BY <1>1, FlattenAppend
<1>. QED BY <1>1, <1>2, FlattenEmpty

(* A function of the places of a sequence is a sequence.                   *)
LEMMA PlacesAre ==
    ASSUME NEW S, NEW n \in Nat, NEW f \in [1 .. n -> S]
    PROVE  f \in Seq(S) /\ Len(f) = n /\ DOMAIN f = 1 .. n
BY SeqDef

(* What the tokenizer makes of a byte or character is text.                *)
LEMMA CharactersIs ==
    ASSUME NEW d, NEW t \in TokenOf
    PROVE  Characters(d, t) \in TextOf
<1>1. DOMAIN t = 1 .. Len(t) /\ Len(t) \in Nat /\ \A i \in 1 .. Len(t) : t[i] \in Char \cup Bytes
  BY DEF TokenOf
<1>2. ASSUME NEW i \in 1 .. Len(t) PROVE Glyph(d, t, i) \in Seq(Char)
  <2>1. <<"?">> \in Seq(Char) /\ <<"a">> \in Seq(Char) /\ <<>> \in Seq(Char)
    BY DEF Char
  <2>2. ~(t[i] \in Bytes) => <<t[i]>> \in Seq(Char)
    BY <1>1
  <2>. QED BY <2>1, <2>2 DEF Glyph
<1>. DEFINE n == Len(t)
            f == [i \in 1 .. n |-> Glyph(d, t, i)]
<1>3. f \in [1 .. n -> Seq(Char)]
  BY <1>2
<1>4. Characters(d, t) = FlattenSeq(f)
  BY <1>1 DEF Characters
<1>. HIDE DEF f, n
<1>5. f \in Seq(Seq(Char))
  BY <1>1, <1>3, PlacesAre DEF n
<1>. QED BY <1>4, <1>5, FlattenIs, TextIs

(* So is that of a sequence of tokens, and of one of them.                 *)
LEMMA TextOfTokens ==
    ASSUME NEW d, NEW g \in Seq(TokenOf)
    PROVE  Text(d, g) \in TextOf
<1>1. FlattenSeq(g) \in TokenOf
  BY FlattenIs DEF TokenOf
<1>. DEFINE c == Characters(d, FlattenSeq(g))
<1>2. c \in TextOf
  BY <1>1, CharactersIs
<1>3. Text(d, g) = StripMarker(StripMarker(c, Bos), Eos)
  BY DEF Text
<1>4. Bos[1] = "<" /\ Eos[1] = "<"
  BY DEF Bos, Eos
<1>. HIDE DEF c
<1>5. StripMarker(c, Bos) \in TextOf
  BY <1>2, <1>4, StripIs
<1>. QED BY <1>3, <1>4, <1>5, StripIs

LEMMA PieceIs ==
    ASSUME NEW d, NEW t \in TokenOf
    PROVE  Piece(d, t) \in TextOf
<1>1. <<t>> \in Seq(TokenOf)
  OBVIOUS
<1>. QED BY <1>1, TextOfTokens DEF Piece

(* No token has no text.                                                   *)
LEMMA AccumulatedNone ==
    ASSUME NEW d
    PROVE  Accumulated(d, <<>>) = <<>>
<1>1. [i \in DOMAIN <<>> |-> Piece(d, <<>>[i])] = <<>>
  OBVIOUS
<1>. QED BY <1>1, FlattenEmpty DEF Accumulated

(* The text that a stream accumulates grows by the piece of a token.       *)
LEMMA AccumulatedGrows ==
    ASSUME NEW d, NEW g \in Seq(TokenOf), NEW t \in TokenOf
    PROVE  /\ Accumulated(d, g) \in TextOf
           /\ Accumulated(d, Append(g, t)) = Accumulated(d, g) \o Piece(d, t)
<1>. DEFINE n == Len(g)
            x == Append(g, t)
            p(s) == [i \in 1 .. Len(s) |-> Piece(d, s[i])]
            e == Piece(d, t)
            y == Append(p(g), e)
<1>1. \A s \in Seq(TokenOf) : Accumulated(d, s) = FlattenSeq(p(s))
  BY SMTT(60) DEF Accumulated
<1>2. /\ n \in Nat /\ x \in Seq(TokenOf) /\ Len(x) = n + 1 /\ x[n + 1] = t /\ \A i \in 1 .. n : x[i] = g[i]
  BY AppendProperties
<1>3. ASSUME NEW s \in Seq(TokenOf)
      PROVE  p(s) \in Seq(Seq(Char)) /\ Len(p(s)) = Len(s) /\ \A i \in 1 .. Len(s) : p(s)[i] = Piece(d, s[i])
  <2>1. \A i \in 1 .. Len(s) : Piece(d, s[i]) \in Seq(Char)
    BY PieceIs, TextIs
  <2>. DEFINE k == Len(s)
              f == p(s)
  <2>2. k \in Nat /\ f \in [1 .. k -> Seq(Char)] /\ \A i \in 1 .. k : f[i] = Piece(d, s[i])
    BY <2>1
  <2>. HIDE DEF k, f
  <2>3. f \in Seq(Seq(Char)) /\ Len(f) = k
    BY <2>2, PlacesAre
  <2>. QED BY <2>2, <2>3 DEF k, f
<1>4. e \in Seq(Char)
  BY PieceIs, TextIs
<1>. DEFINE a == p(g)
            b == p(x)
<1>5. /\ Accumulated(d, g) = FlattenSeq(a) /\ Accumulated(d, x) = FlattenSeq(b)
      /\ a \in Seq(Seq(Char)) /\ Len(a) = n /\ \A i \in 1 .. n : a[i] = Piece(d, g[i])
      /\ b \in Seq(Seq(Char)) /\ Len(b) = n + 1 /\ \A i \in 1 .. n + 1 : b[i] = Piece(d, x[i])
  <2>. HIDE DEF x, p
  <2>. QED BY <1>1, <1>2, <1>3
<1>. HIDE DEF x, p, e, a, b
<1>6. FlattenSeq(Append(a, e)) = FlattenSeq(a) \o e /\ FlattenSeq(a) \in Seq(Char)
  BY <1>4, <1>5, FlattenAppend, FlattenIs
<1>7. b = Append(a, e)
  <2>. DEFINE c == Append(a, e)
  <2>1. c \in Seq(Seq(Char)) /\ Len(c) = n + 1 /\ c[n + 1] = e /\ \A i \in 1 .. n : c[i] = a[i]
    BY <1>4, <1>5, AppendProperties
  <2>. HIDE DEF c
  <2>2. ASSUME NEW i \in 1 .. Len(b) PROVE b[i] = c[i]
    <3>1. i \in 1 .. n + 1 /\ (i \in 1 .. n \/ i = n + 1)
      BY <1>2, <1>5
    <3>2. CASE i \in 1 .. n
      BY <1>2, <1>5, <2>1, <3>1, <3>2
    <3>3. CASE i = n + 1
      BY <1>2, <1>5, <2>1, <3>1, <3>3 DEF e
    <3>. QED BY <3>1, <3>2, <3>3
  <2>3. b = c
    BY <1>5, <2>1, <2>2, SeqEqual
  <2>. QED BY <2>3 DEF c
<1>. QED BY <1>5, <1>6, <1>7, TextIs DEF x, e

(* The character of a byte of a character that is not cut, and of anything *)
(* else.                                                                   *)
Mark(c) == IF c = "lead" THEN <<"a">> ELSE IF c = "tail" THEN <<>> ELSE <<c>>

(* Where no byte is without its other half, every place has its own text.  *)
LEMMA CharactersWhole ==
    ASSUME NEW d, NEW t \in TokenOf, Stray(t) = {}
    PROVE  Characters(d, t) = FlattenSeq([i \in DOMAIN t |-> Mark(t[i])])
<1>1. Lost(d, t) = {}
  BY DEF Lost
<1>2. ASSUME NEW i \in DOMAIN t PROVE Glyph(d, t, i) = Mark(t[i])
  <2>1. /\ i \in Occurs(t, Rune) => t[i] = "lead"
        /\ i - 1 \in Occurs(t, Rune) => t[i] = "tail"
    <3>1. i \in Nat /\ i - 1 + 1 = i
      BY DEF TokenOf
    <3>. QED BY <3>1 DEF Occurs, Rune
  <2>2. t[i] \in Bytes => i \in Occurs(t, Rune) \/ i - 1 \in Occurs(t, Rune)
    BY DEF Stray
  <2>. QED BY <1>1, <2>1, <2>2 DEF Glyph, Mark, Bytes
<1>3. [i \in DOMAIN t |-> Glyph(d, t, i)] = [i \in DOMAIN t |-> Mark(t[i])]
  BY <1>2
<1>. QED BY <1>3 DEF Characters

(* Two texts without such a byte have none together.                       *)
LEMMA StrayConcat ==
    ASSUME NEW t \in TokenOf, NEW u \in TokenOf, Stray(t) = {}, Stray(u) = {}
    PROVE  t \o u \in TokenOf /\ Stray(t \o u) = {}
<1>. DEFINE x == t \o u
<1>1. /\ x \in TokenOf /\ Len(x) = Len(t) + Len(u) /\ Len(t) \in Nat /\ Len(u) \in Nat
      /\ \A i \in 1 .. Len(t) + Len(u) : x[i] = IF i <= Len(t) THEN t[i] ELSE u[i - Len(t)]
      /\ DOMAIN x = 1 .. Len(x) /\ DOMAIN t = 1 .. Len(t) /\ DOMAIN u = 1 .. Len(u)
  BY ConcatProperties DEF TokenOf
<1>. HIDE DEF x
<1>2. ASSUME NEW i \in Occurs(t, Rune) PROVE i \in Occurs(x, Rune)
  <2>1. i \in 1 .. Len(t) /\ i < Len(t) /\ t[i] = Rune[1] /\ t[i + 1] = Rune[2]
    BY <1>1 DEF Occurs
  <2>2. i \in 1 .. Len(x) /\ i < Len(x) /\ x[i] = t[i] /\ x[i + 1] = t[i + 1]
    BY <1>1, <2>1
  <2>. QED BY <1>1, <2>1, <2>2 DEF Occurs
<1>3. ASSUME NEW i \in Occurs(u, Rune) PROVE Len(t) + i \in Occurs(x, Rune)
  <2>. DEFINE k == Len(t) + i
  <2>1. i \in 1 .. Len(u) /\ i < Len(u) /\ u[i] = Rune[1] /\ u[i + 1] = Rune[2]
    BY <1>1 DEF Occurs
  <2>2. /\ k \in 1 .. Len(x) /\ k < Len(x) /\ k \in 1 .. Len(t) + Len(u) /\ k + 1 \in 1 .. Len(t) + Len(u)
        /\ ~(k <= Len(t)) /\ ~(k + 1 <= Len(t)) /\ k - Len(t) = i /\ k + 1 - Len(t) = i + 1
    BY <1>1, <2>1
  <2>. HIDE DEF k
  <2>3. x[k] = u[i] /\ x[k + 1] = u[i + 1]
    BY <1>1, <2>2
  <2>4. k \in Occurs(x, Rune)
    BY <1>1, <2>1, <2>2, <2>3 DEF Occurs
  <2>. QED BY <2>4 DEF k
<1>4. ASSUME NEW i \in 1 .. Len(x), x[i] \in Bytes
      PROVE  i \in Occurs(x, Rune) \/ i - 1 \in Occurs(x, Rune)
  <2>1. CASE i <= Len(t)
    <3>1. i \in DOMAIN t /\ t[i] \in Bytes
      BY <1>1, <1>4, <2>1
    <3>2. i \in Occurs(t, Rune) \/ i - 1 \in Occurs(t, Rune)
      BY <3>1 DEF Stray
    <3>. QED BY <1>2, <3>2
  <2>2. CASE ~(i <= Len(t))
    <3>. DEFINE k == i - Len(t)
    <3>1. k \in DOMAIN u /\ u[k] \in Bytes /\ Len(t) + k = i /\ Len(t) + (k - 1) = i - 1
      BY <1>1, <1>4, <2>2
    <3>. HIDE DEF k
    <3>2. k \in Occurs(u, Rune) \/ k - 1 \in Occurs(u, Rune)
      BY <3>1 DEF Stray
    <3>. QED BY <1>3, <3>1, <3>2
  <2>. QED BY <2>1, <2>2
<1>5. Stray(x) = {}
  BY <1>1, <1>4 DEF Stray
<1>. QED BY <1>1, <1>5 DEF x

(* Their characters are those of one, then of the other.                   *)
LEMMA CharactersConcat ==
    ASSUME NEW d, NEW t \in TokenOf, NEW u \in TokenOf, Stray(t) = {}, Stray(u) = {}
    PROVE  Characters(d, t \o u) = Characters(d, t) \o Characters(d, u)
<1>. DEFINE marks(s) == [i \in 1 .. Len(s) |-> Mark(s[i])]
            x == t \o u
<1>1. /\ x \in TokenOf /\ Stray(x) = {}
  BY StrayConcat
<1>2. /\ Len(x) = Len(t) + Len(u) /\ Len(t) \in Nat /\ Len(u) \in Nat
      /\ \A i \in 1 .. Len(t) + Len(u) : x[i] = IF i <= Len(t) THEN t[i] ELSE u[i - Len(t)]
  BY ConcatProperties DEF TokenOf
<1>3. ASSUME NEW s \in TokenOf
      PROVE  /\ marks(s) \in Seq(Seq(Char)) /\ Len(marks(s)) = Len(s)
             /\ \A i \in 1 .. Len(s) : marks(s)[i] = Mark(s[i])
  <2>1. \A i \in 1 .. Len(s) : Mark(s[i]) \in Seq(Char)
    <3>1. ASSUME NEW i \in 1 .. Len(s) PROVE Mark(s[i]) \in Seq(Char)
      <4>1. s[i] \in Char \cup Bytes
        BY DEF TokenOf
      <4>2. <<"a">> \in Seq(Char) /\ <<>> \in Seq(Char)
        BY DEF Char
      <4>3. ~(s[i] \in Bytes) => <<s[i]>> \in Seq(Char)
        BY <4>1
      <4>. QED BY <4>2, <4>3 DEF Mark, Bytes
    <3>. QED BY <3>1
  <2>. DEFINE k == Len(s)
              f == marks(s)
  <2>2. k \in Nat /\ f \in [1 .. k -> Seq(Char)] /\ \A i \in 1 .. k : f[i] = Mark(s[i])
    BY <2>1 DEF TokenOf
  <2>. HIDE DEF k, f
  <2>3. f \in Seq(Seq(Char)) /\ Len(f) = k
    BY <2>2, PlacesAre
  <2>. QED BY <2>2, <2>3 DEF k, f
<1>4. ASSUME NEW s \in TokenOf, Stray(s) = {} PROVE Characters(d, s) = FlattenSeq(marks(s))
  <2>1. DOMAIN s = 1 .. Len(s)
    BY DEF TokenOf
  <2>. QED BY <1>4, <2>1, CharactersWhole
<1>. DEFINE a == marks(t)
            b == marks(u)
            c == marks(x)
            y == a \o b
<1>. HIDE DEF x
<1>5. /\ a \in Seq(Seq(Char)) /\ Len(a) = Len(t) /\ \A i \in 1 .. Len(t) : a[i] = Mark(t[i])
      /\ b \in Seq(Seq(Char)) /\ Len(b) = Len(u) /\ \A i \in 1 .. Len(u) : b[i] = Mark(u[i])
      /\ c \in Seq(Seq(Char)) /\ Len(c) = Len(x) /\ \A i \in 1 .. Len(x) : c[i] = Mark(x[i])
  <2>. HIDE DEF marks
  <2>. QED BY <1>1, <1>3
<1>6. Characters(d, t) = FlattenSeq(a) /\ Characters(d, u) = FlattenSeq(b) /\ Characters(d, x) = FlattenSeq(c)
  <2>. HIDE DEF marks
  <2>. QED BY <1>1, <1>4
<1>. HIDE DEF a, b, c
<1>7. /\ y \in Seq(Seq(Char)) /\ Len(y) = Len(a) + Len(b)
      /\ \A i \in 1 .. Len(a) + Len(b) : y[i] = IF i <= Len(a) THEN a[i] ELSE b[i - Len(a)]
  BY <1>5, ConcatProperties, ZenonT(60)
<1>. HIDE DEF y
<1>8. ASSUME NEW i \in 1 .. Len(c) PROVE c[i] = y[i]
  <2>1. CASE i <= Len(t)
    <3>1. i \in 1 .. Len(t) /\ i \in 1 .. Len(x) /\ i \in 1 .. Len(a) + Len(b) /\ i <= Len(a) /\ x[i] = t[i]
      BY <1>2, <1>5, <2>1
    <3>2. c[i] = Mark(t[i]) /\ y[i] = a[i]
      BY <1>5, <1>7, <3>1
    <3>. QED BY <1>5, <3>1, <3>2
  <2>2. CASE ~(i <= Len(t))
    <3>1. i \in 1 .. Len(a) + Len(b) /\ i - Len(t) \in 1 .. Len(u)
      BY <1>2, <1>5, <2>2
    <3>2. c[i] = Mark(u[i - Len(t)]) /\ y[i] = b[i - Len(t)]
      BY <1>2, <1>5, <1>7, <2>2, <3>1
    <3>. QED BY <1>5, <3>1, <3>2
  <2>. QED BY <2>1, <2>2
<1>9. c = y
  BY <1>2, <1>5, <1>7, <1>8, SeqEqual
<1>10. FlattenSeq(y) = FlattenSeq(a) \o FlattenSeq(b)
  BY <1>5, FlattenConcat DEF y
<1>. QED BY <1>6, <1>9, <1>10 DEF x

(* A marker is its own text.                                               *)
LEMMA CharactersMarker ==
    ASSUME NEW d, NEW c \in Tails
    PROVE  /\ <<"<", c>> \in TokenOf /\ Stray(<<"<", c>>) = {}
           /\ Characters(d, <<"<", c>>) = <<"<", c>>
<1>. DEFINE l == <<"<">>
            r == <<c>>
<1>1. l \in TokenOf /\ r \in TokenOf /\ <<"<", c>> \in TokenOf /\ l \in Seq(Char) /\ r \in Seq(Char)
  BY DEF TokenOf, Char
<1>2. <<"<", c>> = l \o r
  OBVIOUS
<1>3. Stray(l) = {} /\ Stray(r) = {}
  BY DEF Stray, Bytes, Tails
<1>4. Characters(d, l) = l
  <2>1. [i \in DOMAIN l |-> Mark(l[i])] = <<l>>
    BY DEF Mark
  <2>2. Characters(d, l) = FlattenSeq(<<l>>)
    BY <1>1, <1>3, <2>1, CharactersWhole
  <2>. HIDE DEF l
  <2>. QED BY <1>1, <2>2, FlattenOne
<1>5. Characters(d, r) = r
  <2>1. [i \in DOMAIN r |-> Mark(r[i])] = <<r>>
    BY DEF Mark, Tails
  <2>2. Characters(d, r) = FlattenSeq(<<r>>)
    BY <1>1, <1>3, <2>1, CharactersWhole
  <2>. HIDE DEF r
  <2>. QED BY <1>1, <2>2, FlattenOne
<1>. HIDE DEF l, r
<1>6. Stray(l \o r) = {}
  BY <1>1, <1>3, StrayConcat
<1>7. Characters(d, l \o r) = l \o r
  BY <1>1, <1>3, <1>4, <1>5, CharactersConcat, ZenonT(60)
<1>. QED BY <1>1, <1>2, <1>6, <1>7

(* A text without the strings that begin and end a sequence.               *)
Bare(t) == \A j \in 1 .. Len(t) : t[j] \notin {"bos", "eos"}

(* It stays as it is when they are removed.                                *)
LEMMA StripBare ==
    ASSUME NEW t \in TextOf, Bare(t)
    PROVE  StripMarker(t, Bos) = t /\ StripMarker(t, Eos) = t
<1>1. Len(t) \in Nat
  BY TextIs
<1>2. Free(t, Bos) /\ Free(t, Eos)
  <2>1. ASSUME NEW i \in 1 .. Len(t) - 1 PROVE ~Stands(t, Bos, i) /\ ~Stands(t, Eos, i)
    <3>1. i + 1 \in 1 .. Len(t)
      BY <1>1
    <3>. QED BY <3>1 DEF Bare, Stands, Bos, Eos
  <2>. QED BY <2>1, FreeIs
<1>3. Find(t, Bos) = 0 /\ Find(t, Eos) = 0
  BY <1>2, FreeIs
<1>4. Bos[1] = "<" /\ Eos[1] = "<"
  BY DEF Bos, Eos
<1>. QED BY <1>3, <1>4, StripIs

(* The characters of such a token.                                         *)
LEMMA CharactersBare ==
    ASSUME NEW d, NEW t \in TokenOf, Stray(t) = {}, Bare(t)
    PROVE  Bare(Characters(d, t))
<1>. DEFINE S == Char \ {"bos", "eos"}
            n == Len(t)
            f == [i \in 1 .. n |-> Mark(t[i])]
<1>1. DOMAIN t = 1 .. Len(t) /\ Len(t) \in Nat /\ \A i \in 1 .. Len(t) : t[i] \in Char \cup Bytes
  BY DEF TokenOf
<1>2. ASSUME NEW i \in 1 .. Len(t) PROVE Mark(t[i]) \in Seq(S)
  <2>1. "a" \in S
    BY DEF Char
  <2>2. ~(t[i] \in Bytes) => t[i] \in S
    BY <1>1 DEF Bare
  <2>. HIDE DEF S
  <2>3. <<"a">> \in Seq(S) /\ <<>> \in Seq(S)
    BY <2>1
  <2>4. ~(t[i] \in Bytes) => <<t[i]>> \in Seq(S)
    BY <2>2
  <2>. QED BY <2>3, <2>4 DEF Mark, Bytes
<1>3. Characters(d, t) = FlattenSeq(f)
  BY <1>1, CharactersWhole
<1>4. f \in [1 .. n -> Seq(S)]
  BY <1>2
<1>. HIDE DEF S, n, f
<1>5. f \in Seq(Seq(S))
  BY <1>1, <1>4, PlacesAre DEF n
<1>. DEFINE x == Characters(d, t)
<1>6. x \in Seq(S)
  BY <1>3, <1>5, FlattenIs
<1>. HIDE DEF x
<1>7. \A j \in 1 .. Len(x) : x[j] \in S
  BY <1>6
<1>8. Bare(x)
  BY <1>7 DEF Bare, S
<1>. QED BY <1>8 DEF x

(* The text of a token that decodes alone to what it is in the whole: what *)
(* is before it loses the same strings with and without it.                *)
LEMMA StripWhole ==
    ASSUME NEW x \in TextOf, NEW c \in TextOf, c \in {Bos, Eos} \/ Bare(c)
    PROVE  StripMarker(StripMarker(x \o c, Bos), Eos)
             = StripMarker(StripMarker(x, Bos), Eos) \o StripMarker(StripMarker(c, Bos), Eos)
<1>1. Bos[1] = "<" /\ Eos[1] = "<" /\ Bos[2] = "bos" /\ Eos[2] = "eos"
      /\ Len(Bos) = 2 /\ Len(Eos) = 2 /\ Bos \in TextOf /\ Eos \in TextOf
  BY DEF Bos, Eos, TextOf, Char, Tails
<1>2. Late(c, Bos)
  <2>1. Len(c) \in Nat
    BY TextIs
  <2>. QED BY <1>1, <2>1 DEF Late, Bare
<1>. DEFINE y == StripMarker(x, Bos)
            e == StripMarker(c, Bos)
<1>3. StripMarker(x \o c, Bos) = y \o e
  BY <1>1, <1>2, StripConcat
<1>4. y \in TextOf /\ e \in TextOf
  BY <1>1, StripIs
<1>5. Late(e, Eos)
  <2>1. CASE c = Bos
    <3>1. Find(c, Bos) = 1
      <4>0. c[1] = Bos[1] /\ c[2] = Bos[2] /\ Len(c) = 2
        BY <1>1, <2>1
      <4>1. Stands(c, Bos, 1) /\ 1 \in 1 .. Len(c) - 1
        BY <4>0 DEF Stands
      <4>2. \A i \in 1 .. 1 - 1 : ~Stands(c, Bos, i)
        OBVIOUS
      <4>3. c \in Seq(Char)
        BY TextIs
      <4>. QED BY <4>1, <4>2, <4>3, FindIsFirst
    <3>2. Before(c, 1) = <<>> /\ After(c, 2) = <<>>
      <4>1. c \in Seq(Char) /\ Len(c) = 2
        BY <1>1, <2>1, TextIs
      <4>2. Before(c, 1) = <<>>
        BY <4>1, SubSeqEmpty DEF Before
      <4>3. After(c, 2) = <<>>
        BY <4>1, SubSeqEmpty DEF After
      <4>. QED BY <4>2, <4>3
    <3>3. StripMarker(c, Bos) = <<>> \o StripMarker(<<>>, Bos)
      <4>1. StripMarker(c, Bos) = Before(c, 1) \o StripMarker(After(c, 1 + 1), Bos)
        BY <1>1, <3>1, StripIs
      <4>2. 1 + 1 = 2
        OBVIOUS
      <4>. QED BY <3>2, <4>1, <4>2
    <3>4. StripMarker(<<>>, Bos) = <<>>
      <4>. DEFINE z == <<>>
      <4>1. z \in TextOf /\ Bare(z)
        BY TextIs DEF Bare
      <4>. HIDE DEF z
      <4>2. StripMarker(z, Bos) = z
        BY <4>1, StripBare
      <4>. QED BY <4>2 DEF z
    <3>5. e = <<>>
      BY <3>3, <3>4, ConcatEmptySeq
    <3>. QED BY <3>5 DEF Late
  <2>2. CASE c = Eos
    <3>1. Free(c, Bos)
      <4>1. \A i \in 1 .. Len(c) - 1 : ~Stands(c, Bos, i)
        BY <1>1, <2>2 DEF Stands, Bos, Eos
      <4>. QED BY <4>1, FreeIs
    <3>2. e = c
      BY <1>1, <3>1, FreeIs, StripIs
    <3>. QED BY <1>1, <2>2, <3>2 DEF Late
  <2>3. CASE Bare(c)
    <3>1. e = c /\ Len(c) \in Nat
      BY <2>3, StripBare, TextIs
    <3>. QED BY <1>1, <2>3, <3>1 DEF Late, Bare
  <2>. QED BY <2>1, <2>2, <2>3
<1>. HIDE DEF y, e
<1>6. StripMarker(y \o e, Eos) = StripMarker(y, Eos) \o StripMarker(e, Eos)
  BY <1>1, <1>4, <1>5, StripConcat
<1>. QED BY <1>3, <1>6 DEF y, e

(* A token that is decoded alone as in the whole.                          *)
Sound(t) == Stray(t) = {} /\ (t \in {Bos, Eos} \/ Bare(t))

(* A sequence of such tokens is decoded token by token.                    *)
LEMMA TextPieces ==
    ASSUME NEW d, NEW g \in Seq(TokenOf), \A i \in 1 .. Len(g) : Sound(g[i])
    PROVE  Text(d, g) = Accumulated(d, g)
<1>. DEFINE Sounds(s) == \A i \in 1 .. Len(s) : Sound(s[i])
            Joined(s) == Stray(FlattenSeq(s)) = {} /\ Text(d, s) = Accumulated(d, s)
            U == {s \in Seq(TokenOf) : Sounds(s) => Joined(s)}
<1>1. <<>> \in U
  <2>1. Stray(<<>>) = {}
    BY DEF Stray
  <2>2. Characters(d, <<>>) = <<>>
    <3>1. [i \in DOMAIN <<>> |-> Glyph(d, <<>>, i)] = <<>>
      OBVIOUS
    <3>. QED BY <3>1, FlattenEmpty DEF Characters
  <2>3. StripMarker(<<>>, Bos) = <<>> /\ StripMarker(<<>>, Eos) = <<>>
    <3>. DEFINE z == <<>>
    <3>1. z \in TextOf /\ Bare(z)
      BY TextIs DEF Bare
    <3>. HIDE DEF z
    <3>2. StripMarker(z, Bos) = z /\ StripMarker(z, Eos) = z
      BY <3>1, StripBare
    <3>. QED BY <3>2 DEF z
  <2>4. Text(d, <<>>) = <<>>
    BY <2>2, <2>3, FlattenEmpty DEF Text
  <2>5. <<>> \in Seq(TokenOf)
    OBVIOUS
  <2>. QED BY <2>1, <2>4, <2>5, FlattenEmpty, AccumulatedNone
<1>2. ASSUME NEW s \in Seq(TokenOf), NEW t \in TokenOf, s \in U PROVE Append(s, t) \in U
  <2>. DEFINE x == Append(s, t)
              f == FlattenSeq(s)
              c == Characters(d, t)
              p == Characters(d, f)
  <2>0. x \in Seq(TokenOf)
    OBVIOUS
  <2>. SUFFICES ASSUME Sounds(x) PROVE Joined(x)
    <3>. HIDE DEF Sounds, Joined
    <3>. QED BY <2>0
  <2>1. /\ x \in Seq(TokenOf) /\ Len(x) = Len(s) + 1 /\ x[Len(s) + 1] = t /\ Len(s) \in Nat
        /\ \A i \in 1 .. Len(s) : x[i] = s[i]
    BY AppendProperties
  <2>. HIDE DEF x
  <2>2. Sounds(s) /\ Sound(t)
    BY <2>1
  <2>3. Joined(s)
    BY <1>2, <2>2
  <2>4. FlattenSeq(x) = f \o t /\ f \in TokenOf
    BY FlattenAppend, FlattenIs DEF TokenOf, x
  <2>5. Stray(f \o t) = {} /\ Characters(d, f \o t) = p \o c
    BY <2>2, <2>3, <2>4, StrayConcat, CharactersConcat DEF Sound
  <2>6. p \in TextOf /\ c \in TextOf
    BY <2>4, CharactersIs
  <2>7. c \in {Bos, Eos} \/ Bare(c)
    <3>1. CASE t \in {Bos, Eos}
      <4>1. Characters(d, Bos) = Bos /\ Characters(d, Eos) = Eos
        BY CharactersMarker DEF Bos, Eos, Tails
      <4>. QED BY <3>1, <4>1
    <3>2. CASE Bare(t)
      BY <2>2, <3>2, CharactersBare DEF Sound
    <3>. QED BY <2>2, <3>1, <3>2 DEF Sound
  <2>8. Text(d, s) = StripMarker(StripMarker(p, Bos), Eos)
    BY DEF Text
  <2>9. Piece(d, t) = StripMarker(StripMarker(c, Bos), Eos)
    <3>1. FlattenSeq(<<t>>) = t
      BY FlattenOne DEF TokenOf
    <3>. QED BY <3>1 DEF Piece, Text
  <2>10. Text(d, x) = StripMarker(StripMarker(p \o c, Bos), Eos)
    BY <2>4, <2>5 DEF Text
  <2>. HIDE DEF p, c
  <2>11. Text(d, x) = Text(d, s) \o Piece(d, t)
    BY <2>6, <2>7, <2>8, <2>9, <2>10, StripWhole
  <2>12. Accumulated(d, x) = Accumulated(d, s) \o Piece(d, t)
    BY AccumulatedGrows DEF x
  <2>. QED BY <2>1, <2>3, <2>4, <2>5, <2>11, <2>12
<1>. HIDE DEF U
<1>3. g \in U
  BY <1>1, <1>2, AppendInduction
<1>. QED BY <1>3 DEF U

-----------------------------------------------------------------------------
(* The counters.                                                           *)

Counted == [requests : Nat, generations : Nat, errors : Nat, rejected : Nat, tokens : Nat]
History == [accepted : Nat, read : Nat, answered : Nat, failed : Nat, rejected : Nat, tokens : Nat]

MType == /\ metrics \in Counted
         /\ past \in History
         /\ generated \in Seq(setup.vocabulary)

(* A generation that has ended is recorded one step later.                 *)
Owed       == IF step = "record" THEN 1 ELSE 0
OwedError  == IF step = "record" /\ result = "error" THEN 1 ELSE 0
OwedTokens == IF step = "record" /\ result # "error" THEN Len(generated) ELSE 0

(* The steps a guard lives through.                                        *)
Guarded == step \in {"prefill", "decode", "record", "finish", "reply"}

Balance == /\ metrics.requests = past.read
           /\ metrics.generations + Owed = past.answered + past.failed + past.rejected
           /\ metrics.errors + OwedError = past.failed + past.rejected
           /\ metrics.rejected = past.rejected
           /\ metrics.tokens + OwedTokens = past.tokens

MInv == /\ MType
        /\ active = IF Guarded THEN 1 ELSE 0
        /\ Balance

-----------------------------------------------------------------------------
(* The invariant holds of a server that has just started.                  *)
LEMMA MInvInit == Init => MInv
BY DEF Init, MInv, MType, Balance, Counted, History, NoMetrics, Guarded, Owed, OwedError, OwedTokens

(* What a counter type says of the fields.                                 *)
Numbers == /\ metrics.requests \in Nat /\ metrics.generations \in Nat /\ metrics.errors \in Nat
           /\ metrics.rejected \in Nat /\ metrics.tokens \in Nat
           /\ past.read \in Nat /\ past.answered \in Nat /\ past.failed \in Nat
           /\ past.rejected \in Nat /\ past.tokens \in Nat
           /\ Len(generated) \in Nat

(* The counters are numbers.                                               *)
LEMMA Fields == MInv => Numbers
BY DEF MInv, MType, Counted, History, Numbers

(* What the counters are when nothing is owed.                             *)
Even == /\ metrics.requests = past.read
        /\ metrics.generations = past.answered + past.failed + past.rejected
        /\ metrics.errors = past.failed + past.rejected
        /\ metrics.rejected = past.rejected
        /\ metrics.tokens = past.tokens

(* Away from the step that records, nothing is owed.                       *)
LEMMA NothingOwed ==
    ASSUME MType, step # "record"
    PROVE  Balance <=> Even
<1>1. Owed = 0 /\ OwedError = 0 /\ OwedTokens = 0
  BY DEF Owed, OwedError, OwedTokens
<1>2. metrics.generations \in Nat /\ metrics.errors \in Nat /\ metrics.tokens \in Nat
  BY DEF MType, Counted
<1>. QED BY <1>1, <1>2 DEF Balance, Even

(* The same of the next state.                                             *)
LEMMA NothingOwedNext ==
    ASSUME MType', step' # "record"
    PROVE  Balance' <=> Even'
<1>1. Owed' = 0 /\ OwedError' = 0 /\ OwedTokens' = 0
  BY DEF Owed, OwedError, OwedTokens
<1>2. metrics'.generations \in Nat /\ metrics'.errors \in Nat /\ metrics'.tokens \in Nat
  BY DEF MType, Counted
<1>. QED BY <1>1, <1>2 DEF Balance, Even

(* The end of a generation is what makes something owed.                   *)
LEMMA EndKeeps ==
    ASSUME MInv, NEW r, EndWith(r), Guarded, step # "record", UNCHANGED <<setup, active, metrics>>,
           generated' \in Seq(setup.vocabulary)
    PROVE  MInv'
<1>1. step' = "record" /\ result' = r
  BY DEF EndWith
<1>0. Numbers
  BY Fields
<1>3. Len(generated') \in Nat
  OBVIOUS
<1>6. metrics' = metrics /\ Even
  BY NothingOwed DEF MInv
<1>4. CASE r = "error"
  <2>1. past' = [past EXCEPT !.failed = @ + 1]
    BY <1>4 DEF EndWith
  <2>2. past' \in History /\ past'.failed = past.failed + 1 /\ past'.tokens = past.tokens
        /\ past'.answered = past.answered /\ past'.rejected = past.rejected /\ past'.read = past.read
    BY <2>1, SMTT(60) DEF MInv, MType, History
  <2>3. Owed' = 1 /\ OwedError' = 1 /\ OwedTokens' = 0
    BY <1>1, <1>4 DEF Owed, OwedError, OwedTokens
  <2>4. metrics'.generations + Owed' = past'.answered + past'.failed + past'.rejected
    <3>1. metrics'.generations + Owed' = past.answered + past.failed + past.rejected + 1
      BY <1>6, <2>3 DEF Even
    <3>2. past'.answered + past'.failed + past'.rejected = past.answered + (past.failed + 1) + past.rejected
      BY <2>2
    <3>3. past.answered \in Nat /\ past.failed \in Nat /\ past.rejected \in Nat
      BY <1>0 DEF Numbers
    <3>. QED BY <3>1, <3>2, <3>3
  <2>5. metrics'.errors + OwedError' = past'.failed + past'.rejected
    BY <1>0, <1>6, <2>2, <2>3 DEF Even, Numbers
  <2>6. metrics'.tokens + OwedTokens' = past'.tokens
    BY <1>0, <1>6, <2>2, <2>3 DEF Even, Numbers
  <2>7. metrics'.requests = past'.read /\ metrics'.rejected = past'.rejected
    BY <1>6, <2>2 DEF Even
  <2>8. Balance'
    BY <2>4, <2>5, <2>6, <2>7 DEF Balance
  <2>. QED BY <1>1, <2>2, <2>8 DEF MInv, MType, Guarded
<1>5. CASE r # "error"
  <2>1. past' = [past EXCEPT !.answered = @ + 1, !.tokens = @ + Len(generated')]
    BY <1>5 DEF EndWith
  <2>2. past' \in History /\ past'.failed = past.failed /\ past'.tokens = past.tokens + Len(generated')
        /\ past'.answered = past.answered + 1 /\ past'.rejected = past.rejected /\ past'.read = past.read
    <3>1. past.tokens + Len(generated') \in Nat /\ past.answered + 1 \in Nat
      BY <1>0, <1>3, SMTT(60) DEF Numbers
    <3>2. past \in [accepted : Nat, read : Nat, answered : Nat, failed : Nat, rejected : Nat, tokens : Nat]
      BY DEF MInv, MType, History
    <3>. QED BY <2>1, <3>1, <3>2 DEF History
  <2>3. Owed' = 1 /\ OwedError' = 0 /\ OwedTokens' = Len(generated')
    BY <1>1, <1>5 DEF Owed, OwedError, OwedTokens
  <2>4. metrics'.generations + Owed' = past'.answered + past'.failed + past'.rejected
    <3>1. metrics'.generations + Owed' = past.answered + past.failed + past.rejected + 1
      BY <1>6, <2>3 DEF Even
    <3>2. past'.answered + past'.failed + past'.rejected = (past.answered + 1) + past.failed + past.rejected
      BY <2>2
    <3>3. past.answered \in Nat /\ past.failed \in Nat /\ past.rejected \in Nat
      BY <1>0 DEF Numbers
    <3>. QED BY <3>1, <3>2, <3>3
  <2>5. metrics'.errors + OwedError' = past'.failed + past'.rejected
    BY <1>0, <1>6, <2>2, <2>3 DEF Even, Numbers
  <2>6. metrics'.tokens + OwedTokens' = past'.tokens
    BY <1>6, <2>2, <2>3 DEF Even
  <2>7. metrics'.requests = past'.read /\ metrics'.rejected = past'.rejected
    BY <1>6, <2>2 DEF Even
  <2>8. Balance'
    BY <2>4, <2>5, <2>6, <2>7 DEF Balance
  <2>. QED BY <1>1, <2>2, <2>8 DEF MInv, MType, Guarded
<1>. QED BY <1>4, <1>5

(* A step that leaves counters and answer alone and neither enters nor     *)
(* leaves the life of a guard, nor the step of the recording.              *)
LEMMA QuietKeeps ==
    ASSUME MInv, UNCHANGED <<setup, metrics, past>>, generated' \in Seq(setup.vocabulary),
           step # "record", step' # "record",
           active' = IF Guarded' THEN 1 ELSE 0
    PROVE  MInv'
BY DEF MInv, MType, Balance, Owed, OwedError, OwedTokens

-----------------------------------------------------------------------------
(* Accepting keeps the counters and what is owed.                          *)
LEMMA AcceptKeeps == MInv /\ Accept => MInv'
<1>. SUFFICES ASSUME MInv, Accept PROVE MInv'
  OBVIOUS
<1>1. past' \in History /\ past'.read = past.read /\ past'.answered = past.answered
      /\ past'.failed = past.failed /\ past'.rejected = past.rejected /\ past'.tokens = past.tokens
  BY DEF Accept, MInv, MType, History
<1>2. step = "accept" /\ step' = "read" /\ generated' = <<>> /\ UNCHANGED <<setup, active, metrics>>
  BY DEF Accept
<1>3. <<>> \in Seq(setup.vocabulary)
  OBVIOUS
<1>. QED BY <1>1, <1>2, <1>3 DEF MInv, MType, Balance, Guarded, Owed, OwedError, OwedTokens

(* A request that is read is counted by the server and in the history.     *)
LEMMA ReadKeeps == MInv /\ Read => MInv'
<1>. SUFFICES ASSUME MInv, Read PROVE MInv'
  OBVIOUS
<1>1. step = "read" /\ UNCHANGED <<setup, generated, active>>
  BY DEF Read
<1>2. CASE step' = "respond" /\ UNCHANGED <<metrics, past>>
  BY <1>1, <1>2, QuietKeeps DEF MInv, MType, Guarded
<1>3. CASE /\ step' = "route" /\ metrics' = [metrics EXCEPT !.requests = @ + 1]
           /\ past' = [past EXCEPT !.read = @ + 1]
  <2>1. metrics' \in Counted /\ past' \in History
    <3>1. metrics.requests + 1 \in Nat /\ past.read + 1 \in Nat
      BY Fields, SMTT(60) DEF Numbers
    <3>2. metrics' \in Counted
      BY <1>3, <3>1 DEF MInv, MType, Counted
    <3>3. past' \in History
      BY <1>3, <3>1 DEF MInv, MType, History
    <3>. QED BY <3>2, <3>3
  <2>2. Even
    BY <1>1, NothingOwed DEF MInv
  <2>3. /\ metrics'.requests = metrics.requests + 1 /\ metrics'.generations = metrics.generations
        /\ metrics'.errors = metrics.errors /\ metrics'.rejected = metrics.rejected
        /\ metrics'.tokens = metrics.tokens
    BY <1>3 DEF MInv, MType, Counted
  <2>4. /\ past'.read = past.read + 1 /\ past'.answered = past.answered /\ past'.failed = past.failed
        /\ past'.rejected = past.rejected /\ past'.tokens = past.tokens
    BY <1>3 DEF MInv, MType, History
  <2>5. metrics'.generations = past'.answered + past'.failed + past'.rejected
    BY <2>2, <2>3, <2>4 DEF Even
  <2>8. metrics'.errors = past'.failed + past'.rejected
    BY <2>2, <2>3, <2>4 DEF Even
  <2>9. Even'
    BY <2>2, <2>3, <2>4, <2>5, <2>8 DEF Even
  <2>6. MType'
    BY <1>1, <2>1 DEF MInv, MType
  <2>7. Balance'
    BY <1>3, <2>9, <2>6, NothingOwedNext
  <2>. QED BY <1>1, <1>3, <2>6, <2>7 DEF MInv, Guarded
<1>. QED BY <1>2, <1>3 DEF Read

(* A rejected request is counted as an error and as rejected.              *)
LEMMA RejectKeeps == MInv /\ Reject => MInv'
<1>. SUFFICES ASSUME MInv, Reject PROVE MInv'
  OBVIOUS
<1>1. /\ step = "route" /\ step' = "respond" /\ UNCHANGED <<setup, generated, active>>
      /\ metrics' = [metrics EXCEPT !.generations = @ + 1, !.errors = @ + 1, !.rejected = @ + 1]
      /\ past' = [past EXCEPT !.rejected = @ + 1]
  BY DEF Reject, Respond
<1>2. metrics' \in Counted /\ past' \in History
  <2>1. /\ metrics.generations + 1 \in Nat /\ metrics.errors + 1 \in Nat
        /\ metrics.rejected + 1 \in Nat /\ past.rejected + 1 \in Nat
    BY Fields, SMTT(60) DEF Numbers
  <2>2. metrics' \in Counted
    BY <1>1, <2>1 DEF MInv, MType, Counted
  <2>3. past' \in History
    BY <1>1, <2>1 DEF MInv, MType, History
  <2>. QED BY <2>2, <2>3
<1>3. Even
  BY <1>1, NothingOwed DEF MInv
<1>4. /\ metrics'.requests = metrics.requests /\ metrics'.generations = metrics.generations + 1
      /\ metrics'.errors = metrics.errors + 1 /\ metrics'.rejected = metrics.rejected + 1
      /\ metrics'.tokens = metrics.tokens
  BY <1>1 DEF MInv, MType, Counted
<1>5. /\ past'.read = past.read /\ past'.answered = past.answered /\ past'.failed = past.failed
      /\ past'.rejected = past.rejected + 1 /\ past'.tokens = past.tokens
  BY <1>1 DEF MInv, MType, History
<1>6. past.answered \in Nat /\ past.failed \in Nat /\ past.rejected \in Nat
  BY Fields DEF Numbers
<1>7. metrics'.generations = past'.answered + past'.failed + past'.rejected
  <2>1. metrics'.generations = past.answered + past.failed + past.rejected + 1
    BY <1>3, <1>4 DEF Even
  <2>2. past'.answered + past'.failed + past'.rejected = past.answered + past.failed + (past.rejected + 1)
    BY <1>5
  <2>. QED BY <1>6, <2>1, <2>2
<1>8. metrics'.errors = past'.failed + past'.rejected
  BY <1>3, <1>4, <1>5, <1>6 DEF Even
<1>9. Even'
  BY <1>3, <1>4, <1>5, <1>7, <1>8 DEF Even
<1>10. MType'
  BY <1>1, <1>2 DEF MInv, MType
<1>11. Balance'
  BY <1>1, <1>9, <1>10, NothingOwedNext
<1>. QED BY <1>1, <1>10, <1>11 DEF MInv, Guarded

(* A plain answer counts nothing; a generation that starts takes the       *)
(* guard.                                                                  *)
LEMMA StartKeeps == MInv /\ (Answer \/ Start) => MInv'
<1>. SUFFICES ASSUME MInv, Answer \/ Start PROVE MInv'
  OBVIOUS
<1>1. step = "route" /\ UNCHANGED <<setup, generated, metrics, past>>
  BY DEF Answer, Start
<1>2. \/ step' = "respond" /\ active' = active
      \/ step' = "prefill" /\ active' = active + 1
  BY DEF Answer, Start, Respond
<1>. QED BY <1>1, <1>2, QuietKeeps DEF MInv, MType, Guarded

(* Prefill ends the generation or goes on.                                 *)
LEMMA PrefillKeeps == MInv /\ (Prefill \/ EndOfSequence) => MInv'
<1>. SUFFICES ASSUME MInv, Prefill \/ EndOfSequence PROVE MInv'
  OBVIOUS
<1>1. step \in {"prefill", "decode"} /\ UNCHANGED <<setup, generated, active, metrics>>
  BY DEF Prefill, EndOfSequence
<1>2. \/ step' = "decode" /\ UNCHANGED past
      \/ \E r \in {"eos", "length", "error"} : EndWith(r)
  BY DEF Prefill, EndOfSequence
<1>3. CASE step' = "decode" /\ UNCHANGED past
  BY <1>1, <1>3, QuietKeeps DEF MInv, MType, Guarded
<1>4. CASE \E r \in {"eos", "length", "error"} : EndWith(r)
  BY <1>1, <1>4, EndKeeps DEF MInv, MType, Guarded
<1>. QED BY <1>2, <1>3, <1>4

(* So does a token.                                                        *)
LEMMA TokenKeeps == MInv /\ Token => MInv'
<1>. SUFFICES ASSUME MInv, Token PROVE MInv'
  OBVIOUS
<1>1. step = "decode" /\ UNCHANGED <<setup, active, metrics>>
  BY DEF Token
<1>2. PICK t \in setup.vocabulary :
        /\ generated' = Append(generated, t)
        /\ \/ UNCHANGED <<step, result, past>>
           \/ EndWith("stop") \/ EndWith("length") \/ EndWith("error")
  BY DEF Token
<1>3. generated' \in Seq(setup.vocabulary)
  BY <1>2 DEF MInv, MType
<1>4. CASE UNCHANGED <<step, result, past>>
  BY <1>1, <1>3, <1>4, QuietKeeps DEF MInv, Guarded
<1>5. CASE EndWith("stop") \/ EndWith("length") \/ EndWith("error")
  BY <1>1, <1>3, <1>5, EndKeeps DEF Guarded
<1>. QED BY <1>2, <1>4, <1>5

(* What was owed is paid.                                                  *)
LEMMA RecordKeeps == MInv /\ Record => MInv'
<1>. SUFFICES ASSUME MInv, Record PROVE MInv'
  OBVIOUS
<1>1. /\ step = "record" /\ step' \in {"finish", "reply"}
      /\ UNCHANGED <<setup, generated, active, past>>
      /\ metrics' = IF result = "error"
                    THEN [metrics EXCEPT !.generations = @ + 1, !.errors = @ + 1]
                    ELSE [metrics EXCEPT !.generations = @ + 1, !.tokens = @ + Len(generated)]
  BY DEF Record
<1>2. metrics' \in Counted
  <2>1. metrics.generations + 1 \in Nat /\ metrics.errors + 1 \in Nat
    BY Fields, SMTT(60) DEF Numbers
  <2>4. metrics.tokens + Len(generated) \in Nat
    BY Fields DEF Numbers
  <2>2. CASE result = "error"
    BY <1>1, <2>1, <2>2 DEF MInv, MType, Counted
  <2>3. CASE result # "error"
    BY <1>1, <2>1, <2>3, <2>4 DEF MInv, MType, Counted
  <2>. QED BY <2>2, <2>3
<1>3. Balance'
  <2>1. CASE result = "error"
    BY <1>1, <2>1, Fields DEF MInv, MType, Counted, Balance, Owed, OwedError, OwedTokens
  <2>2. CASE result # "error"
    BY <1>1, <2>2, Fields DEF MInv, MType, Counted, Balance, Owed, OwedError, OwedTokens
  <2>. QED BY <2>1, <2>2
<1>. QED BY <1>1, <1>2, <1>3 DEF MInv, MType, Guarded

(* The end of a request gives the guard back.                              *)
LEMMA EndKeepsQuiet == MInv /\ (Finish \/ Reply \/ WriteResponse) => MInv'
<1>. SUFFICES ASSUME MInv, Finish \/ Reply \/ WriteResponse PROVE MInv'
  OBVIOUS
<1>1. UNCHANGED <<setup, generated, metrics, past>>
  BY DEF Finish, Reply, WriteResponse
<1>2. \/ step = "finish" /\ step' = "accept" /\ active' = active - 1
      \/ step = "reply" /\ step' = "respond" /\ active' = active - 1
      \/ step = "respond" /\ step' = "accept" /\ active' = active
  BY DEF Finish, Reply, WriteResponse, Close, DropGuard, Respond
<1>. QED BY <1>1, <1>2, QuietKeeps DEF MInv, MType, Guarded

(* MInv is an invariant of the server.                                     *)
THEOREM ServerInvariant == Spec => []MInv
<1>1. MInv /\ [Next]_vars => MInv'
  <2>. SUFFICES ASSUME MInv, [Next]_vars PROVE MInv'
    OBVIOUS
  <2>1. CASE Leave \/ Stall \/ UNCHANGED vars
    <3>1. UNCHANGED <<setup, step, generated, result, active, metrics, past>>
      BY <2>1 DEF Leave, Stall, vars
    <3>. QED BY <3>1 DEF MInv, MType, Balance, Guarded, Owed, OwedError, OwedTokens
  <2>. QED BY <2>1, AcceptKeeps, ReadKeeps, RejectKeeps, StartKeeps, PrefillKeeps, TokenKeeps,
              RecordKeeps, EndKeepsQuiet DEF Next, Serve
<1>. QED BY <1>1, MInvInit, PTL DEF Spec

(* Between two requests the counters of /metrics agree with what happened  *)
(* to the requests, and no generation is counted as running.               *)
THEOREM MetricsSafe == Spec => []MetricsAddUp
<1>1. MInv => MetricsAddUp
  <2>. SUFFICES ASSUME MInv, step = "accept" PROVE MetricsAddUp
    BY DEF MetricsAddUp
  <2>1. Even
    BY NothingOwed DEF MInv
  <2>2. active = 0
    BY DEF MInv, Guarded
  <2>. QED BY <2>1, <2>2 DEF Even, MetricsAddUp
<1>. QED BY <1>1, ServerInvariant, PTL

-----------------------------------------------------------------------------
(* The invariant of the answers, and the steps of the server.              *)

(* What setup is.                                                          *)
LEMMA SetupIs ==
    ASSUME setup \in Setups
    PROVE  /\ setup.kind \in Kinds \cup {"none"}
           /\ setup.vocabulary \subseteq TokenOf
           /\ setup.asks \subseteq Request
BY ServerAssumption DEF Setup

(* A stream that goes through the parser.                                  *)
Parsing == ask.stream /\ setup.api = "openai" /\ setup.kind # "none"

(* What the variables are, but for the counters.                           *)
Types == /\ setup \in Setups
         /\ step \in {"accept", "read", "route", "prefill", "decode", "record",
                      "finish", "reply", "respond"}
         /\ client \in {"there", "stalled", "gone"}
         /\ ask \in Request
         /\ result \in {"none", "eos", "stop", "length", "error"}
         /\ status \in {0, 200, 400, 401, 404, 500, 503}
         /\ Wire(wire)

(* A connection has its end when it is closed.                             *)
Ends == wire.ends \in {0, 1} /\ (step # "accept" => wire.ends = 0)

(* A generation has no result before it ends, and a response that is not a *)
(* stream is what a request for a stream gets instead of a generation.     *)
Phases == /\ step \in {"read", "route", "prefill", "decode"} => result = "none"
          /\ step = "respond" /\ ask.stream => result = "none"
          /\ step = "reply" => ~ask.stream

(* The answer so far, as the stream accumulates it.                        *)
Raw == Accumulated(setup.decoder, generated)

(* The calls of the last parse are those of the answer so far.             *)
Followed == Parsing => parsed.calls = Live(setup.kind, Raw).calls

(* The client of a generation that is over, and its connection closed.     *)
Over == step = "accept" /\ wire.ends = 1 /\ result # "none"

(* The client has put together the calls of the last parse.                *)
Shown == Parsing /\ ask.chat /\ (client # "gone" \/ Over) =>
           wire.calls = Assembled(parsed.calls, Len(parsed.calls))

(* It is told whether there are any.                                       *)
Told == Over /\ Parsing => (wire.finish = "tool_calls" <=> wire.calls # <<>>)

(* The invariant.                                                          *)
SInv == Types /\ Ends /\ Phases /\ Followed /\ Shown /\ Told

(* The steps of a request that is being served.                            *)
Due == {"read", "route", "prefill", "decode", "record", "finish", "reply", "respond"}

(* What tokens are, and the text of the answer so far.                     *)
LEMMA GeneratedIs ==
    ASSUME MInv, Types
    PROVE  generated \in Seq(TokenOf)
<1>1. setup.vocabulary \subseteq TokenOf /\ generated \in Seq(setup.vocabulary)
  BY SetupIs DEF MInv, MType, Types
<1>. QED BY <1>1

LEMMA RawIs ==
    ASSUME generated \in Seq(TokenOf)
    PROVE  Raw \in TextOf
<1>1. Bos \in TokenOf
  BY DEF Bos, TokenOf, Char, Tails
<1>. QED BY <1>1, AccumulatedGrows DEF Raw

(* It is what a stream is compared with.                                   *)
LEMMA AnsweredIs ==
    ASSUME generated \in Seq(TokenOf)
    PROVE  Answered = Raw
<1>1. CASE Unbroken
  <2>1. DOMAIN generated = 1 .. Len(generated)
    OBVIOUS
  <2>2. \A i \in 1 .. Len(generated) : DOMAIN generated[i] = 1 .. Len(generated[i])
    BY DEF TokenOf
  <2>3. \A i \in 1 .. Len(generated) : Sound(generated[i])
    BY <1>1, <2>1, <2>2 DEF Unbroken, Sound, Bare
  <2>4. Text(setup.decoder, generated) = Accumulated(setup.decoder, generated)
    BY <2>3, TextPieces
  <2>. QED BY <2>4 DEF Answered, Raw
<1>2. CASE ~Unbroken
  BY <1>2 DEF Answered, Raw
<1>. QED BY <1>1, <1>2

(* It grows by the piece of the next token.                                *)
LEMMA RawGrows ==
    ASSUME MInv, Types, setup' = setup, NEW t \in setup.vocabulary, generated' = Append(generated, t)
    PROVE  /\ generated \in Seq(TokenOf) /\ t \in TokenOf
           /\ Piece(setup.decoder, t) \in TextOf /\ Raw \in TextOf
           /\ Raw' = Accumulated(setup.decoder, generated')
           /\ Raw' = Raw \o Piece(setup.decoder, t)
<1>1. generated \in Seq(TokenOf) /\ t \in TokenOf
  BY GeneratedIs, SetupIs DEF Types
<1>2. Raw' = Accumulated(setup.decoder, generated')
  BY DEF Raw
<1>3. Raw' = Raw \o Piece(setup.decoder, t)
  BY <1>1, <1>2, AccumulatedGrows DEF Raw
<1>. QED BY <1>1, <1>2, <1>3, PieceIs, RawIs

(* A new connection has nothing.                                           *)
LEMMA NothingIs == Wire(Nothing) /\ Nothing.ends = 0 /\ Nothing.calls = <<>>
BY DEF Nothing, Wire

(* What holds before the first token.                                      *)
LEMMA FreshFollowed ==
    ASSUME setup \in Setups, generated = <<>>, parsed = NothingParsed
    PROVE  Followed
<1>1. CASE Parsing
  <2>1. setup.kind \in Kinds
    BY <1>1, SetupIs DEF Parsing
  <2>2. Raw = <<>>
    BY AccumulatedNone DEF Raw
  <2>3. parsed.calls = <<>>
    BY DEF NothingParsed
  <2>. QED BY <2>1, <2>2, <2>3, NoTextNoCall DEF Followed
<1>. QED BY <1>1 DEF Followed

(* The client of a new connection has no call, and none was parsed.        *)
LEMMA FreshShown ==
    ASSUME parsed = NothingParsed, wire = Nothing
    PROVE  Shown
<1>1. parsed.calls = <<>> /\ wire.calls = <<>>
  BY NothingIs DEF NothingParsed
<1>2. Assembled(<<>>, Len(<<>>)) = <<>>
  BY DEF Assembled
<1>. QED BY <1>1, <1>2 DEF Shown

(* The invariant holds of a server that has just started.                  *)
LEMMA SInvInit == Init => SInv
<1>. SUFFICES ASSUME Init PROVE SInv
  OBVIOUS
<1>1. /\ setup \in Setups /\ step = "accept" /\ client = "gone" /\ ask = Garbage /\ result = "none"
      /\ status = 0 /\ wire = Nothing /\ generated = <<>> /\ parsed = NothingParsed
  BY DEF Init
<1>2. ask \in Request /\ ~ask.stream
  BY <1>1 DEF Garbage, Request
<1>3. Types /\ Ends /\ Phases
  BY <1>1, <1>2, NothingIs DEF Types, Ends, Phases
<1>4. Followed /\ Shown
  BY <1>1, FreshFollowed, FreshShown
<1>5. Told
  BY <1>1, NothingIs DEF Told, Over
<1>. QED BY <1>3, <1>4, <1>5 DEF SInv

(* The same of the next state.                                             *)
LEMMA FreshNext ==
    ASSUME setup' \in Setups, generated' = <<>>, parsed' = NothingParsed, wire' = Nothing
    PROVE  Followed' /\ Shown'
<1>1. Followed'
  <2>1. CASE Parsing'
    <3>1. setup'.kind \in Kinds
      BY <2>1, ServerAssumption DEF Parsing, Setup
    <3>2. Raw' = <<>>
      BY AccumulatedNone DEF Raw
    <3>3. parsed'.calls = <<>>
      BY DEF NothingParsed
    <3>. QED BY <3>1, <3>2, <3>3, NoTextNoCall DEF Followed
  <2>. QED BY <2>1 DEF Followed
<1>2. Shown'
  <2>1. parsed'.calls = <<>> /\ wire'.calls = <<>>
    BY NothingIs DEF NothingParsed
  <2>2. Assembled(<<>>, Len(<<>>)) = <<>>
    BY DEF Assembled
  <2>. QED BY <2>1, <2>2 DEF Shown
<1>. QED BY <1>1, <1>2

(* Accepting a connection keeps it.                                        *)
LEMMA AcceptServes == SInv /\ Accept => SInv'
<1>. SUFFICES ASSUME SInv, Accept PROVE SInv'
  OBVIOUS
<1>1. /\ step' = "read" /\ client' = "there" /\ ask' \in setup.asks /\ result' = "none" /\ status' = 0
      /\ wire' = Nothing /\ generated' = <<>> /\ parsed' = NothingParsed /\ setup' = setup
  BY DEF Accept
<1>2. ask' \in Request /\ setup' \in Setups
  BY <1>1, SetupIs DEF SInv, Types
<1>3. Types' /\ Ends' /\ Phases'
  BY <1>1, <1>2, NothingIs DEF Types, Ends, Phases
<1>4. Followed' /\ Shown'
  BY <1>1, <1>2, FreshNext
<1>5. Told'
  BY <1>1 DEF Told, Over
<1>. QED BY <1>3, <1>4, <1>5 DEF SInv

(* A client that leaves or stalls has nothing to compare, or what it had.  *)
LEMMA LeaveServes == SInv /\ (Leave \/ Stall) => SInv'
<1>. SUFFICES ASSUME SInv, Leave \/ Stall PROVE SInv'
  OBVIOUS
<1>1. step # "accept" /\ UNCHANGED <<setup, step, ask, generated, result, status, parsed>>
  BY DEF Leave, Stall
<1>2. \/ client' = "gone" /\ wire' = Nothing
      \/ client # "gone" /\ client' = "stalled" /\ wire' = wire
  BY DEF Leave, Stall
<1>3. Types' /\ Ends'
  BY <1>1, <1>2, NothingIs DEF SInv, Types, Ends
<1>4. Phases' /\ Told' /\ ~Over'
  BY <1>1 DEF SInv, Phases, Told, Over
<1>5. Followed'
  BY <1>1 DEF SInv, Followed, Parsing, Raw
<1>6. Shown'
  BY <1>1, <1>2, <1>4 DEF SInv, Shown, Parsing
<1>. QED BY <1>3, <1>4, <1>5, <1>6 DEF SInv

(* Steps that neither generate nor write.                                  *)
LEMMA SteadyServes ==
    ASSUME SInv, UNCHANGED <<setup, client, ask, generated, wire, parsed>>, step # "accept", step' \in Due,
           result' \in {"none", "eos", "stop", "length", "error"},
           status' \in {0, 200, 400, 401, 404, 500, 503}, Phases'
    PROVE  SInv'
<1>1. step' # "accept"
  BY DEF Due
<1>2. Types' /\ Ends'
  BY <1>1 DEF SInv, Types, Ends, Due
<1>3. ~Over' /\ Told'
  BY <1>1 DEF Told, Over
<1>4. Followed' /\ Shown'
  BY <1>3 DEF SInv, Followed, Shown, Parsing, Raw
<1>. QED BY <1>2, <1>3, <1>4 DEF SInv

(* Reading and routing a request writes nothing.                           *)
LEMMA RequestServes == SInv /\ (Read \/ Reject \/ Answer \/ Start) => SInv'
<1>. SUFFICES ASSUME SInv, Read \/ Reject \/ Answer \/ Start PROVE SInv'
  OBVIOUS
<1>1. step \in {"read", "route"} /\ UNCHANGED <<setup, client, ask, generated, result, wire, parsed>>
  BY DEF Read, Reject, Answer, Start
<1>2. step' \in {"route", "prefill", "respond"} /\ (status' = status \/ status' \in {200, 400, 401, 404, 500, 503})
  BY DEF Read, Reject, Answer, Start, Respond
<1>3. result = "none"
  BY <1>1 DEF SInv, Phases
<1>4. Phases'
  BY <1>1, <1>2, <1>3 DEF Phases
<1>5. status' \in {0, 200, 400, 401, 404, 500, 503}
  BY <1>2 DEF SInv, Types
<1>. QED BY <1>1, <1>2, <1>3, <1>4, <1>5, SteadyServes DEF Due

(* Nor does prefill, or the end of a sequence.                             *)
LEMMA PrefillServes == SInv /\ (Prefill \/ EndOfSequence) => SInv'
<1>. SUFFICES ASSUME SInv, Prefill \/ EndOfSequence PROVE SInv'
  OBVIOUS
<1>1. step \in {"prefill", "decode"} /\ UNCHANGED <<setup, client, ask, generated, status, wire, parsed>>
  BY DEF Prefill, EndOfSequence
<1>2. \/ step' = "decode" /\ result' = result
      \/ step' = "record" /\ result' \in {"eos", "length", "error"}
  BY DEF Prefill, EndOfSequence, EndWith
<1>3. result = "none" /\ status \in {0, 200, 400, 401, 404, 500, 503}
  BY <1>1 DEF SInv, Phases, Types
<1>4. Phases'
  BY <1>1, <1>2, <1>3 DEF Phases
<1>. QED BY <1>1, <1>2, <1>3, <1>4, SteadyServes DEF Due

(* Nor does the update of the counters.                                    *)
LEMMA RecordServes == SInv /\ Record => SInv'
<1>. SUFFICES ASSUME SInv, Record PROVE SInv'
  OBVIOUS
<1>1. step = "record" /\ UNCHANGED <<setup, client, ask, generated, result, status, wire, parsed>>
      /\ step' = IF ask.stream THEN "finish" ELSE "reply"
  BY DEF Record
<1>2. Phases'
  BY <1>1 DEF Phases
<1>3. step' \in Due /\ result \in {"none", "eos", "stop", "length", "error"}
      /\ status \in {0, 200, 400, 401, 404, 500, 503}
  BY <1>1 DEF SInv, Types, Due
<1>. QED BY <1>1, <1>2, <1>3, SteadyServes

(* What the writes of a token do to what the client has.                   *)
LEMMA TokenWrites ==
    ASSUME MInv, SInv, step = "decode", NEW t \in setup.vocabulary, generated' = Append(generated, t),
           UNCHANGED <<setup, ask>>, ask.stream,
           parsed' = IF ask.stream /\ setup.api = "openai" /\ setup.kind # "none"
                     THEN Live(setup.kind, Accumulated(setup.decoder, generated')) ELSE parsed
    PROVE  LET writes == Events(Piece(setup.decoder, t))
           IN  /\ Followed'
               /\ client # "gone" => /\ Same(wire, Delivered(wire, writes))
                                     /\ Parsing /\ ask.chat => Delivered(wire, writes).calls
                                                               = Assembled(parsed'.calls, Len(parsed'.calls))
<1>. DEFINE e == Piece(setup.decoder, t)
<1>1. e \in TextOf /\ Wire(wire)
  BY RawGrows DEF SInv, Types
<1>2. Raw' = Raw \o e /\ Raw \in TextOf /\ Raw' = Accumulated(setup.decoder, generated')
  BY RawGrows DEF SInv
<1>3. Followed'
  BY <1>2 DEF Followed, Parsing
<1>. HIDE DEF e
<1>4. CASE ~(setup.api = "openai" /\ setup.kind # "none")
  <2>1. CASE setup.api = "openai" /\ e = <<>>
    <3>1. Events(e) = <<>>
      BY <1>4, <2>1 DEF Events
    <3>2. Same(wire, Delivered(wire, Events(e)))
      BY <1>1, <3>1, DeliveredNone DEF Same
    <3>. QED BY <1>3, <1>4, <3>2 DEF Parsing, e
  <2>2. CASE ~(setup.api = "openai" /\ e = <<>>)
    <3>1. Events(e) = <<[of |-> "text", body |-> e]>>
      BY <1>4, <2>2 DEF Events
    <3>2. Same(wire, Delivered(wire, Events(e)))
      BY <1>1, <3>1, SaidArrives
    <3>. QED BY <1>3, <1>4, <3>2 DEF Parsing, e
  <2>. QED BY <2>1, <2>2
<1>5. CASE setup.api = "openai" /\ setup.kind # "none" /\ ~ask.chat
  <2>1. Events(e) = TextEvents(parsed, parsed')
    BY <1>5 DEF Events
  <2>2. Same(wire, Delivered(wire, Events(e)))
    BY <1>1, <2>1, TextArrives
  <2>. QED BY <1>3, <1>5, <2>2 DEF e
<1>6. CASE setup.api = "openai" /\ setup.kind # "none" /\ ask.chat
  <2>1. Events(e) = Push(parsed, parsed') /\ Parsing
    BY <1>6 DEF Events, Parsing
  <2>2. setup.kind \in Kinds
    BY <1>6, SetupIs DEF SInv, Types
  <2>. DEFINE p == Live(setup.kind, Raw).calls
  <2>3. parsed.calls = p /\ p \in Seq(Call)
    BY <1>2, <2>1, <2>2, LiveCalls DEF SInv, Followed
  <2>4. PICK v \in Seq(Call) : Live(setup.kind, Raw \o e).calls = p \o v
    BY <1>1, <1>2, <2>2, LiveGrows
  <2>5. Lengthens(parsed, parsed')
    BY <1>2, <1>6, <2>3, <2>4 DEF Lengthens
  <2>6. client # "gone" => UpToDate(wire, parsed)
    BY <1>6, <2>1 DEF SInv, Shown, UpToDate
  <2>7. client # "gone" => /\ Same(wire, Delivered(wire, Push(parsed, parsed')))
                           /\ UpToDate(Delivered(wire, Push(parsed, parsed')), parsed')
    BY <1>1, <2>5, <2>6, PushKeepsUp
  <2>. QED BY <1>3, <2>1, <2>7 DEF UpToDate, e
<1>. QED BY <1>4, <1>5, <1>6

(* A token is parsed and written.                                          *)
LEMMA TokenServes == MInv /\ SInv /\ Token => SInv'
<1>. SUFFICES ASSUME MInv, SInv, Token PROVE SInv'
  OBVIOUS
<1>1. step = "decode" /\ UNCHANGED <<setup, client, ask, status>>
  BY DEF Token
<1>2. PICK t \in setup.vocabulary :
        /\ generated' = Append(generated, t)
        /\ parsed' = IF ask.stream /\ setup.api = "openai" /\ setup.kind # "none"
                     THEN Live(setup.kind, Accumulated(setup.decoder, generated')) ELSE parsed
        /\ wire' = IF client = "gone" THEN wire
                   ELSE Delivered(wire, IF ask.stream THEN Events(Piece(setup.decoder, t)) ELSE <<>>)
        /\ \/ EndWith("stop") \/ EndWith("length") \/ EndWith("error")
           \/ UNCHANGED <<step, result>>
  BY DEF Token, Delivered
<1>3. \/ step' = "record" /\ result' \in {"stop", "length", "error"}
      \/ step' = "decode" /\ result' = result
  BY <1>1, <1>2 DEF EndWith
<1>4. Phases'
  BY <1>1, <1>3 DEF SInv, Phases
<1>5. ~Over' /\ Told'
  BY <1>3 DEF Told, Over
<1>6. /\ Followed' /\ Same(wire, wire')
      /\ Parsing /\ ask.chat /\ client # "gone" => wire'.calls = Assembled(parsed'.calls, Len(parsed'.calls))
  <2>1. Same(wire, wire)
    BY DEF SInv, Types, Same
  <2>2. CASE ask.stream
    <3>. DEFINE writes == Events(Piece(setup.decoder, t))
    <3>1. /\ Followed'
          /\ client # "gone" => /\ Same(wire, Delivered(wire, writes))
                                /\ Parsing /\ ask.chat => Delivered(wire, writes).calls
                                                          = Assembled(parsed'.calls, Len(parsed'.calls))
      BY <1>1, <1>2, <2>2, TokenWrites
    <3>. QED BY <1>2, <2>1, <2>2, <3>1
  <2>3. CASE ~ask.stream
    <3>1. wire' = wire
      BY <1>2, <2>3, DeliveredNone
    <3>2. ~Parsing /\ Followed'
      BY <1>1, <2>3 DEF Parsing, Followed
    <3>. QED BY <2>1, <3>1, <3>2
  <2>. QED BY <2>2, <2>3
<1>7. Shown'
  BY <1>1, <1>5, <1>6 DEF Shown, Parsing
<1>8. Types' /\ Ends'
  BY <1>1, <1>3, <1>6 DEF SInv, Types, Ends, Same
<1>. QED BY <1>4, <1>5, <1>6, <1>7, <1>8 DEF SInv

(* The end of a stream.                                                    *)
LEMMA FinishServes == SInv /\ Finish => SInv'
<1>. SUFFICES ASSUME SInv, Finish PROVE SInv'
  OBVIOUS
<1>1. /\ step = "finish" /\ step' = "accept" /\ client' = "gone"
      /\ UNCHANGED <<setup, ask, generated, result, status, parsed>>
  BY DEF Finish, Close
<1>2. Wire(wire) /\ wire.ends = 0
  BY <1>1 DEF SInv, Types, Ends
<1>3. CASE client = "gone"
  <2>1. wire' = wire
    BY <1>3 DEF Finish
  <2>2. ~Over'
    BY <1>2, <2>1 DEF Over
  <2>3. Types' /\ Ends' /\ Phases'
    BY <1>1, <1>2, <2>1 DEF SInv, Types, Ends, Phases
  <2>. QED BY <1>1, <2>1, <2>2, <2>3 DEF SInv, Followed, Shown, Told, Parsing, Raw
<1>4. CASE client # "gone"
  <2>. DEFINE f == IF setup.api = "google" /\ result = "error" THEN wire.finish
                   ELSE FinishReason(setup.api = "openai" /\ wire.calls # <<>>)
  <2>1. wire' = [wire EXCEPT !.finish = f, !.ends = wire.ends + 1]
    BY <1>4 DEF Finish
  <2>2. ASSUME Parsing PROVE f = "tool_calls" <=> wire.calls # <<>>
    BY <2>2 DEF Parsing, FinishReason
  <2>. HIDE DEF f
  <2>3. Wire(wire') /\ wire'.ends = 1 /\ wire'.calls = wire.calls /\ wire'.finish = f
    BY <1>2, <2>1 DEF Wire
  <2>4. Types' /\ Ends' /\ Phases'
    BY <1>1, <2>3 DEF SInv, Types, Ends, Phases
  <2>5. Shown'
    BY <1>1, <1>4, <2>3 DEF SInv, Shown, Parsing
  <2>6. Told'
    BY <1>1, <2>2, <2>3 DEF Told, Parsing
  <2>. QED BY <1>1, <2>4, <2>5, <2>6 DEF SInv, Followed, Parsing, Raw
<1>. QED BY <1>3, <1>4

(* The answer to a request that is not a stream is written whole.          *)
LEMMA ReplyServes == SInv /\ Reply => SInv'
<1>. SUFFICES ASSUME SInv, Reply PROVE SInv'
  OBVIOUS
<1>1. /\ step = "reply" /\ step' = "respond" /\ status' \in {200, 500, 503}
      /\ UNCHANGED <<setup, client, ask, generated, result, parsed>>
  BY DEF Reply, Respond
<1>2. Wire(wire) /\ wire.ends = 0 /\ ~ask.stream
  BY <1>1 DEF SInv, Types, Ends, Phases
<1>3. Wire(wire') /\ wire'.ends = 0
  <2>1. CASE client = "gone" \/ result = "error"
    <3>1. wire' = wire
      BY <2>1 DEF Reply
    <3>. QED BY <1>2, <3>1
  <2>2. CASE ~(client = "gone" \/ result = "error") /\ (setup.api = "google" \/ ~ask.chat)
    <3>1. wire' = [wire EXCEPT !.text = Text(setup.decoder, generated), !.finish = FinishReason(FALSE)]
      BY <2>2 DEF Reply
    <3>. QED BY <1>2, <3>1 DEF Wire
  <2>3. CASE ~(client = "gone" \/ result = "error") /\ ~(setup.api = "google" \/ ~ask.chat)
    <3>. DEFINE p == Parsed(Text(setup.decoder, generated))
                calls == [i \in DOMAIN p.calls |-> <<p.calls[i].args>>]
    <3>1. wire' = [wire EXCEPT !.text = p.content, !.reasoning = p.reasoning,
                               !.calls = calls, !.finish = FinishReason(p.calls # <<>>)]
      BY <2>3 DEF Reply, Replied
    <3>. HIDE DEF p, calls
    <3>. QED BY <1>2, <3>1 DEF Wire
  <2>. QED BY <2>1, <2>2, <2>3
<1>4. Types' /\ Ends' /\ Phases'
  BY <1>1, <1>2, <1>3 DEF SInv, Types, Ends, Phases
<1>5. ~Parsing' /\ ~Over'
  BY <1>1, <1>2 DEF Parsing, Over
<1>. QED BY <1>4, <1>5 DEF SInv, Followed, Shown, Told

(* A response is an end.                                                   *)
LEMMA ResponseServes == SInv /\ WriteResponse => SInv'
<1>. SUFFICES ASSUME SInv, WriteResponse PROVE SInv'
  OBVIOUS
<1>1. /\ step = "respond" /\ step' = "accept" /\ client' = "gone"
      /\ UNCHANGED <<setup, ask, generated, result, status, parsed>>
      /\ wire' = [wire EXCEPT !.ends = @ + 1]
  BY DEF WriteResponse, Close
<1>2. Wire(wire) /\ wire.ends = 0 /\ (ask.stream => result = "none")
  BY <1>1 DEF SInv, Types, Ends, Phases
<1>3. Wire(wire') /\ wire'.ends = 1
  BY <1>1, <1>2 DEF Wire
<1>4. Types' /\ Ends' /\ Phases'
  BY <1>1, <1>3 DEF SInv, Types, Ends, Phases
<1>5. Parsing' => ~Over' /\ client' = "gone"
  BY <1>1, <1>2 DEF Parsing, Over
<1>6. Followed'
  BY <1>1 DEF SInv, Followed, Parsing, Raw
<1>. QED BY <1>4, <1>5, <1>6 DEF SInv, Shown, Told

(* Of every server, vocabulary and history of requests: the calls a client *)
(* of a stream has put together are those of the parse of the answer so    *)
(* far, the connection has no end before it is closed, and the finish      *)
(* reason it was told is that of its calls.                                *)
THEOREM AnswersInvariant == Spec => []SInv
<1>1. MInv /\ SInv /\ [Next]_vars => SInv'
  <2>. SUFFICES ASSUME MInv, SInv, [Next]_vars PROVE SInv'
    OBVIOUS
  <2>1. CASE UNCHANGED vars
    BY <2>1 DEF vars, SInv, Types, Ends, Phases, Followed, Shown, Told, Over, Parsing, Raw
  <2>. QED BY <2>1, AcceptServes, LeaveServes, RequestServes, PrefillServes, TokenServes, RecordServes,
              FinishServes, ReplyServes, ResponseServes DEF Next, Serve
<1>. QED BY <1>1, SInvInit, ServerInvariant, PTL DEF Spec

(* The variables have their types: the guard of the model is 0 or 1 and    *)
(* what was generated is of the vocabulary, whatever happened to the       *)
(* requests (http.rs, the handler of a connection).                        *)
THEOREM ServerTyped == Spec => []TypeOK
<1>1. MInv /\ SInv => TypeOK
  <2>. SUFFICES ASSUME MInv, SInv PROVE TypeOK
    OBVIOUS
  <2>1. active \in {0, 1} /\ generated \in Seq(setup.vocabulary)
    BY DEF MInv, MType
  <2>2. DOMAIN metrics = DOMAIN NoMetrics
    BY DEF MInv, MType, Counted, NoMetrics
  <2>3. DOMAIN wire = DOMAIN Nothing
    BY DEF SInv, Types, Wire, Nothing
  <2>. QED BY <2>1, <2>2, <2>3 DEF SInv, Types, TypeOK
<1>. QED BY <1>1, ServerInvariant, AnswersInvariant, PTL

(* No connection gets two ends: neither a stream that fails after its last *)
(* token, nor a response that is written after the client has left, is     *)
(* ended again (http.rs, the end of a stream and write_json_response).     *)
THEOREM OneEndSafe == Spec => []OneEnd
<1>1. SInv => OneEnd
  BY DEF SInv, Ends, OneEnd
<1>. QED BY <1>1, AnswersInvariant, PTL

(* A client that follows a stream puts together calls that are the first   *)
(* ones of the plain response (of the pieces, where a token cuts a         *)
(* character), whole and in order, and all of them, with the finish reason *)
(* that goes with them, when the channels of the answer are closed         *)
(* (chat_parse.rs, push): for every tokenizer, vocabulary and answer, with *)
(* however many calls, although the stream decodes the tokens one by one,  *)
(* and the parser reads the whole text again at every token and takes text *)
(* back.                                                                   *)
THEOREM StreamedCallsSafe == Spec => []StreamedCalls
<1>1. ASSUME MInv, SInv PROVE StreamedCalls
  <2>. SUFFICES ASSUME Streamed, ask.chat
                PROVE  LET calls == Whole(setup.kind, Answered).calls
                       IN  /\ IsPrefix(wire.calls, [i \in DOMAIN calls |-> <<calls[i].args>>])
                           /\ Settled => /\ Len(wire.calls) = Len(calls)
                                         /\ (wire.finish = "tool_calls") = (calls # <<>>)
    BY DEF StreamedCalls
  <2>. DEFINE kind == setup.kind
              t == Raw
              p == Live(kind, t).calls
              calls == Whole(kind, t).calls
  <2>1. kind \in Kinds /\ t \in TextOf /\ Answered = t
    BY <1>1, GeneratedIs, SetupIs, RawIs, AnsweredIs DEF SInv, Types, Streamed
  <2>2. Over /\ Parsing
    BY DEF Streamed, Over, Parsing
  <2>3. parsed.calls = p /\ wire.calls = Assembled(p, Len(p))
    BY <1>1, <2>2 DEF SInv, Followed, Shown
  <2>4. wire.finish = "tool_calls" <=> wire.calls # <<>>
    BY <1>1, <2>2 DEF SInv, Told
  <2>5. Settled => Closed(kind, t)
    BY <2>1 DEF Settled, Closed
  <2>. HIDE DEF kind, t
  <2>6. p \in Seq(Call) /\ calls \in Seq(Call)
    BY <2>1, LiveCalls
  <2>7. PICK v \in Seq(Call) : calls = p \o v
    BY <2>1, WholeExtends
  <2>8. Closed(kind, t) => calls = p
    BY <2>1, SettledCalls
  <2>. HIDE DEF p, calls
  <2>. DEFINE a == Assembled(p, Len(p))
              b == [i \in DOMAIN calls |-> <<calls[i].args>>]
  <2>9. Len(p) \in Nat /\ Len(v) \in Nat /\ Len(calls) = Len(p) + Len(v) /\ DOMAIN calls = 1 .. Len(calls)
        /\ \A i \in 1 .. Len(p) + Len(v) : calls[i] = IF i <= Len(p) THEN p[i] ELSE v[i - Len(p)]
    BY <2>6, <2>7, ConcatProperties
  <2>10. a \in Seq(Seq(TextOf)) /\ Len(a) = Len(p) /\ \A i \in 1 .. Len(p) : a[i] = <<p[i].args>>
    <3>1. ASSUME NEW i \in 1 .. Len(p) PROVE p[i].args \in TextOf
      <4>1. p[i] \in Call
        BY <2>6
      <4>. QED BY <4>1 DEF Call
    <3>. QED BY <2>9, <3>1 DEF Assembled
  <2>11. b \in Seq(Seq(TextOf)) /\ Len(b) = Len(calls) /\ \A i \in 1 .. Len(calls) : b[i] = <<calls[i].args>>
    <3>1. ASSUME NEW i \in 1 .. Len(calls) PROVE calls[i].args \in TextOf
      <4>1. calls[i] \in Call
        BY <2>6
      <4>. QED BY <4>1 DEF Call
    <3>. QED BY <2>6, <2>9, <3>1
  <2>. HIDE DEF a, b
  <2>12. \A i \in 1 .. Len(p) : a[i] = b[i]
    <3>1. ASSUME NEW i \in 1 .. Len(p) PROVE a[i] = b[i]
      <4>1. i \in 1 .. Len(p) + Len(v) /\ i \in 1 .. Len(calls) /\ i <= Len(p)
        BY <2>9
      <4>2. calls[i] = p[i]
        BY <2>9, <4>1
      <4>. QED BY <2>10, <2>11, <4>1, <4>2
    <3>. QED BY <3>1
  <2>13. IsPrefix(a, b)
    <3>1. Len(a) <= Len(b)
      BY <2>9, <2>10, <2>11
    <3>2. \A i \in 1 .. Len(a) : a[i] = b[i]
      BY <2>10, <2>12
    <3>. QED BY <2>10, <2>11, <3>1, <3>2, PrefixIs
  <2>14. Settled => Len(a) = Len(calls) /\ (a # <<>> <=> calls # <<>>)
    <3>. SUFFICES ASSUME Settled PROVE Len(a) = Len(calls) /\ (a # <<>> <=> calls # <<>>)
      OBVIOUS
    <3>1. calls = p
      BY <2>5, <2>8
    <3>2. Len(a) = Len(calls)
      BY <2>10, <3>1
    <3>3. a = <<>> <=> Len(a) = 0
      BY <2>10
    <3>4. calls = <<>> <=> Len(calls) = 0
      BY <2>6
    <3>. QED BY <3>2, <3>3, <3>4
  <2>. QED BY <2>1, <2>3, <2>4, <2>13, <2>14 DEF a, b, calls, kind
<1>2. MInv /\ SInv => StreamedCalls
  BY <1>1
<1>. QED BY <1>2, ServerInvariant, AnswersInvariant, PTL

-----------------------------------------------------------------------------
(* The reasoning a client has put together.                                *)

(* The reasoning of the last parse is that of the answer so far.           *)
Thought == Parsing => parsed.reasoning = ReasoningOf(setup.kind, TRUE, Raw)

(* The answer so far does not end with the beginning of a marker.          *)
Unheld == WholeMarkers => Ready(Raw)

(* The client has the reasoning of the last parse.                         *)
Pondered == Parsing /\ ask.chat /\ (client # "gone" \/ Over) /\ WholeMarkers =>
           /\ wire.reasoning \in TextOf
           /\ Printed(wire.reasoning) = Printed(parsed.reasoning)
           /\ ~Lines(setup.kind, Raw) => wire.reasoning = parsed.reasoning

(* The invariant.                                                          *)
RInv == Thought /\ Unheld /\ Pondered

(* A step of the reasoning of a client.                                    *)
LEMMA GainedIs ==
    ASSUME NEW x \in TextOf, NEW r \in TextOf, NEW s \in TextOf, NEW i, NEW j, i => j, Gains(i, r, s),
           Printed(x) = Printed(r), ~i => x = r
    PROVE  /\ Gained(x, r, s) \in TextOf
           /\ Printed(Gained(x, r, s)) = Printed(s)
           /\ ~j => Gained(x, r, s) = s
<1>. DEFINE v == After(s, Len(r))
<1>1. CASE IsStrictPrefix(r, s)
  <2>1. v \in TextOf /\ s = r \o v
    BY <1>1, BeginsIs DEF IsStrictPrefix
  <2>2. Gained(x, r, s) = x \o v
    BY <1>1 DEF Gained
  <2>. HIDE DEF v
  <2>3. x \o v \in TextOf
    BY <2>1, ConcatProperties, TextIs
  <2>4. Printed(x \o v) = Printed(x) \o Printed(v) /\ Printed(r \o v) = Printed(r) \o Printed(v)
    BY <2>1, PrintedConcat
  <2>. QED BY <2>1, <2>2, <2>3, <2>4
<1>2. CASE ~IsStrictPrefix(r, s)
  <2>1. Gained(x, r, s) = x
    BY <1>2 DEF Gained
  <2>2. CASE Begins(r, s)
    <3>1. r = s
      BY <1>2, <2>2, BeginsIs DEF IsStrictPrefix
    <3>. QED BY <2>1, <3>1
  <2>3. CASE ~Begins(r, s)
    BY <2>1, <2>3 DEF Gains
  <2>. QED BY <2>2, <2>3
<1>. QED BY <1>1, <1>2

(* A text that does not end with the beginning of a marker still does not  *)
(* after a token that is a marker or free of them.                         *)
LEMMA ReadyGrows ==
    ASSUME NEW t \in TextOf, NEW g \in TextOf, Ready(t), Alone(g)
    PROVE  Ready(t \o g)
<1>1. t \in Seq(Char) /\ g \in Seq(Char) /\ Len(t) \in Nat /\ Len(g) \in Nat
  BY TextIs
<1>. DEFINE x == t \o g
<1>2. /\ x \in Seq(Char) /\ Len(x) = Len(t) + Len(g)
      /\ \A n \in 1 .. Len(t) + Len(g) : x[n] = IF n <= Len(t) THEN t[n] ELSE g[n - Len(t)]
  BY <1>1, ConcatProperties
<1>. HIDE DEF x
<1>3. CASE Len(g) = 0
  <2>1. Len(t) > 0 => x[Len(t)] = t[Len(t)]
    BY <1>1, <1>2, <1>3
  <2>2. Ready(x)
    BY <1>1, <1>2, <1>3, <2>1 DEF Ready
  <2>. QED BY <2>2 DEF x
<1>4. CASE Len(g) > 0
  <2>1. Len(t) + Len(g) \in 1 .. Len(t) + Len(g) /\ ~(Len(t) + Len(g) <= Len(t)) /\ Len(t) + Len(g) - Len(t) = Len(g)
    BY <1>1, <1>4
  <2>2. x[Len(x)] = g[Len(g)]
    BY <1>2, <2>1
  <2>3. g[Len(g)] # "<"
    <3>1. "<" \notin Tails
      BY DEF Tails
    <3>. QED BY <1>1, <1>4, <3>1 DEF Alone
  <2>4. Ready(x)
    BY <2>2, <2>3 DEF Ready
  <2>. QED BY <2>4 DEF x
<1>. QED BY <1>1, <1>3, <1>4

(* White space in a row stays when the text grows.                         *)
LEMMA LinesGrow ==
    ASSUME NEW kind, NEW t \in TextOf, NEW g \in TextOf, Lines(kind, t)
    PROVE  Lines(kind, t \o g)
<1>1. t \in Seq(Char) /\ g \in Seq(Char) /\ Len(t) \in Nat /\ Len(g) \in Nat
  BY TextIs
<1>. DEFINE x == t \o g
            m == <<"nl", "nl">>
<1>2. /\ x \in Seq(Char) /\ Len(x) = Len(t) + Len(g)
      /\ \A n \in 1 .. Len(t) + Len(g) : x[n] = IF n <= Len(t) THEN t[n] ELSE g[n - Len(t)]
  BY <1>1, ConcatProperties
<1>. HIDE DEF x, m
<1>3. PICK i \in Occurs(t, m) : TRUE
  BY DEF Lines, m
<1>4. i \in 1 .. Len(t) /\ i < Len(t) /\ Stands(t, m, i)
  BY <1>3, OccursIs
<1>5. i \in 1 .. Len(x) /\ i < Len(x) /\ x[i] = t[i] /\ x[i + 1] = t[i + 1]
  BY <1>1, <1>2, <1>4
<1>6. x \in TextOf /\ Stands(x, m, i)
  BY <1>2, <1>4, <1>5, TextIs DEF Stands
<1>7. i \in Occurs(x, m)
  BY <1>5, <1>6, OccursIs
<1>. QED BY <1>7 DEF Lines, x, m

(* A step that changes neither the answer nor the reasoning of the client. *)
LEMMA QuietThinks ==
    ASSUME RInv, UNCHANGED <<setup, ask, generated, parsed>>,
           Parsing /\ (client' # "gone" \/ Over') => client # "gone" /\ wire'.reasoning = wire.reasoning
    PROVE  RInv'
<1>1. Thought' /\ Unheld'
  BY DEF RInv, Thought, Unheld, Parsing, WholeMarkers, Raw
<1>2. Pondered'
  BY DEF RInv, Pondered, Parsing, WholeMarkers, Raw
<1>. QED BY <1>1, <1>2 DEF RInv

(* The empty text has no reasoning.                                        *)
LEMMA NoTextNoReasoning ==
    ASSUME NEW kind \in Kinds
    PROVE  ReasoningOf(kind, TRUE, <<>>) = <<>>
<1>. DEFINE e == <<>>
<1>1. e \in TextOf /\ e \in Seq(Char) /\ Len(e) = 0
  BY TextIs
<1>. HIDE DEF e
<1>2. Find(e, ThinkOpen) \in 0 .. Len(e)
  BY <1>1, FindIs
<1>3. Opening(e) = 0
  BY <1>1, <1>2 DEF Opening
<1>4. ReasoningOf(kind, TRUE, e) = <<>>
  BY <1>1, <1>3, ReasoningOfIs
<1>. QED BY <1>4 DEF e

(* A new connection.                                                       *)
LEMMA FreshThinks ==
    ASSUME setup \in Setups, generated = <<>>, parsed = NothingParsed, wire = Nothing
    PROVE  RInv
<1>1. Raw = <<>> /\ Ready(<<>>)
  BY AccumulatedNone DEF Raw, Ready
<1>2. parsed.reasoning = <<>> /\ wire.reasoning = <<>> /\ <<>> \in TextOf
  BY TextIs DEF NothingParsed, Nothing
<1>3. Thought
  <2>. SUFFICES ASSUME Parsing PROVE parsed.reasoning = ReasoningOf(setup.kind, TRUE, Raw)
    BY DEF Thought
  <2>1. setup.kind \in Kinds
    BY SetupIs DEF Parsing
  <2>. QED BY <1>1, <1>2, <2>1, NoTextNoReasoning
<1>. QED BY <1>1, <1>2, <1>3 DEF RInv, Unheld, Pondered

(* The same of the next state.                                             *)
LEMMA FreshThinksNext ==
    ASSUME setup' \in Setups, generated' = <<>>, parsed' = NothingParsed, wire' = Nothing
    PROVE  RInv'
<1>1. Raw' = <<>> /\ Ready(<<>>)
  BY AccumulatedNone DEF Raw, Ready
<1>2. parsed'.reasoning = <<>> /\ wire'.reasoning = <<>> /\ <<>> \in TextOf
  BY TextIs DEF NothingParsed, Nothing
<1>3. Thought'
  <2>. SUFFICES ASSUME Parsing' PROVE parsed'.reasoning = ReasoningOf(setup'.kind, TRUE, Raw')
    BY DEF Thought
  <2>1. setup'.kind \in Kinds
    BY ServerAssumption DEF Parsing, Setup
  <2>. QED BY <1>1, <1>2, <2>1, NoTextNoReasoning
<1>. QED BY <1>1, <1>2, <1>3 DEF RInv, Unheld, Pondered


(* It holds of a server that has just started.                             *)
LEMMA RInvInit == Init => RInv
<1>. SUFFICES ASSUME Init PROVE RInv
  OBVIOUS
<1>1. setup \in Setups /\ generated = <<>> /\ parsed = NothingParsed /\ wire = Nothing
  BY DEF Init
<1>. QED BY <1>1, FreshThinks

(* A new connection has it again.                                          *)
LEMMA AcceptThinks == SInv /\ Accept => RInv'
<1>. SUFFICES ASSUME SInv, Accept PROVE RInv'
  OBVIOUS
<1>1. setup' = setup /\ generated' = <<>> /\ parsed' = NothingParsed /\ wire' = Nothing
  BY DEF Accept
<1>2. setup' \in Setups
  BY <1>1 DEF SInv, Types
<1>. QED BY <1>1, <1>2, FreshThinksNext

(* A client that leaves has nothing to compare.                            *)
LEMMA LeaveThinks == RInv /\ (Leave \/ Stall) => RInv'
<1>. SUFFICES ASSUME RInv, Leave \/ Stall PROVE RInv'
  OBVIOUS
<1>1. step' # "accept" /\ UNCHANGED <<setup, ask, generated, parsed>>
  BY DEF Leave, Stall
<1>2. client' = "gone" \/ (client # "gone" /\ wire' = wire)
  BY DEF Leave, Stall
<1>3. ~Over'
  BY <1>1 DEF Over
<1>. QED BY <1>1, <1>2, <1>3, QuietThinks

(* Steps that neither generate nor write.                                  *)
LEMMA SteadyThinks == RInv /\ (Read \/ Reject \/ Answer \/ Start \/ Prefill \/ EndOfSequence \/ Record) => RInv'
<1>. SUFFICES ASSUME RInv, Read \/ Reject \/ Answer \/ Start \/ Prefill \/ EndOfSequence \/ Record PROVE RInv'
  OBVIOUS
<1>1. UNCHANGED <<setup, client, ask, generated, wire, parsed>>
  BY DEF Read, Reject, Answer, Start, Prefill, EndOfSequence, Record
<1>2. step' # "accept"
  BY DEF Read, Reject, Answer, Start, Prefill, EndOfSequence, Record, Respond, EndWith
<1>3. ~Over'
  BY <1>2 DEF Over
<1>. QED BY <1>1, <1>3, QuietThinks

(* The end of a stream leaves the reasoning of its client alone.           *)
LEMMA FinishThinks == SInv /\ RInv /\ Finish => RInv'
<1>. SUFFICES ASSUME SInv, RInv, Finish PROVE RInv'
  OBVIOUS
<1>1. step = "finish" /\ client' = "gone" /\ UNCHANGED <<setup, ask, generated, parsed>>
  BY DEF Finish, Close
<1>2. Wire(wire) /\ wire.ends = 0
  BY <1>1 DEF SInv, Types, Ends
<1>3. CASE client = "gone"
  <2>1. wire' = wire
    BY <1>3 DEF Finish
  <2>2. ~Over'
    BY <1>2, <2>1 DEF Over
  <2>. QED BY <1>1, <2>2, QuietThinks
<1>4. CASE client # "gone"
  <2>. DEFINE f == IF setup.api = "google" /\ result = "error" THEN wire.finish
                   ELSE FinishReason(setup.api = "openai" /\ wire.calls # <<>>)
  <2>1. wire' = [wire EXCEPT !.finish = f, !.ends = wire.ends + 1]
    BY <1>4 DEF Finish
  <2>. HIDE DEF f
  <2>2. wire'.reasoning = wire.reasoning
    BY <1>2, <2>1 DEF Wire
  <2>. QED BY <1>1, <1>4, <2>2, QuietThinks
<1>. QED BY <1>3, <1>4

(* The other ends are of requests without a stream that was parsed.        *)
LEMMA ReplyThinks == SInv /\ RInv /\ (Reply \/ WriteResponse) => RInv'
<1>. SUFFICES ASSUME SInv, RInv, Reply \/ WriteResponse PROVE RInv'
  OBVIOUS
<1>1. UNCHANGED <<setup, ask, generated, parsed>>
  BY DEF Reply, WriteResponse
<1>2. ~(Parsing /\ (client' # "gone" \/ Over'))
  <2>1. CASE Reply
    <3>1. ~ask.stream
      BY <2>1 DEF Reply, SInv, Phases
    <3>. QED BY <3>1 DEF Parsing
  <2>2. CASE WriteResponse
    <3>1. step = "respond" /\ client' = "gone" /\ result' = result
      BY <2>2 DEF WriteResponse, Close
    <3>2. ask.stream => result = "none"
      BY <3>1 DEF SInv, Phases
    <3>. QED BY <3>1, <3>2 DEF Parsing, Over
  <2>. QED BY <2>1, <2>2
<1>. QED BY <1>1, <1>2, QuietThinks

(* The reasoning of the streaming parse.                                   *)
LEMMA LiveReasoning ==
    ASSUME NEW kind, NEW t
    PROVE  /\ Live(kind, t).reasoning = ReasoningOf(kind, TRUE, t)
           /\ Whole(kind, t).reasoning = ReasoningOf(kind, FALSE, t)
BY DEF Live, Whole, Parse, ReasoningOf

(* A token that is parsed and written reaches the client that follows.     *)
LEMMA TokenHeard ==
    ASSUME SInv, RInv, NEW t \in TextOf, Raw \in TextOf, Alone(t), WholeMarkers,
           Parsing, ask.chat, client # "gone",
           parsed' = Live(setup.kind, Raw \o t)
    PROVE  LET x == Delivered(wire, Push(parsed, parsed')).reasoning
           IN  /\ x \in TextOf
               /\ Printed(x) = Printed(parsed'.reasoning)
               /\ ~Lines(setup.kind, Raw \o t) => x = parsed'.reasoning
<1>. DEFINE kind == setup.kind
            a == Raw
            b == a \o t
            r == ReasoningOf(kind, TRUE, a)
            s == ReasoningOf(kind, TRUE, b)
            i == Lines(kind, a)
            j == Lines(kind, b)
            x == wire.reasoning
<1>1. kind \in Kinds /\ Wire(wire)
  BY SetupIs DEF SInv, Types, Parsing
<1>2. a \in TextOf
  OBVIOUS
<1>3. b \in TextOf
  <2>. HIDE DEF a
  <2>. QED BY <1>2, ConcatProperties, TextIs
<1>4. parsed.reasoning = r /\ parsed'.reasoning = s /\ parsed.calls = Live(kind, a).calls
  BY LiveReasoning DEF SInv, Followed, RInv, Thought
<1>5. x \in TextOf /\ Printed(x) = Printed(r) /\ (~i => x = r)
  BY <1>4 DEF RInv, Pondered
<1>6. Ready(a)
  BY DEF RInv, Unheld
<1>7. UpToDate(wire, parsed)
  BY DEF SInv, Shown, UpToDate
<1>8. parsed' = Live(kind, b)
  OBVIOUS
<1>. HIDE DEF kind, a, x
<1>9. Lengthens(parsed, parsed')
  <2>1. PICK v \in Seq(Call) : Live(kind, a \o t).calls = Live(kind, a).calls \o v
    BY <1>1, <1>2, LiveGrows
  <2>2. Live(kind, a).calls \in Seq(Call)
    BY <1>1, <1>2, LiveCalls
  <2>. QED BY <1>4, <1>8, <2>1, <2>2 DEF Lengthens
<1>10. Delivered(wire, Push(parsed, parsed')).reasoning = Gained(x, r, s)
  <2>1. Delivered(wire, Push(parsed, parsed')).reasoning
          = Gained(wire.reasoning, parsed.reasoning, parsed'.reasoning)
    BY <1>1, <1>7, <1>9, PushKeepsUp
  <2>. QED BY <1>4, <2>1 DEF x
<1>11. Gains(i, r, s)
  BY <1>1, <1>2, <1>6, ReasoningGains
<1>12. i => j
  BY <1>2, LinesGrow
<1>13. r \in TextOf /\ s \in TextOf
  BY <1>1, <1>2, <1>3, ReasoningOfIs
<1>. HIDE DEF r, s, i, j, b
<1>14. /\ Gained(x, r, s) \in TextOf
       /\ Printed(Gained(x, r, s)) = Printed(s)
       /\ ~j => Gained(x, r, s) = s
  BY <1>5, <1>11, <1>12, <1>13, GainedIs
<1>. QED BY <1>4, <1>10, <1>14 DEF j, b, a, kind

(* A token is whole when the tokens up to it are.                          *)
LEMMA WholeToken ==
    ASSUME generated \in Seq(TokenOf), NEW t \in TokenOf, generated' = Append(generated, t), setup' = setup,
           WholeMarkers'
    PROVE  WholeMarkers /\ Alone(Piece(setup.decoder, t))
<1>. DEFINE e == Piece(setup.decoder, t)
<1>1. /\ generated' \in Seq(TokenOf) /\ DOMAIN generated' = 1 .. Len(generated) + 1 /\ Len(generated) \in Nat
      /\ DOMAIN generated = 1 .. Len(generated)
      /\ generated'[Len(generated) + 1] = t
      /\ \A n \in 1 .. Len(generated) : generated'[n] = generated[n]
  <2>1. Append(generated, t) \in Seq(TokenOf) /\ Len(Append(generated, t)) = Len(generated) + 1
        /\ \A n \in 1 .. Len(generated) : Append(generated, t)[n] = generated[n]
        /\ Append(generated, t)[Len(generated) + 1] = t
    BY AppendProperties
  <2>. QED BY <2>1
<1>2. WholeMarkers
  <2>1. \A n \in DOMAIN generated : n \in DOMAIN generated' /\ generated'[n] = generated[n]
    BY <1>1
  <2>. QED BY <2>1 DEF WholeMarkers
<1>3. DOMAIN e = 1 .. Len(e)
  BY PieceIs, TextIs
<1>4. Alone(e)
  <2>1. Len(generated) + 1 \in DOMAIN generated'
    BY <1>1
  <2>2. Piece(setup'.decoder, generated'[Len(generated) + 1]) = e
    BY <1>1
  <2>. HIDE DEF e
  <2>. QED BY <1>3, <2>1, <2>2 DEF WholeMarkers, Alone
<1>. QED BY <1>2, <1>4

(* A token is parsed and written.                                          *)
LEMMA TokenThinks == MInv /\ SInv /\ RInv /\ Token => RInv'
<1>. SUFFICES ASSUME MInv, SInv, RInv, Token PROVE RInv'
  OBVIOUS
<1>1. step = "decode" /\ UNCHANGED <<setup, client, ask, status>>
  BY DEF Token
<1>2. PICK t \in setup.vocabulary :
        /\ generated' = Append(generated, t)
        /\ parsed' = IF ask.stream /\ setup.api = "openai" /\ setup.kind # "none"
                     THEN Live(setup.kind, Accumulated(setup.decoder, generated')) ELSE parsed
        /\ wire' = IF client = "gone" THEN wire
                   ELSE Delivered(wire, IF ask.stream THEN Events(Piece(setup.decoder, t)) ELSE <<>>)
        /\ \/ EndWith("stop") \/ EndWith("length") \/ EndWith("error")
           \/ UNCHANGED <<step, result>>
  BY DEF Token, Delivered
<1>3. step' # "accept" /\ ~Over'
  BY <1>1, <1>2 DEF EndWith, Over
<1>. DEFINE e == Piece(setup.decoder, t)
<1>4. generated \in Seq(TokenOf) /\ t \in TokenOf /\ e \in TextOf
  BY <1>1, <1>2, RawGrows DEF SInv
<1>5. Raw \in TextOf /\ Raw' = Raw \o e /\ Raw' = Accumulated(setup.decoder, generated')
  BY <1>1, <1>2, RawGrows DEF SInv
<1>6. WholeMarkers' => WholeMarkers /\ Alone(e)
  BY <1>1, <1>2, <1>4, WholeToken
<1>. HIDE DEF e
<1>7. Unheld'
  <2>1. WholeMarkers' => Ready(Raw \o e)
    BY <1>4, <1>5, <1>6, ReadyGrows DEF RInv, Unheld
  <2>. QED BY <1>5, <2>1 DEF Unheld
<1>8. Thought'
  <2>1. Parsing' => parsed' = Live(setup.kind, Raw')
    BY <1>1, <1>2, <1>5 DEF Parsing
  <2>. QED BY <1>1, <2>1, LiveReasoning DEF Thought
<1>9. Pondered'
  <2>. SUFFICES ASSUME Parsing', ask'.chat, client' # "gone", WholeMarkers'
                PROVE  /\ wire'.reasoning \in TextOf
                       /\ Printed(wire'.reasoning) = Printed(parsed'.reasoning)
                       /\ ~Lines(setup'.kind, Raw') => wire'.reasoning = parsed'.reasoning
    BY <1>3 DEF Pondered
  <2>1. Parsing /\ ask.chat /\ client # "gone" /\ WholeMarkers /\ Alone(e)
    BY <1>1, <1>6 DEF Parsing
  <2>2. parsed' = Live(setup.kind, Raw \o e)
    BY <1>2, <1>5, <2>1 DEF Parsing
  <2>3. wire' = Delivered(wire, Push(parsed, parsed'))
    BY <1>2, <2>1 DEF Parsing, Events
  <2>4. setup'.kind = setup.kind /\ Raw' = Raw \o e
    BY <1>1, <1>5
  <2>. QED BY <1>4, <1>5, <2>1, <2>2, <2>3, <2>4, TokenHeard
<1>. QED BY <1>7, <1>8, <1>9 DEF RInv

(* Of every server, vocabulary and history of requests: what a client of a *)
(* stream has of the reasoning is what the parse of the answer so far has, *)
(* but for white space at the beginning of a body, as long as no token     *)
(* carries a part of a marker or a marker and more.                        *)
THEOREM ReasoningInvariant == Spec => []RInv
<1>1. MInv /\ SInv /\ RInv /\ [Next]_vars => RInv'
  <2>. SUFFICES ASSUME MInv, SInv, RInv, [Next]_vars PROVE RInv'
    OBVIOUS
  <2>1. CASE UNCHANGED vars
    BY <2>1 DEF vars, RInv, Thought, Unheld, Pondered, WholeMarkers, Over, Parsing, Raw
  <2>. QED BY <2>1, AcceptThinks, LeaveThinks, SteadyThinks, TokenThinks, FinishThinks, ReplyThinks DEF Next, Serve
<1>. QED BY <1>1, RInvInit, ServerInvariant, AnswersInvariant, PTL DEF Spec

(* What a client has put together of the reasoning when a stream ends is   *)
(* that of the plain response (of the pieces, where a token cuts a         *)
(* character), but for white space with which a body begins, for every     *)
(* tokenizer, vocabulary and answer with however many channels             *)
(* (chat_parse.rs, push): although a body that is not closed yet is read   *)
(* again at every token, and joined with those before it.                  *)
THEOREM StreamedReasoningSafe == Spec => []StreamedReasoning
<1>1. ASSUME MInv, SInv, RInv PROVE StreamedReasoning
  <2>. DEFINE kind == setup.kind
              t == Raw
  <2>. SUFFICES ASSUME Streamed, ask.chat, Settled, WholeMarkers
                PROVE  /\ Printed(wire.reasoning) = Printed(Whole(kind, Answered).reasoning)
                       /\ ~Indented => wire.reasoning = Whole(kind, Answered).reasoning
    BY DEF StreamedReasoning
  <2>1. kind \in Kinds /\ t \in TextOf /\ Answered = t
    BY <1>1, GeneratedIs, SetupIs, RawIs, AnsweredIs DEF SInv, Types, Streamed
  <2>2. Over /\ Parsing
    BY DEF Streamed, Over, Parsing
  <2>3. Closed(kind, t)
    BY <2>1 DEF Settled, Closed
  <2>4. /\ parsed.reasoning = ReasoningOf(kind, TRUE, t)
        /\ Printed(wire.reasoning) = Printed(parsed.reasoning)
        /\ ~Indented => wire.reasoning = parsed.reasoning
    BY <1>1, <2>1, <2>2 DEF RInv, Thought, Pondered, Indented, Lines
  <2>. HIDE DEF kind, t
  <2>5. Whole(kind, t).reasoning = ReasoningOf(kind, TRUE, t)
    BY <2>1, <2>3, ReasoningClosed, LiveReasoning
  <2>. QED BY <2>1, <2>4, <2>5
<1>. QED BY <1>1, ServerInvariant, AnswersInvariant, ReasoningInvariant, PTL

-----------------------------------------------------------------------------
(* The text a client has put together.                                     *)

(* The answer so far has no marker of another speaker's turn and no "<" in *)
(* front of another.                                                       *)
Unspoiled == Clean(setup.kind, Raw)

(* The text of the last parse is that of the answer so far.                *)
Seen == Parsing => parsed.content = Live(setup.kind, Raw).content

(* The client has the text of the last parse.                              *)
Heard == Parsing /\ (client # "gone" \/ Over) /\ Unspoiled => wire.text = parsed.content

(* The invariant.                                                          *)
TInv == Seen /\ Heard

(* What StreamedText leaves out is what Unspoiled leaves out.              *)
LEMMA UnspoiledIs ==
    ASSUME Answered = Raw
    PROVE  Unspoiled <=> ~Overshoots /\ ~Doubled
BY DEF Unspoiled, Clean, Free, Twice, Overshoots, Doubled

(* A step that leaves the answer and the text of the client alone.         *)
LEMMA QuietText ==
    ASSUME TInv, UNCHANGED <<setup, ask, generated, parsed>>,
           Parsing /\ (client' # "gone" \/ Over') => client # "gone" /\ wire'.text = wire.text
    PROVE  TInv'
<1>1. Seen'
  BY DEF TInv, Seen, Parsing, Raw
<1>2. Heard'
  BY DEF TInv, Heard, Parsing, Unspoiled, Raw
<1>. QED BY <1>1, <1>2 DEF TInv

(* The empty text says nothing.                                            *)
LEMMA NoTextNoContent ==
    ASSUME NEW kind \in Kinds
    PROVE  Live(kind, <<>>).content = <<>>
<1>. DEFINE e == <<>>
<1>1. e \in TextOf /\ e \in Seq(Char) /\ Len(e) = 0 /\ Ready(e) /\ Ink(e) = {}
  BY TextIs DEF Ready, Ink
<1>2. TrimEnd(e) = e
  <2>1. Ink(e) \cup {0} = {0}
    BY <1>1
  <2>2. Max({0}) = 0
    <3>1. {0} \subseteq 0 .. 0 /\ {0} # {} /\ 0 \in Nat
      OBVIOUS
    <3>2. Max({0}) \in {0}
      BY <3>1, MaxIs
    <3>. QED BY <3>2
  <2>3. SubSeq(e, 1, 0) = <<>>
    BY SubSeqEmpty
  <2>. QED BY <2>1, <2>2, <2>3 DEF TrimEnd
<1>. HIDE DEF e
<1>3. ASSUME NEW m PROVE Find(e, m) = 0 /\ Free(e, m)
  <2>1. Find(e, m) \in 0 .. Len(e)
    BY <1>1, FindIs
  <2>2. Find(e, m) = 0
    BY <1>1, <2>1
  <2>. QED BY <1>1, <2>2, FreeIs
<1>4. Find(e, ThinkOpen) = 0 /\ Find(e, CallOpen) = 0 /\ Clean(kind, e)
  BY <1>3 DEF Clean
<1>5. ContentOf(kind, TRUE, e) = e
  BY <1>1, <1>4, ContentOfIs DEF Opening
<1>6. HoldBack(e) = e
  BY <1>1, HoldsOpens
<1>7. Said(kind, TRUE, e) = e
  BY <1>1, <1>4, SaidIs
<1>8. Base(kind, e) = e
  BY <1>5, <1>6, <1>7 DEF Base
<1>9. Strip(kind, e) = e
  <2>1. ASSUME NEW m, m[1] = "<" PROVE StripMarker(e, m) = e
    BY <1>1, <1>3, <2>1, StripIs
  <2>2. /\ CallOpen[1] = "<" /\ CallClose[1] = "<" /\ TurnOpen[1] = "<" /\ TurnClose[1] = "<"
        /\ ThinkOpen[1] = "<" /\ ThinkClose[1] = "<"
    BY DEF CallOpen, CallClose, TurnOpen, TurnClose, ThinkOpen, ThinkClose
  <2>3. /\ StripMarker(e, CallOpen) = e /\ StripMarker(e, CallClose) = e
        /\ StripMarker(e, TurnOpen) = e /\ StripMarker(e, TurnClose) = e
        /\ StripMarker(e, ThinkOpen) = e /\ StripMarker(e, ThinkClose) = e
    BY <2>1, <2>2
  <2>. QED BY <2>3 DEF Strip, StripCalls, StripTurns
<1>10. Live(kind, e).content = TrimEnd(Strip(kind, Base(kind, e)))
  BY <1>1, <1>4, LiveText
<1>11. Live(kind, e).content = e
  BY <1>2, <1>8, <1>9, <1>10
<1>. QED BY <1>11 DEF e

(* The content of a finished answer is text.                               *)
LEMMA WholeTextIs ==
    ASSUME NEW kind \in Kinds, NEW t \in TextOf
    PROVE  Whole(kind, t).content \in TextOf
<1>. DEFINE w == ContentOf(kind, FALSE, t)
            s == Said(kind, FALSE, w)
            calls == CallsOf(kind, FALSE, w)
<1>1. w \in TextOf
  BY ContentOfIs
<1>. HIDE DEF w
<1>2. s \in TextOf
  BY <1>1, SaidIs
<1>4. Overshoot(kind, calls, s) \in TextOf
  <2>. HIDE DEF s, calls
  <2>. QED BY <1>2, OvershootText
<1>5. Whole(kind, t).content = Trim(Strip(kind, Overshoot(kind, calls, s)))
  BY WholeText DEF w
<1>. DEFINE o == Overshoot(kind, calls, s)
            p == Strip(kind, o)
<1>6. o \in TextOf /\ Whole(kind, t).content = Trim(p)
  BY <1>4, <1>5
<1>. HIDE DEF o
<1>7. p \in TextOf
  BY <1>6, StripText
<1>. HIDE DEF p
<1>8. Trim(p) \in TextOf
  BY <1>7, TrimTwice
<1>. QED BY <1>6, <1>8

(* A new connection.                                                       *)
LEMMA FreshText ==
    ASSUME setup \in Setups, generated = <<>>, parsed = NothingParsed, wire = Nothing
    PROVE  TInv
<1>1. Raw = <<>>
  BY AccumulatedNone DEF Raw
<1>2. parsed.content = <<>> /\ wire.text = <<>>
  BY DEF NothingParsed, Nothing
<1>3. Seen
  <2>. SUFFICES ASSUME Parsing PROVE parsed.content = Live(setup.kind, Raw).content
    BY DEF Seen
  <2>1. setup.kind \in Kinds
    BY SetupIs DEF Parsing
  <2>. QED BY <1>1, <1>2, <2>1, NoTextNoContent
<1>. QED BY <1>2, <1>3 DEF TInv, Heard

(* The same of the next state.                                             *)
LEMMA FreshTextNext ==
    ASSUME setup' \in Setups, generated' = <<>>, parsed' = NothingParsed, wire' = Nothing
    PROVE  TInv'
<1>1. Raw' = <<>>
  BY AccumulatedNone DEF Raw
<1>2. parsed'.content = <<>> /\ wire'.text = <<>>
  BY DEF NothingParsed, Nothing
<1>3. Seen'
  <2>. SUFFICES ASSUME Parsing' PROVE parsed'.content = Live(setup'.kind, Raw').content
    BY DEF Seen
  <2>1. setup'.kind \in Kinds
    BY ServerAssumption DEF Parsing, Setup
  <2>. QED BY <1>1, <1>2, <2>1, NoTextNoContent
<1>. QED BY <1>2, <1>3 DEF TInv, Heard

(* It holds of a server that has just started.                             *)
LEMMA TInvInit == Init => TInv
<1>. SUFFICES ASSUME Init PROVE TInv
  OBVIOUS
<1>1. setup \in Setups /\ generated = <<>> /\ parsed = NothingParsed /\ wire = Nothing
  BY DEF Init
<1>. QED BY <1>1, FreshText

(* A new connection has it again.                                          *)
LEMMA AcceptText == SInv /\ Accept => TInv'
<1>. SUFFICES ASSUME SInv, Accept PROVE TInv'
  OBVIOUS
<1>1. setup' = setup /\ generated' = <<>> /\ parsed' = NothingParsed /\ wire' = Nothing
  BY DEF Accept
<1>2. setup' \in Setups
  BY <1>1 DEF SInv, Types
<1>. QED BY <1>1, <1>2, FreshTextNext

(* A client that leaves has nothing to compare.                            *)
LEMMA LeaveText == TInv /\ (Leave \/ Stall) => TInv'
<1>. SUFFICES ASSUME TInv, Leave \/ Stall PROVE TInv'
  OBVIOUS
<1>1. step' # "accept" /\ UNCHANGED <<setup, ask, generated, parsed>>
  BY DEF Leave, Stall
<1>2. client' = "gone" \/ (client # "gone" /\ wire' = wire)
  BY DEF Leave, Stall
<1>3. ~Over'
  BY <1>1 DEF Over
<1>. QED BY <1>1, <1>2, <1>3, QuietText

(* Steps that neither generate nor write.                                  *)
LEMMA SteadyText == TInv /\ (Read \/ Reject \/ Answer \/ Start \/ Prefill \/ EndOfSequence \/ Record) => TInv'
<1>. SUFFICES ASSUME TInv, Read \/ Reject \/ Answer \/ Start \/ Prefill \/ EndOfSequence \/ Record PROVE TInv'
  OBVIOUS
<1>1. UNCHANGED <<setup, client, ask, generated, wire, parsed>>
  BY DEF Read, Reject, Answer, Start, Prefill, EndOfSequence, Record
<1>2. step' # "accept"
  BY DEF Read, Reject, Answer, Start, Prefill, EndOfSequence, Record, Respond, EndWith
<1>3. ~Over'
  BY <1>2 DEF Over
<1>. QED BY <1>1, <1>3, QuietText

(* The end of a stream leaves the text of its client alone.                *)
LEMMA FinishText == SInv /\ TInv /\ Finish => TInv'
<1>. SUFFICES ASSUME SInv, TInv, Finish PROVE TInv'
  OBVIOUS
<1>1. step = "finish" /\ client' = "gone" /\ UNCHANGED <<setup, ask, generated, parsed>>
  BY DEF Finish, Close
<1>2. Wire(wire) /\ wire.ends = 0
  BY <1>1 DEF SInv, Types, Ends
<1>3. CASE client = "gone"
  <2>1. wire' = wire
    BY <1>3 DEF Finish
  <2>2. ~Over'
    BY <1>2, <2>1 DEF Over
  <2>. QED BY <1>1, <2>2, QuietText
<1>4. CASE client # "gone"
  <2>. DEFINE f == IF setup.api = "google" /\ result = "error" THEN wire.finish
                   ELSE FinishReason(setup.api = "openai" /\ wire.calls # <<>>)
  <2>1. wire' = [wire EXCEPT !.finish = f, !.ends = wire.ends + 1]
    BY <1>4 DEF Finish
  <2>. HIDE DEF f
  <2>2. wire'.text = wire.text
    BY <1>2, <2>1 DEF Wire
  <2>. QED BY <1>1, <1>4, <2>2, QuietText
<1>. QED BY <1>3, <1>4

(* The other ends are of requests without a stream that was parsed.        *)
LEMMA ReplyText == SInv /\ TInv /\ (Reply \/ WriteResponse) => TInv'
<1>. SUFFICES ASSUME SInv, TInv, Reply \/ WriteResponse PROVE TInv'
  OBVIOUS
<1>1. UNCHANGED <<setup, ask, generated, parsed>>
  BY DEF Reply, WriteResponse
<1>2. ~(Parsing /\ (client' # "gone" \/ Over'))
  <2>1. CASE Reply
    <3>1. ~ask.stream
      BY <2>1 DEF Reply, SInv, Phases
    <3>. QED BY <3>1 DEF Parsing
  <2>2. CASE WriteResponse
    <3>1. step = "respond" /\ client' = "gone" /\ result' = result
      BY <2>2 DEF WriteResponse, Close
    <3>2. ask.stream => result = "none"
      BY <3>1 DEF SInv, Phases
    <3>. QED BY <3>1, <3>2 DEF Parsing, Over
  <2>. QED BY <2>1, <2>2
<1>. QED BY <1>1, <1>2, QuietText

(* A token that is parsed and written reaches the client that follows.     *)
LEMMA TokenSaid ==
    ASSUME SInv, TInv, NEW t \in TextOf, Raw \in TextOf, Parsing, client # "gone",
           Clean(setup.kind, Raw \o t),
           parsed' = Live(setup.kind, Raw \o t),
           NEW writes,
           writes = IF ask.chat THEN Push(parsed, parsed') ELSE TextEvents(parsed, parsed')
    PROVE  Delivered(wire, writes).text = parsed'.content
<1>. DEFINE kind == setup.kind
            a == Raw
            r == Live(kind, a).content
            s == Live(kind, a \o t).content
<1>1. kind \in Kinds /\ Wire(wire)
  BY SetupIs DEF SInv, Types, Parsing
<1>2. a \in TextOf
  OBVIOUS
<1>3. parsed.content = r /\ parsed.calls = Live(kind, a).calls
  BY DEF SInv, Followed, TInv, Seen
<1>4. parsed'.content = s /\ parsed' = Live(kind, a \o t) /\ Clean(kind, a \o t)
  OBVIOUS
<1>5. ask.chat => UpToDate(wire, parsed)
  BY DEF SInv, Shown, UpToDate
<1>6. Unspoiled <=> Clean(kind, a)
  BY DEF Unspoiled
<1>7. Unspoiled => wire.text = r
  BY <1>3 DEF TInv, Heard
<1>. HIDE DEF kind, a
<1>8. Clean(kind, a)
  BY <1>2, <1>4, CleanParts
<1>9. wire.text = r
  BY <1>6, <1>7, <1>8
<1>10. Begins(r, s)
  BY <1>1, <1>2, <1>4, LiveTextGrows
<1>11. r \in TextOf
  BY <1>1, <1>2, <1>8, LiveTextIs
<1>12. s \in TextOf
  <2>. DEFINE z == a \o t
  <2>1. z \in TextOf /\ Clean(kind, z)
    BY <1>2, <1>4, TextConcat
  <2>. HIDE DEF z
  <2>2. Live(kind, z).content \in TextOf
    BY <1>1, <2>1, LiveTextIs
  <2>. QED BY <2>2 DEF z
<1>. HIDE DEF r, s
<1>13. Sent(r, r, s) = s
  BY <1>10, <1>11, <1>12, SentIs
<1>14. CASE ask.chat
  <2>1. Lengthens(parsed, parsed')
    <3>1. PICK v \in Seq(Call) : Live(kind, a \o t).calls = Live(kind, a).calls \o v
      BY <1>1, <1>2, LiveGrows
    <3>2. Live(kind, a).calls \in Seq(Call)
      BY <1>1, <1>2, LiveCalls
    <3>. QED BY <1>3, <1>4, <3>1, <3>2 DEF Lengthens
  <2>2. UpToDate(wire, parsed)
    BY <1>5, <1>14
  <2>3. Delivered(wire, Push(parsed, parsed')).text = Sent(wire.text, parsed.content, parsed'.content)
    BY <1>1, <2>1, <2>2, PushKeepsUp
  <2>. QED BY <1>3, <1>4, <1>9, <1>13, <1>14, <2>3
<1>15. CASE ~ask.chat
  <2>1. Delivered(wire, TextEvents(parsed, parsed')).text = Sent(wire.text, parsed.content, parsed'.content)
    BY <1>1, TextHeard
  <2>. QED BY <1>3, <1>4, <1>9, <1>13, <1>15, <2>1
<1>. QED BY <1>14, <1>15

(* A token is parsed and written.                                          *)
LEMMA TokenText == MInv /\ SInv /\ TInv /\ Token => TInv'
<1>. SUFFICES ASSUME MInv, SInv, TInv, Token PROVE TInv'
  OBVIOUS
<1>1. step = "decode" /\ UNCHANGED <<setup, client, ask, status>>
  BY DEF Token
<1>2. PICK t \in setup.vocabulary :
        /\ generated' = Append(generated, t)
        /\ parsed' = IF ask.stream /\ setup.api = "openai" /\ setup.kind # "none"
                     THEN Live(setup.kind, Accumulated(setup.decoder, generated')) ELSE parsed
        /\ wire' = IF client = "gone" THEN wire
                   ELSE Delivered(wire, IF ask.stream THEN Events(Piece(setup.decoder, t)) ELSE <<>>)
        /\ \/ EndWith("stop") \/ EndWith("length") \/ EndWith("error")
           \/ UNCHANGED <<step, result>>
  BY DEF Token, Delivered
<1>3. step' # "accept" /\ ~Over'
  BY <1>1, <1>2 DEF EndWith, Over
<1>. DEFINE e == Piece(setup.decoder, t)
<1>4. e \in TextOf
  BY <1>1, <1>2, RawGrows DEF SInv
<1>5. Raw \in TextOf /\ Raw' = Raw \o e /\ Raw' = Accumulated(setup.decoder, generated')
  BY <1>1, <1>2, RawGrows DEF SInv
<1>. HIDE DEF e
<1>6. Seen'
  <2>1. Parsing' => parsed' = Live(setup.kind, Raw')
    BY <1>1, <1>2, <1>5 DEF Parsing
  <2>. QED BY <1>1, <2>1 DEF Seen
<1>7. Heard'
  <2>. SUFFICES ASSUME Parsing', client' # "gone", Unspoiled' PROVE wire'.text = parsed'.content
    BY <1>3 DEF Heard
  <2>1. Parsing /\ client # "gone"
    BY <1>1 DEF Parsing
  <2>2. parsed' = Live(setup.kind, Raw \o e)
    BY <1>2, <1>5, <2>1 DEF Parsing
  <2>3. Clean(setup.kind, Raw \o e)
    BY <1>1, <1>5 DEF Unspoiled
  <2>. DEFINE writes == IF ask.chat THEN Push(parsed, parsed') ELSE TextEvents(parsed, parsed')
  <2>4. wire' = Delivered(wire, writes)
    BY <1>2, <2>1 DEF Parsing, Events
  <2>5. writes = IF ask.chat THEN Push(parsed, parsed') ELSE TextEvents(parsed, parsed')
    OBVIOUS
  <2>. HIDE DEF writes
  <2>6. Delivered(wire, writes).text = parsed'.content
    BY <1>4, <1>5, <2>1, <2>2, <2>3, <2>5, TokenSaid
  <2>. QED BY <2>4, <2>6
<1>. QED BY <1>6, <1>7 DEF TInv

(* Of every server, vocabulary and history of requests: the text a client  *)
(* of a stream has is exactly that of the parse of the answer so far, as   *)
(* long as nothing takes text back: however the tokens cut the markers,    *)
(* the calls and the channels.                                             *)
THEOREM TextInvariant == Spec => []TInv
<1>1. MInv /\ SInv /\ TInv /\ [Next]_vars => TInv'
  <2>. SUFFICES ASSUME MInv, SInv, TInv, [Next]_vars PROVE TInv'
    OBVIOUS
  <2>1. CASE UNCHANGED vars
    BY <2>1 DEF vars, TInv, Seen, Heard, Unspoiled, Over, Parsing, Raw
  <2>. QED BY <2>1, AcceptText, LeaveText, SteadyText, TokenText, FinishText, ReplyText DEF Next, Serve
<1>. QED BY <1>1, TInvInit, ServerInvariant, AnswersInvariant, PTL DEF Spec

(* What a client has put together from the text chunks when a stream ends  *)
(* is, but for white space at its ends, the beginning of what the plain    *)
(* response says (the parse of the pieces, where a token cuts a            *)
(* character), and all of it when nothing was held back                    *)
(* (chat_parse.rs, push): no piece is lost, repeated or out of place, for  *)
(* every tokenizer, vocabulary and answer, of a chat or of a completion.   *)
THEOREM StreamedTextSafe == Spec => []StreamedText
<1>1. ASSUME MInv, SInv, TInv PROVE StreamedText
  <2>. DEFINE kind == setup.kind
              t == Raw
              r == Live(kind, t).content
              w == Whole(kind, t).content
  <2>. SUFFICES ASSUME Streamed, ~Overshoots, ~Doubled
                PROVE  LET content == Whole(kind, Answered).content
                       IN  IsPrefix(Trim(wire.text), content) /\ (Settled => Trim(wire.text) = content)
    BY DEF StreamedText
  <2>1. kind \in Kinds /\ t \in TextOf /\ Answered = t
    BY <1>1, GeneratedIs, SetupIs, RawIs, AnsweredIs DEF SInv, Types, Streamed
  <2>2. Over /\ Parsing /\ Unspoiled
    BY <2>1, UnspoiledIs DEF Streamed, Over, Parsing
  <2>3. Clean(kind, t)
    BY <2>2 DEF Unspoiled
  <2>4. wire.text = r
    BY <1>1, <2>2 DEF TInv, Seen, Heard
  <2>5. Settled => /\ Closed(kind, t) /\ CallsClosed(ContentOf(kind, FALSE, t))
                   /\ w # <<>> => Last(w) # "<"
    BY <2>1 DEF Settled, Closed, CallsClosed, ContentOf
  <2>6. r \in TextOf /\ w \in TextOf
    <3>. HIDE DEF kind, t
    <3>. QED BY <2>1, <2>3, LiveTextIs, WholeTextIs
  <2>. HIDE DEF kind, t
  <2>7. Begins(Trim(r), w)
    BY <2>1, <2>3, WholeTextBegins
  <2>8. Trim(r) \in TextOf
    <3>. HIDE DEF r
    <3>. QED BY <2>6, TrimTwice
  <2>9. IsPrefix(Trim(r), w)
    <3>. DEFINE x == Trim(r)
    <3>1. x \in TextOf /\ w \in TextOf /\ Begins(x, w)
      BY <2>6, <2>7, <2>8
    <3>. HIDE DEF x, w
    <3>2. IsPrefix(x, w)
      BY <3>1, BeginsIs
    <3>. QED BY <3>2 DEF x
  <2>10. Settled => Trim(r) = w
    BY <2>1, <2>3, <2>5, WholeTextSettled
  <2>. QED BY <2>1, <2>4, <2>9, <2>10
<1>. QED BY <1>1, ServerInvariant, AnswersInvariant, TextInvariant, PTL

=============================================================================
