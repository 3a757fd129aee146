------------------------- MODULE HostWeights_proofs -------------------------
(***************************************************************************)
(* Weights in host memory: the arena they are read into (PinnedArena) and  *)
(* the ring of slots they are streamed through (StagingPool).              *)
(*                                                                         *)
(* For every number of slots, every set of linears and every number of     *)
(* calls: a kernel of StagingPool reads its own weights, and the fences    *)
(* are as old as the ring is long.                                         *)
(*                                                                         *)
(* An operation keeps the number it was issued with while the operations   *)
(* in front of it are done, so the invariant speaks of numbers: Transfer(n)*)
(* is operation n of the transfer stream, for n in Waiting("transfer"),    *)
(* and Compute(a) that of the compute stream.                              *)
(*                                                                         *)
(* For every set of workers, every size and every capacity, the ranges     *)
(* PinnedArena hands out are disjoint and the pinned prefix covers them.   *)
(*                                                                         *)
(* The roll-back stores a value that other workers may long have passed,   *)
(* so it has to be shown that it never uncovers a range.  A store that     *)
(* matters comes from a LOW pending reservation, one that started within   *)
(* the capacity; there is at most one, because while it is pending `used`  *)
(* is beyond the capacity and nothing else can succeed or become low.      *)
(***************************************************************************)
EXTENDS StagingPool, PinnedArena, TLAPS

-----------------------------------------------------------------------------
(* The ring of slots.                                                      *)

Waiting(st) == done[st] + 1 .. issued[st]
Transfers == Waiting("transfer")
Computes  == Waiting("compute")
Transfer(n) == queue["transfer"][n - done["transfer"]]
Compute(a)  == queue["compute"][a - done["compute"]]

Waits(on) == [op : {"wait"}, on : {on}, until : Nat]
Copies    == [op : {"copy"}, slot : Slots, buffer : Buffers, call : 1 .. MaxCalls]
Kernels   == [op : {"kernel"}, slot : Slots, buffers : SUBSET Buffers, call : 1 .. MaxCalls]

IsFence(n)  == Transfer(n).op = "wait"
IsCopy(n)   == Transfer(n).op = "copy"
Into(n, s, b) == IsCopy(n) /\ Transfer(n).slot = s /\ Transfer(n).buffer = b
IsAwait(a)  == Compute(a).op = "wait"
IsKernel(a) == Compute(a).op = "kernel"

(* Types, and what is behind the present in number.                        *)
QType ==
    /\ TypeOK
    /\ linear \in Linears
    /\ queue["transfer"] \in Seq(Waits("compute") \cup Copies)
    /\ queue["compute"] \in Seq(Waits("transfer") \cup Kernels)
    /\ DOMAIN queue = Streams
    /\ done \in [Streams -> Nat]
    /\ pc # "idle" => call >= 1

Bounded ==
    /\ \A n \in Transfers : IsFence(n) => Transfer(n).until <= issued["compute"]
    /\ \A n \in Transfers : IsCopy(n) => Transfer(n).call <= call
    /\ \A a \in Computes : IsAwait(a) => Compute(a).until <= issued["transfer"]
    /\ \A a \in Computes : IsKernel(a) => Compute(a).call <= call
    /\ \A s \in Slots : compute_event[s] <= issued["compute"]

(* What has started is no wait.                                            *)
Started ==
    /\ busy["transfer"] => \E n \in Transfers : n = done["transfer"] + 1 /\ IsCopy(n)
    /\ busy["compute"] => \E a \in Computes : a = done["compute"] + 1 /\ IsKernel(a)

(* A kernel at a will find the weights of call c in buffer b of slot s:    *)
(* either the copy is still to be done, and a wait in front of the kernel  *)
(* is for it, or it is done, and what is to be copied there is younger.    *)
Awaited(a, s, b, c) ==
    \E n \in Transfers, w \in Computes :
        /\ Into(n, s, b) /\ Transfer(n).call = c
        /\ IsAwait(w) /\ w < a /\ n <= Compute(w).until
Arrived(s, b, c) ==
    /\ content[s][b] = c
    /\ \A n \in Transfers : Into(n, s, b) => Transfer(n).call > c
Ready(a, s, b, c) == Awaited(a, s, b, c) \/ Arrived(s, b, c)

KernelsReady ==
    \A a \in Computes : IsKernel(a) =>
        \A b \in Compute(a).buffers : Ready(a, Compute(a).slot, b, Compute(a).call)
NextReady ==
    pc = "launch" =>
        \A b \in Views(last_prepared_slot) : Ready(issued["compute"] + 1, last_prepared_slot, b, call)

(* In front of a copy into a slot there is a fence for every older kernel  *)
(* that still reads the slot, and there will be for the native copy.       *)
FencedFor(n, a) == \E m \in Transfers : IsFence(m) /\ m < n /\ a <= Transfer(m).until
FencedSoFar(a)  == \E m \in Transfers : IsFence(m) /\ a <= Transfer(m).until
Fenced ==
    \A n \in Transfers, a \in Computes :
        /\ IsCopy(n) /\ IsKernel(a) /\ Transfer(n).slot = Compute(a).slot
        /\ Compute(a).call < Transfer(n).call
        => FencedFor(n, a)
NativeFenced ==
    pc = "native" =>
        /\ linear.native
        /\ \A a \in Computes : IsKernel(a) =>
              /\ Compute(a).call < call
              /\ Compute(a).slot = last_prepared_slot => FencedSoFar(a)
        /\ \A n \in Transfers : IsCopy(n) /\ Transfer(n).buffer = "native" => Transfer(n).call < call

(* The event of a slot is behind every kernel that reads it, except while  *)
(* the newest is still to be marked.                                       *)
Marked ==
    \A a \in Computes : IsKernel(a) =>
        \/ pc = "mark" /\ Compute(a).slot = last_prepared_slot
        \/ primed[Compute(a).slot] /\ a <= compute_event[Compute(a).slot]

(* Two copies into one buffer are those of two calls, in order.            *)
InOrder ==
    \A n, k \in Transfers :
        /\ n < k /\ IsCopy(n) /\ IsCopy(k)
        /\ Transfer(n).slot = Transfer(k).slot /\ Transfer(n).buffer = Transfer(k).buffer
        => Transfer(n).call < Transfer(k).call

WeightsInv == KernelsReady /\ NextReady /\ Fenced /\ NativeFenced /\ Marked /\ InOrder

(* The ring: which call a slot is for.                                     *)
SlotOfCall(c) == (c - 1) % SlotCount
Ring == /\ next_slot = call % SlotCount
        /\ pc # "idle" => last_prepared_slot = SlotOfCall(call)
Ages ==
    \A s \in Slots : primed[s] =>
        \E c \in 1 .. call :
            /\ SlotOfCall(c) = s
            /\ \A a \in Computes : IsKernel(a) /\ a <= compute_event[s] => Compute(a).call <= c
FenceAges ==
    \A n \in Transfers : IsFence(n) =>
        /\ n + 1 \in Transfers /\ IsCopy(n + 1)
        /\ \A a \in Computes :
              IsKernel(a) /\ a <= Transfer(n).until => Compute(a).call + SlotCount <= Transfer(n + 1).call

StInv == /\ QType /\ Bounded /\ Started
         /\ WeightsInv
         /\ Ring /\ Ages /\ FenceAges

-----------------------------------------------------------------------------
(* What happens to the numbered operations when the queues change.         *)

(* Streams are numbered by naturals and hold what was issued and not done. *)
LEMMA Numbered ==
    ASSUME QType, NEW st \in Streams
    PROVE  /\ done[st] \in Nat /\ issued[st] \in Nat /\ Len(queue[st]) \in Nat
           /\ issued[st] = done[st] + Len(queue[st])
           /\ \A n \in Waiting(st) : n \in Nat /\ n - done[st] \in 1 .. Len(queue[st])
<1>1. Len(queue[st]) \in Nat
  <2>1. CASE st = "transfer"
    BY <2>1 DEF QType
  <2>2. CASE st = "compute"
    BY <2>2 DEF QType
  <2>. QED BY <2>1, <2>2 DEF Streams
<1>2. done[st] \in Nat /\ issued[st] \in Nat /\ issued[st] = done[st] + Len(queue[st])
  BY DEF QType, TypeOK
<1>3. \A n \in done[st] + 1 .. issued[st] : n \in Nat /\ n - done[st] \in 1 .. Len(queue[st])
  BY <1>1, <1>2
<1>. QED BY <1>1, <1>2, <1>3 DEF Waiting

(* The operations of the transfer stream.                                  *)
LEMMA TransferKinds ==
    ASSUME QType, NEW n \in Transfers
    PROVE  /\ n \in Nat /\ n > done["transfer"] /\ n <= issued["transfer"]
           /\ \/ Transfer(n) \in Waits("compute") /\ IsFence(n) /\ ~IsCopy(n)
              \/ Transfer(n) \in Copies /\ IsCopy(n) /\ ~IsFence(n)
<1>1. "transfer" \in Streams
  BY DEF Streams
<1>2. n \in Nat /\ n - done["transfer"] \in 1 .. Len(queue["transfer"])
  BY <1>1, Numbered DEF Transfers
<1>3. Transfer(n) \in Waits("compute") \cup Copies
  BY <1>2 DEF QType, Transfer
<1>4. n > done["transfer"] /\ n <= issued["transfer"]
  BY <1>1, <1>2, Numbered DEF Transfers, Waiting
<1>. QED BY <1>2, <1>3, <1>4 DEF Waits, Copies, IsFence, IsCopy

(* The operations of the compute stream.                                   *)
LEMMA ComputeKinds ==
    ASSUME QType, NEW a \in Computes
    PROVE  /\ a \in Nat /\ a > done["compute"] /\ a <= issued["compute"]
           /\ \/ Compute(a) \in Waits("transfer") /\ IsAwait(a) /\ ~IsKernel(a)
              \/ Compute(a) \in Kernels /\ IsKernel(a) /\ ~IsAwait(a)
<1>1. "compute" \in Streams
  BY DEF Streams
<1>2. a \in Nat /\ a - done["compute"] \in 1 .. Len(queue["compute"])
  BY <1>1, Numbered DEF Computes
<1>3. Compute(a) \in Waits("transfer") \cup Kernels
  BY <1>2 DEF QType, Compute
<1>4. a > done["compute"] /\ a <= issued["compute"]
  BY <1>1, <1>2, Numbered DEF Computes, Waiting
<1>. QED BY <1>2, <1>3, <1>4 DEF Waits, Kernels, IsAwait, IsKernel

(* The head of a stream that has one.                                      *)
LEMMA HeadNumber ==
    ASSUME QType, NEW st \in Streams, queue[st] # <<>>
    PROVE  /\ done[st] + 1 \in Waiting(st)
           /\ Head(queue[st]) = queue[st][(done[st] + 1) - done[st]]
<1>1. queue[st] \in Seq(Waits("compute") \cup Copies) \/ queue[st] \in Seq(Waits("transfer") \cup Kernels)
  BY DEF QType, Streams
<1>2. Len(queue[st]) >= 1 /\ Head(queue[st]) = queue[st][1]
  BY <1>1
<1>3. (done[st] + 1) - done[st] = 1
  BY Numbered
<1>. QED BY <1>2, <1>3, Numbered DEF Waiting

(* One operation is done: the others keep their numbers.                   *)
LEMMA PopFacts ==
    ASSUME QType, NEW st \in Streams, queue[st] # <<>>, Pop(st), UNCHANGED issued
    PROVE  /\ Waiting(st)' = Waiting(st) \ {done[st] + 1}
           /\ \A n \in Waiting(st)' : queue'[st][n - done'[st]] = queue[st][n - done[st]]
           /\ \A o \in Streams \ {st} : queue'[o] = queue[o] /\ done'[o] = done[o]
           /\ done'[st] = done[st] + 1
           /\ queue'["transfer"] \in Seq(Waits("compute") \cup Copies)
           /\ queue'["compute"] \in Seq(Waits("transfer") \cup Kernels)
           /\ DOMAIN queue' = Streams /\ done' \in [Streams -> Nat]
           /\ \A o \in Streams : done'[o] + Len(queue'[o]) = issued'[o]
<1>1. queue[st] \in Seq(Waits("compute") \cup Copies) \/ queue[st] \in Seq(Waits("transfer") \cup Kernels)
  BY DEF QType, Streams
<1>2. queue'[st] = Tail(queue[st]) /\ done'[st] = done[st] + 1
  BY DEF Pop, QType
<1>3. Len(queue[st]) >= 1 /\ Len(Tail(queue[st])) = Len(queue[st]) - 1
  BY <1>1
<1>4. \A i \in 1 .. Len(queue[st]) - 1 : Tail(queue[st])[i] = queue[st][i + 1]
  BY <1>1
<1>5. Waiting(st)' = Waiting(st) \ {done[st] + 1}
  BY <1>2, Numbered DEF Waiting
<1>6. ASSUME NEW n \in Waiting(st)'
      PROVE  queue'[st][n - done'[st]] = queue[st][n - done[st]]
  <2>1. n \in Waiting(st) /\ n # done[st] + 1
    BY <1>5
  <2>2. n \in Nat /\ n - done[st] \in 1 .. Len(queue[st]) /\ n - done[st] # 1
    BY <2>1, Numbered
  <2>3. n - done'[st] \in 1 .. Len(queue[st]) - 1 /\ (n - done'[st]) + 1 = n - done[st]
    BY <1>2, <2>2, Numbered
  <2>. QED BY <1>2, <1>4, <2>3
<1>7. \A o \in Streams \ {st} : queue'[o] = queue[o] /\ done'[o] = done[o]
  BY DEF Pop, QType
<1>8. /\ queue'["transfer"] \in Seq(Waits("compute") \cup Copies)
      /\ queue'["compute"] \in Seq(Waits("transfer") \cup Kernels)
  <2>1. CASE st = "transfer"
    <3>1. queue'["transfer"] = Tail(queue["transfer"]) /\ queue'["compute"] = queue["compute"]
      BY <1>2, <1>7, <2>1 DEF Streams
    <3>. QED BY <2>1, <3>1 DEF QType
  <2>2. CASE st = "compute"
    <3>1. queue'["compute"] = Tail(queue["compute"]) /\ queue'["transfer"] = queue["transfer"]
      BY <1>2, <1>7, <2>2 DEF Streams
    <3>. QED BY <2>2, <3>1 DEF QType
  <2>. QED BY <2>1, <2>2 DEF Streams
<1>9. DOMAIN queue' = Streams /\ done' \in [Streams -> Nat]
  BY DEF Pop, QType
<1>10. ASSUME NEW o \in Streams PROVE done'[o] + Len(queue'[o]) = issued'[o]
  <2>1. CASE o = st
    <3>1. done'[st] + Len(queue'[st]) = (done[st] + 1) + (Len(queue[st]) - 1)
      BY <1>2, <1>3
    <3>2. issued'[st] = issued[st]
      OBVIOUS
    <3>3. /\ done[st] \in Nat /\ Len(queue[st]) \in Nat /\ issued[st] = done[st] + Len(queue[st])
      BY Numbered
    <3>4. (done[st] + 1) + (Len(queue[st]) - 1) = issued[st]
      BY <3>3
    <3>. QED BY <2>1, <3>1, <3>2, <3>4
  <2>2. CASE o # st
    <3>1. queue'[o] = queue[o] /\ done'[o] = done[o]
      BY <1>7, <2>2
    <3>. QED BY <3>1 DEF QType, TypeOK
  <2>. QED BY <2>1, <2>2
<1>. QED BY <1>2, <1>5, <1>6, <1>7, <1>8, <1>9, <1>10

(* Operations are issued: they get the next numbers.                       *)
LEMMA IssueFacts ==
    ASSUME QType, NEW tr \in Seq(Waits("compute") \cup Copies),
           NEW co \in Seq(Waits("transfer") \cup Kernels), Issue(tr, co)
    PROVE  /\ done' = done /\ busy' = busy
           /\ issued' \in [Streams -> Nat]
           /\ issued'["transfer"] = issued["transfer"] + Len(tr)
           /\ issued'["compute"] = issued["compute"] + Len(co)
           /\ Transfers' = done["transfer"] + 1 .. issued["transfer"] + Len(tr)
           /\ Computes' = done["compute"] + 1 .. issued["compute"] + Len(co)
           /\ \A n \in Transfers : Transfer(n)' = Transfer(n)
           /\ \A a \in Computes : Compute(a)' = Compute(a)
           /\ \A n \in Nat, i \in 1 .. Len(tr) : n = issued["transfer"] + i => Transfer(n)' = tr[i]
           /\ \A a \in Nat, i \in 1 .. Len(co) : a = issued["compute"] + i => Compute(a)' = co[i]
           /\ queue'["transfer"] \in Seq(Waits("compute") \cup Copies)
           /\ queue'["compute"] \in Seq(Waits("transfer") \cup Kernels)
           /\ DOMAIN queue' = Streams
           /\ \A o \in Streams : done'[o] + Len(queue'[o]) = issued'[o]
<1>1. "transfer" \in Streams /\ "compute" \in Streams
  BY DEF Streams
<1>2. /\ queue'["transfer"] = queue["transfer"] \o tr
      /\ queue'["compute"] = queue["compute"] \o co
      /\ DOMAIN queue' = Streams
  BY <1>1 DEF Issue, QType
<1>3. Len(tr) \in Nat /\ Len(co) \in Nat
  OBVIOUS
<1>4. /\ issued' \in [Streams -> Nat]
      /\ issued'["transfer"] = issued["transfer"] + Len(tr)
      /\ issued'["compute"] = issued["compute"] + Len(co)
      /\ done' = done /\ busy' = busy
  <2>1. issued \in [Streams -> Nat]
    BY DEF QType, TypeOK
  <2>2. issued["transfer"] + Len(tr) \in Nat /\ issued["compute"] + Len(co) \in Nat
    BY <1>1, <1>3, <2>1
  <2>3. issued' = [issued EXCEPT !["transfer"] = @ + Len(tr), !["compute"] = @ + Len(co)]
    BY DEF Issue
  <2>4. issued' \in [Streams -> Nat]
    BY <2>1, <2>2, <2>3
  <2>5. /\ issued'["transfer"] = issued["transfer"] + Len(tr)
        /\ issued'["compute"] = issued["compute"] + Len(co)
    BY <1>1, <2>1, <2>3
  <2>. QED BY <2>4, <2>5 DEF Issue
<1>5. /\ queue["transfer"] \in Seq(Waits("compute") \cup Copies)
      /\ queue["compute"] \in Seq(Waits("transfer") \cup Kernels)
  BY DEF QType
<1>6. /\ queue'["transfer"] \in Seq(Waits("compute") \cup Copies)
      /\ Len(queue'["transfer"]) = Len(queue["transfer"]) + Len(tr)
      /\ \A i \in 1 .. Len(queue["transfer"]) : queue'["transfer"][i] = queue["transfer"][i]
      /\ \A i \in 1 .. Len(tr) : queue'["transfer"][Len(queue["transfer"]) + i] = tr[i]
  BY <1>2, <1>5
<1>7. /\ queue'["compute"] \in Seq(Waits("transfer") \cup Kernels)
      /\ Len(queue'["compute"]) = Len(queue["compute"]) + Len(co)
      /\ \A i \in 1 .. Len(queue["compute"]) : queue'["compute"][i] = queue["compute"][i]
      /\ \A i \in 1 .. Len(co) : queue'["compute"][Len(queue["compute"]) + i] = co[i]
  BY <1>2, <1>5
<1>8. \A n \in Transfers : Transfer(n)' = Transfer(n)
  BY <1>1, <1>4, <1>6, Numbered DEF Transfers, Transfer
<1>9. \A a \in Computes : Compute(a)' = Compute(a)
  BY <1>1, <1>4, <1>7, Numbered DEF Computes, Compute
<1>10. ASSUME NEW n \in Nat, NEW i \in 1 .. Len(tr), n = issued["transfer"] + i
       PROVE  Transfer(n)' = tr[i]
  <2>1. n - done["transfer"] = Len(queue["transfer"]) + i
    <3>1. /\ done["transfer"] \in Nat /\ Len(queue["transfer"]) \in Nat
          /\ issued["transfer"] = done["transfer"] + Len(queue["transfer"])
      BY <1>1, Numbered
    <3>. QED BY <1>3, <1>10, <3>1
  <2>2. Transfer(n)' = queue'["transfer"][Len(queue["transfer"]) + i]
    BY <1>4, <2>1 DEF Transfer
  <2>. QED BY <1>6, <2>2
<1>11. ASSUME NEW a \in Nat, NEW i \in 1 .. Len(co), a = issued["compute"] + i
       PROVE  Compute(a)' = co[i]
  <2>1. a - done["compute"] = Len(queue["compute"]) + i
    <3>1. /\ done["compute"] \in Nat /\ Len(queue["compute"]) \in Nat
          /\ issued["compute"] = done["compute"] + Len(queue["compute"])
      BY <1>1, Numbered
    <3>. QED BY <1>3, <1>11, <3>1
  <2>2. Compute(a)' = queue'["compute"][Len(queue["compute"]) + i]
    BY <1>4, <2>1 DEF Compute
  <2>. QED BY <1>7, <2>2
<1>12. /\ Transfers' = done["transfer"] + 1 .. issued["transfer"] + Len(tr)
       /\ Computes' = done["compute"] + 1 .. issued["compute"] + Len(co)
  BY <1>4 DEF Transfers, Computes, Waiting
<1>13. ASSUME NEW o \in Streams PROVE done'[o] + Len(queue'[o]) = issued'[o]
  <2>1. CASE o = "transfer"
    BY <1>1, <1>3, <1>4, <1>6, <2>1, Numbered
  <2>2. CASE o = "compute"
    BY <1>1, <1>3, <1>4, <1>7, <2>2, Numbered
  <2>. QED BY <2>1, <2>2 DEF Streams
<1>. QED BY <1>2, <1>4, <1>6, <1>7, <1>8, <1>9, <1>10, <1>11, <1>12, <1>13

-----------------------------------------------------------------------------
(* The device.                                                             *)

(* What a step of the device does to the streams: it takes operations off. *)
Shrinks ==
    /\ UNCHANGED <<host, slots, issued>>
    /\ Transfers' \subseteq Transfers /\ Computes' \subseteq Computes
    /\ \A n \in Transfers' : Transfer(n)' = Transfer(n)
    /\ \A a \in Computes' : Compute(a)' = Compute(a)

(* That disturbs no conjunct that holds of all operations alike.           *)
LEMMA ShrinksKeeps ==
    ASSUME StInv, QType', Shrinks
    PROVE  /\ Bounded' /\ Marked' /\ InOrder' /\ Ring' /\ Ages' /\ FenceAges'
           /\ \A n \in Transfers' : (IsFence(n)' <=> IsFence(n)) /\ (IsCopy(n)' <=> IsCopy(n))
           /\ \A a \in Computes' : (IsAwait(a)' <=> IsAwait(a)) /\ (IsKernel(a)' <=> IsKernel(a))
<1>1. \A n \in Transfers' : /\ n \in Transfers /\ Transfer(n)' = Transfer(n)
                            /\ IsFence(n)' <=> IsFence(n)
                            /\ IsCopy(n)' <=> IsCopy(n)
  BY DEF Shrinks, IsFence, IsCopy
<1>2. \A a \in Computes' : /\ a \in Computes /\ Compute(a)' = Compute(a)
                           /\ IsAwait(a)' <=> IsAwait(a)
                           /\ IsKernel(a)' <=> IsKernel(a)
  BY DEF Shrinks, IsAwait, IsKernel
<1>3. /\ issued' = issued /\ call' = call /\ compute_event' = compute_event /\ pc' = pc
      /\ last_prepared_slot' = last_prepared_slot /\ next_slot' = next_slot /\ primed' = primed
  BY DEF Shrinks, host, slots
<1>4. Bounded'
  BY <1>1, <1>2, <1>3 DEF StInv, Bounded
<1>5. Marked'
  BY <1>2, <1>3 DEF StInv, WeightsInv, Marked
<1>6. InOrder'
  BY <1>1 DEF StInv, WeightsInv, InOrder
<1>7. Ring'
  BY <1>3 DEF StInv, Ring
<1>8. Ages'
  BY <1>2, <1>3 DEF StInv, Ages
<1>9. FenceAges'
  <2>. SUFFICES ASSUME NEW n \in Transfers', IsFence(n)'
       PROVE  /\ n + 1 \in Transfers' /\ IsCopy(n + 1)'
              /\ \A a \in Computes' :
                     IsKernel(a)' /\ a <= Transfer(n)'.until
                     => Compute(a)'.call + SlotCount <= Transfer(n + 1)'.call
    BY DEF FenceAges
  <2>1. n \in Transfers /\ IsFence(n) /\ Transfer(n)' = Transfer(n)
    BY <1>1
  <2>2. /\ n + 1 \in Transfers /\ IsCopy(n + 1)
        /\ \A a \in Computes : IsKernel(a) /\ a <= Transfer(n).until
                              => Compute(a).call + SlotCount <= Transfer(n + 1).call
    BY <2>1 DEF StInv, FenceAges
  <2>3. n + 1 \in Transfers'
    <3>1. "transfer" \in Streams /\ QType
      BY DEF Streams, StInv
    <3>2. done'["transfer"] \in Nat /\ issued'["transfer"] = issued["transfer"]
      BY <1>3, <3>1, Numbered DEF QType
    <3>3. n \in done'["transfer"] + 1 .. issued'["transfer"]
      BY DEF Transfers, Waiting
    <3>4. n + 1 <= issued["transfer"]
      BY <2>2, <3>1, TransferKinds
    <3>5. issued["transfer"] \in Nat
      BY <3>1, Numbered
    <3>6. n + 1 \in done'["transfer"] + 1 .. issued'["transfer"]
      BY <3>2, <3>3, <3>4, <3>5
    <3>. QED BY <3>6 DEF Transfers, Waiting
  <2>4. Transfer(n + 1)' = Transfer(n + 1) /\ (IsCopy(n + 1)' <=> IsCopy(n + 1))
    BY <1>1, <2>3
  <2>. QED BY <1>2, <2>1, <2>2, <2>3, <2>4
<1>. QED BY <1>1, <1>2, <1>4, <1>5, <1>6, <1>7, <1>8, <1>9

(* The step that takes one operation off.                                  *)
LEMMA PopShrinks ==
    ASSUME QType, NEW st \in Streams, queue[st] # <<>>, Pop(st), UNCHANGED <<host, slots, issued>>
    PROVE  /\ Shrinks
           /\ st = "transfer" => /\ Transfers' = Transfers \ {done["transfer"] + 1}
                                 /\ done'["transfer"] = done["transfer"] + 1
                                 /\ Computes' = Computes /\ done'["compute"] = done["compute"]
           /\ st = "compute" => /\ Computes' = Computes \ {done["compute"] + 1}
                                /\ done'["compute"] = done["compute"] + 1
                                /\ Transfers' = Transfers /\ done'["transfer"] = done["transfer"]
<1>1. /\ Waiting(st)' = Waiting(st) \ {done[st] + 1}
      /\ \A n \in Waiting(st)' : queue'[st][n - done'[st]] = queue[st][n - done[st]]
      /\ \A o \in Streams \ {st} : queue'[o] = queue[o] /\ done'[o] = done[o]
      /\ done'[st] = done[st] + 1
  BY PopFacts
<1>2. issued' = issued
  OBVIOUS
<1>3. CASE st = "transfer"
  <2>1. "compute" \in Streams \ {st}
    BY <1>3 DEF Streams
  <2>2. queue'["compute"] = queue["compute"] /\ done'["compute"] = done["compute"]
    BY <1>1, <2>1
  <2>3. Computes' = Computes /\ \A a \in Computes' : Compute(a)' = Compute(a)
    BY <1>2, <2>2 DEF Computes, Waiting, Compute
  <2>4. Transfers' = Transfers \ {done["transfer"] + 1}
    BY <1>1, <1>3 DEF Transfers
  <2>5. \A n \in Transfers' : Transfer(n)' = Transfer(n)
    BY <1>1, <1>3 DEF Transfers, Transfer
  <2>. QED BY <1>1, <1>3, <2>2, <2>3, <2>4, <2>5 DEF Shrinks
<1>4. CASE st = "compute"
  <2>1. "transfer" \in Streams \ {st}
    BY <1>4 DEF Streams
  <2>2. queue'["transfer"] = queue["transfer"] /\ done'["transfer"] = done["transfer"]
    BY <1>1, <2>1
  <2>3. Transfers' = Transfers /\ \A n \in Transfers' : Transfer(n)' = Transfer(n)
    BY <1>2, <2>2 DEF Transfers, Waiting, Transfer
  <2>4. Computes' = Computes \ {done["compute"] + 1}
    BY <1>1, <1>4 DEF Computes
  <2>5. \A a \in Computes' : Compute(a)' = Compute(a)
    BY <1>1, <1>4 DEF Computes, Compute
  <2>. QED BY <1>1, <1>4, <2>2, <2>3, <2>4, <2>5 DEF Shrinks
<1>. QED BY <1>3, <1>4 DEF Streams

(* A wait that is over awaits nothing that is still to come.               *)
LEMMA PassWaitKeeps ==
    ASSUME StInv, NEW st \in Streams, PassWait(st)
    PROVE  StInv'
<1>1. QType /\ queue[st] # <<>> /\ Pop(st) /\ UNCHANGED <<host, slots, issued>>
  BY DEF StInv, PassWait
<1>2. /\ Shrinks
      /\ st = "transfer" => /\ Transfers' = Transfers \ {done["transfer"] + 1}
                            /\ done'["transfer"] = done["transfer"] + 1
                            /\ Computes' = Computes /\ done'["compute"] = done["compute"]
      /\ st = "compute" => /\ Computes' = Computes \ {done["compute"] + 1}
                           /\ done'["compute"] = done["compute"] + 1
                           /\ Transfers' = Transfers /\ done'["transfer"] = done["transfer"]
  BY <1>1, PopShrinks
<1>3. busy' = busy /\ content' = content /\ call' = call /\ pc' = pc /\ linear' = linear
      /\ combined' = combined /\ last_prepared_slot' = last_prepared_slot /\ issued' = issued
  BY DEF PassWait, host, slots
<1>4. QType'
  <2>1. /\ queue'["transfer"] \in Seq(Waits("compute") \cup Copies)
        /\ queue'["compute"] \in Seq(Waits("transfer") \cup Kernels)
        /\ DOMAIN queue' = Streams /\ done' \in [Streams -> Nat]
        /\ \A o \in Streams : done'[o] + Len(queue'[o]) = issued'[o]
    BY <1>1, PopFacts
  <2>2. TypeOK'
    BY <1>1, <1>3, <2>1 DEF QType, TypeOK, host, slots
  <2>. QED BY <1>1, <1>3, <2>1, <2>2 DEF QType
<1>5. /\ Bounded' /\ Marked' /\ InOrder' /\ Ring' /\ Ages' /\ FenceAges'
      /\ \A n \in Transfers' : (IsFence(n)' <=> IsFence(n)) /\ (IsCopy(n)' <=> IsCopy(n))
      /\ \A a \in Computes' : (IsAwait(a)' <=> IsAwait(a)) /\ (IsKernel(a)' <=> IsKernel(a))
  BY <1>2, <1>4, ShrinksKeeps
<1>6. /\ Transfers' \subseteq Transfers /\ Computes' \subseteq Computes
      /\ \A n \in Transfers' : Transfer(n)' = Transfer(n)
      /\ \A a \in Computes' : Compute(a)' = Compute(a)
  BY <1>2 DEF Shrinks
<1>7. /\ done[st] + 1 \in Waiting(st)
      /\ queue[st][(done[st] + 1) - done[st]].op = "wait"
      /\ done[queue[st][(done[st] + 1) - done[st]].on] >= queue[st][(done[st] + 1) - done[st]].until
  BY <1>1, HeadNumber DEF PassWait
<1>8. st = "transfer" => /\ done["transfer"] + 1 \in Transfers /\ IsFence(done["transfer"] + 1)
                         /\ Transfer(done["transfer"] + 1).until <= done["compute"]
  <2>. SUFFICES ASSUME st = "transfer"
       PROVE  /\ done["transfer"] + 1 \in Transfers /\ IsFence(done["transfer"] + 1)
              /\ Transfer(done["transfer"] + 1).until <= done["compute"]
    OBVIOUS
  <2>1. done["transfer"] + 1 \in Transfers /\ IsFence(done["transfer"] + 1)
    BY <1>7 DEF Transfers, IsFence, Transfer
  <2>2. Transfer(done["transfer"] + 1) \in Waits("compute")
    BY <1>1, <2>1, TransferKinds
  <2>3. Transfer(done["transfer"] + 1).on = "compute"
    BY <2>2 DEF Waits
  <2>4. done["compute"] >= Transfer(done["transfer"] + 1).until
    BY <1>7, <2>3 DEF Transfer
  <2>5. Transfer(done["transfer"] + 1).until \in Nat /\ done["compute"] \in Nat
    BY <1>1, <2>2, Numbered DEF Waits, Streams
  <2>. QED BY <2>1, <2>4, <2>5
<1>9. st = "compute" => /\ done["compute"] + 1 \in Computes /\ IsAwait(done["compute"] + 1)
                        /\ Compute(done["compute"] + 1).until <= done["transfer"]
  <2>. SUFFICES ASSUME st = "compute"
       PROVE  /\ done["compute"] + 1 \in Computes /\ IsAwait(done["compute"] + 1)
              /\ Compute(done["compute"] + 1).until <= done["transfer"]
    OBVIOUS
  <2>1. done["compute"] + 1 \in Computes /\ IsAwait(done["compute"] + 1)
    BY <1>7 DEF Computes, IsAwait, Compute
  <2>2. Compute(done["compute"] + 1) \in Waits("transfer")
    BY <1>1, <2>1, ComputeKinds
  <2>3. Compute(done["compute"] + 1).on = "transfer"
    BY <2>2 DEF Waits
  <2>4. done["transfer"] >= Compute(done["compute"] + 1).until
    BY <1>7, <2>3 DEF Compute
  <2>5. Compute(done["compute"] + 1).until \in Nat /\ done["transfer"] \in Nat
    BY <1>1, <2>2, Numbered DEF Waits, Streams
  <2>. QED BY <2>1, <2>4, <2>5
<1>10. ASSUME NEW a \in Nat, NEW s, NEW b, NEW c, Ready(a, s, b, c)
       PROVE  Ready(a, s, b, c)'
  <2>1. CASE Arrived(s, b, c)
    <3>1. \A n \in Transfers' : Into(n, s, b)' => Into(n, s, b)
      BY <1>5, <1>6 DEF Into
    <3>. QED BY <1>3, <1>6, <2>1, <3>1 DEF Ready, Arrived
  <2>2. CASE Awaited(a, s, b, c)
    <3>1. PICK n \in Transfers, w \in Computes :
                /\ Into(n, s, b) /\ Transfer(n).call = c
                /\ IsAwait(w) /\ w < a /\ n <= Compute(w).until
      BY <2>2 DEF Awaited
    <3>2. /\ n \in Nat /\ n > done["transfer"] /\ IsCopy(n) /\ ~IsFence(n)
          /\ done["transfer"] \in Nat /\ Compute(w).until \in Nat
      <4>1. n \in Nat /\ n > done["transfer"] /\ IsCopy(n) /\ ~IsFence(n)
        BY <1>1, <3>1, TransferKinds DEF Into
      <4>2. Compute(w) \in Waits("transfer")
        BY <1>1, <3>1, ComputeKinds
      <4>3. done["transfer"] \in Nat
        BY <1>1, Numbered DEF Streams
      <4>. QED BY <4>1, <4>2, <4>3 DEF Waits
    <3>3. n \in Transfers'
      BY <1>2, <1>8, <3>1, <3>2 DEF Streams
    <3>4. w \in Computes'
      <4>1. CASE st = "compute" /\ w = done["compute"] + 1
        BY <1>9, <3>1, <3>2, <4>1
      <4>. QED BY <1>2, <3>1, <4>1 DEF Streams
    <3>5. Into(n, s, b)' /\ Transfer(n)'.call = c /\ IsAwait(w)' /\ n <= Compute(w)'.until
      BY <1>5, <1>6, <3>1, <3>3, <3>4 DEF Into
    <3>. QED BY <3>1, <3>3, <3>4, <3>5 DEF Ready, Awaited
  <2>. QED BY <2>1, <2>2, <1>10 DEF Ready
<1>11. KernelsReady'
  <2>. SUFFICES ASSUME NEW a \in Computes', IsKernel(a)', NEW b \in Compute(a)'.buffers
       PROVE  Ready(a, Compute(a).slot, b, Compute(a).call)'
    BY DEF KernelsReady
  <2>1. a \in Computes /\ IsKernel(a) /\ Compute(a)' = Compute(a)
    BY <1>5, <1>6
  <2>2. a \in Nat
    BY <1>1, <2>1, ComputeKinds
  <2>3. Ready(a, Compute(a).slot, b, Compute(a).call)
    BY <2>1 DEF StInv, WeightsInv, KernelsReady
  <2>4. \A s, c : Ready(a, s, b, c) => Ready(a, s, b, c)'
    BY <1>10, <2>2
  <2>. QED BY <2>1, <2>3, <2>4
<1>12. NextReady'
  <2>. SUFFICES ASSUME pc' = "launch", NEW b \in Views(last_prepared_slot)'
       PROVE  Ready(issued["compute"] + 1, last_prepared_slot, b, call)'
    BY DEF NextReady
  <2>1. pc = "launch" /\ b \in Views(last_prepared_slot)
    BY <1>3 DEF Views
  <2>2. Ready(issued["compute"] + 1, last_prepared_slot, b, call)
    BY <2>1 DEF StInv, WeightsInv, NextReady
  <2>3. issued["compute"] + 1 \in Nat
    BY <1>1, Numbered DEF Streams
  <2>4. \A s, c : \A a \in Nat : Ready(a, s, b, c) => Ready(a, s, b, c)'
    BY <1>10
  <2>. QED BY <1>3, <2>2, <2>3, <2>4
<1>13. ASSUME NEW a \in Computes', NEW m \in Transfers, IsFence(m), a <= Transfer(m).until
       PROVE  m \in Transfers' /\ IsFence(m)' /\ a <= Transfer(m)'.until
  <2>1. m \in Transfers'
    <3>1. CASE st = "transfer" /\ m = done["transfer"] + 1
      <4>1. Transfer(m).until <= done["compute"]
        BY <1>8, <3>1
      <4>2. a \in Nat /\ a > done["compute"]
        BY <1>1, <1>6, ComputeKinds
      <4>3. Transfer(m) \in Waits("compute") /\ done["compute"] \in Nat
        BY <1>1, <1>13, TransferKinds, Numbered DEF Streams
      <4>4. Transfer(m).until \in Nat
        BY <4>3 DEF Waits
      <4>. QED BY <1>13, <4>1, <4>2, <4>3, <4>4
    <3>. QED BY <1>2, <3>1 DEF Streams
  <2>. QED BY <1>5, <1>6, <1>13, <2>1
<1>14. Fenced'
  <2>. SUFFICES ASSUME NEW n \in Transfers', NEW a \in Computes',
                       IsCopy(n)', IsKernel(a)', Transfer(n)'.slot = Compute(a)'.slot,
                       Compute(a)'.call < Transfer(n)'.call
       PROVE  FencedFor(n, a)'
    BY DEF Fenced
  <2>1. FencedFor(n, a)
    BY <1>5, <1>6 DEF StInv, WeightsInv, Fenced
  <2>. QED BY <1>13, <2>1 DEF FencedFor
<1>15. NativeFenced'
  <2>. SUFFICES ASSUME pc = "native"
       PROVE  /\ linear'.native
              /\ \A a \in Computes' : IsKernel(a)' =>
                    /\ Compute(a)'.call < call'
                    /\ Compute(a)'.slot = last_prepared_slot' => FencedSoFar(a)'
              /\ \A n \in Transfers' :
                    IsCopy(n)' /\ Transfer(n)'.buffer = "native" => Transfer(n)'.call < call'
    BY <1>3 DEF NativeFenced
  <2>1. /\ linear.native
        /\ \A a \in Computes : IsKernel(a) =>
              /\ Compute(a).call < call
              /\ Compute(a).slot = last_prepared_slot => FencedSoFar(a)
        /\ \A n \in Transfers : IsCopy(n) /\ Transfer(n).buffer = "native" => Transfer(n).call < call
    BY DEF StInv, WeightsInv, NativeFenced
  <2>2. \A a \in Computes' : FencedSoFar(a) => FencedSoFar(a)'
    BY <1>13 DEF FencedSoFar
  <2>. QED BY <1>3, <1>5, <1>6, <2>1, <2>2
<1>16. Started'
  <2>1. busy[st] => FALSE
    <3>1. CASE st = "transfer"
      BY <1>1, <1>8, <3>1, TransferKinds DEF StInv, Started
    <3>2. CASE st = "compute"
      BY <1>1, <1>9, <3>2, ComputeKinds DEF StInv, Started
    <3>. QED BY <3>1, <3>2 DEF Streams
  <2>2. CASE st = "transfer"
    BY <1>2, <1>3, <1>5, <2>1, <2>2 DEF StInv, Started, Shrinks
  <2>3. CASE st = "compute"
    BY <1>2, <1>3, <1>5, <2>1, <2>3 DEF StInv, Started
  <2>. QED BY <2>2, <2>3 DEF Streams
<1>. QED BY <1>4, <1>5, <1>11, <1>12, <1>14, <1>15, <1>16 DEF StInv, WeightsInv

(* The copy at the head of the transfer stream goes to no buffer that is   *)
(* ready for a pending kernel, or for the next one, with its weights in it.*)
LEMMA HeadSparesReaders ==
    ASSUME StInv, NEW n \in Transfers, n = done["transfer"] + 1, IsCopy(n)
    PROVE  /\ \A a \in Computes : IsKernel(a) /\ Compute(a).slot = Transfer(n).slot
                                  => ~(Compute(a).call < Transfer(n).call)
           /\ ~(call < Transfer(n).call)
<1>1. ASSUME NEW a \in Computes, IsKernel(a), Compute(a).slot = Transfer(n).slot,
             Compute(a).call < Transfer(n).call
      PROVE  FALSE
  <2>1. FencedFor(n, a)
    BY <1>1 DEF StInv, WeightsInv, Fenced
  <2>2. PICK m \in Transfers : m < n
    BY <2>1 DEF FencedFor
  <2>3. m \in Nat /\ m > done["transfer"] /\ done["transfer"] \in Nat
    BY <2>2, TransferKinds, Numbered DEF StInv, Streams
  <2>. QED BY <2>2, <2>3
<1>2. Transfer(n).call <= call
  BY DEF StInv, Bounded
<1>3. Transfer(n).call \in Nat /\ call \in Nat
  <2>1. Transfer(n) \in Copies /\ QType
    BY TransferKinds DEF StInv
  <2>2. Transfer(n).call \in 1 .. MaxCalls /\ call \in 0 .. MaxCalls
    BY <2>1 DEF Copies, QType, TypeOK
  <2>. QED BY <2>2, StagingAssumption
<1>. QED BY <1>1, <1>2, <1>3

(* The type of what a kernel is given.                                     *)
LEMMA KernelViews ==
    ASSUME QType
    PROVE  /\ \A a \in Computes : IsKernel(a) =>
                  /\ Compute(a).slot \in Slots /\ Compute(a).buffers \subseteq Buffers
                  /\ Compute(a).call \in 1 .. MaxCalls
           /\ Views(last_prepared_slot) \subseteq Buffers /\ last_prepared_slot \in Slots
<1>1. ASSUME NEW a \in Computes, IsKernel(a)
      PROVE  /\ Compute(a).slot \in Slots /\ Compute(a).buffers \subseteq Buffers
             /\ Compute(a).call \in 1 .. MaxCalls
  <2>1. Compute(a) \in Kernels
    BY <1>1, ComputeKinds
  <2>. QED BY <2>1 DEF Kernels
<1>. QED BY <1>1 DEF Views, Buffers, QType, TypeOK

(* While a copy runs its buffer is torn.                                   *)
LEMMA StartKeeps ==
    ASSUME StInv, NEW st \in Streams, Start(st)
    PROVE  StInv'
<1>1. /\ QType /\ queue[st] # <<>> /\ busy' = [busy EXCEPT ![st] = TRUE]
      /\ UNCHANGED <<host, slots, queue, issued, done>>
  BY DEF StInv, Start
<1>2. /\ Transfers' = Transfers /\ Computes' = Computes
      /\ \A n : Transfer(n)' = Transfer(n)
      /\ \A a : Compute(a)' = Compute(a)
  BY <1>1 DEF Transfers, Computes, Waiting, Transfer, Compute
<1>3. /\ \A n : (IsFence(n)' <=> IsFence(n)) /\ (IsCopy(n)' <=> IsCopy(n))
      /\ \A a : (IsAwait(a)' <=> IsAwait(a)) /\ (IsKernel(a)' <=> IsKernel(a))
  BY <1>2 DEF IsFence, IsCopy, IsAwait, IsKernel
<1>4. /\ call' = call /\ pc' = pc /\ linear' = linear /\ combined' = combined
      /\ last_prepared_slot' = last_prepared_slot /\ issued' = issued /\ done' = done
  BY <1>1 DEF host, slots
<1>5. /\ done[st] + 1 \in Waiting(st)
      /\ queue[st][(done[st] + 1) - done[st]].op # "wait"
  BY <1>1, HeadNumber DEF Start
<1>6. st = "transfer" =>
        /\ done["transfer"] + 1 \in Transfers /\ IsCopy(done["transfer"] + 1)
        /\ content' = [content EXCEPT ![Transfer(done["transfer"] + 1).slot]
                                       [Transfer(done["transfer"] + 1).buffer] = Torn]
  <2>. SUFFICES ASSUME st = "transfer"
       PROVE  /\ done["transfer"] + 1 \in Transfers /\ IsCopy(done["transfer"] + 1)
              /\ content' = [content EXCEPT ![Transfer(done["transfer"] + 1).slot]
                                             [Transfer(done["transfer"] + 1).buffer] = Torn]
    OBVIOUS
  <2>1. done["transfer"] + 1 \in Transfers /\ ~IsFence(done["transfer"] + 1)
    BY <1>5 DEF Transfers, IsFence, Transfer
  <2>2. Head(queue[st]) = Transfer(done["transfer"] + 1)
    BY <1>1, HeadNumber DEF Transfer
  <2>. QED BY <1>1, <2>1, <2>2, TransferKinds DEF Start
<1>7. st = "compute" => /\ done["compute"] + 1 \in Computes /\ IsKernel(done["compute"] + 1)
                        /\ content' = content
  <2>1. st = "compute" => done["compute"] + 1 \in Computes /\ ~IsAwait(done["compute"] + 1)
    BY <1>5 DEF Computes, IsAwait, Compute
  <2>. QED BY <1>1, <2>1, ComputeKinds DEF Start
<1>8. \A s \in Slots, b \in Buffers :
        \/ content'[s][b] = content[s][b]
        \/ \E n \in Transfers : n = done["transfer"] + 1 /\ Into(n, s, b)
  <2>1. CASE st = "transfer"
    <3>1. PICK n \in Transfers : n = done["transfer"] + 1 /\ IsCopy(n)
      BY <1>6, <2>1
    <3>2. content' = [content EXCEPT ![Transfer(n).slot][Transfer(n).buffer] = Torn]
      BY <1>6, <2>1, <3>1
    <3>3. content \in [Slots -> [Buffers -> 0 .. MaxCalls]]
      BY <1>1 DEF QType, TypeOK
    <3>4. \A s \in Slots, b \in Buffers :
             (s = Transfer(n).slot /\ b = Transfer(n).buffer) \/ content'[s][b] = content[s][b]
      BY <3>2, <3>3
    <3>. QED BY <3>1, <3>4 DEF Into
  <2>. QED BY <1>7, <2>1 DEF Streams
<1>9. QType'
  <2>1. content' \in [Slots -> [Buffers -> 0 .. MaxCalls]]
    <3>1. CASE st = "transfer"
      <4>1. Torn \in 0 .. MaxCalls
        BY StagingAssumption DEF Torn
      <4>2. content \in [Slots -> [Buffers -> 0 .. MaxCalls]]
        BY <1>1 DEF QType, TypeOK
      <4>3. Transfer(done["transfer"] + 1) \in Copies
        BY <1>1, <1>6, <3>1, TransferKinds
      <4>4. Transfer(done["transfer"] + 1).slot \in Slots
        BY <4>3 DEF Copies
      <4>. QED BY <1>6, <3>1, <4>1, <4>2, <4>4
    <3>. QED BY <1>1, <1>7, <3>1 DEF Streams, QType, TypeOK
  <2>2. TypeOK'
    BY <1>1, <2>1 DEF QType, TypeOK, host, slots
  <2>. QED BY <1>1, <1>4, <2>2 DEF QType
<1>10. /\ Bounded' /\ Marked' /\ InOrder' /\ Ring' /\ Ages' /\ FenceAges'
  BY <1>1, <1>2, <1>9, ShrinksKeeps DEF Shrinks
<1>11. ASSUME NEW a, NEW s \in Slots, NEW b \in Buffers, NEW c, Ready(a, s, b, c),
              \A n \in Transfers : n = done["transfer"] + 1 /\ IsCopy(n) /\ Transfer(n).slot = s
                                   => ~(c < Transfer(n).call)
       PROVE  Ready(a, s, b, c)'
  <2>1. CASE Awaited(a, s, b, c)
    BY <1>2, <1>3, <2>1 DEF Ready, Awaited, Into
  <2>2. CASE Arrived(s, b, c)
    <3>1. content'[s][b] = content[s][b]
      BY <1>8, <1>11, <2>2 DEF Arrived, Into
    <3>. QED BY <1>2, <1>3, <2>2, <3>1 DEF Ready, Arrived, Into
  <2>. QED BY <1>11, <2>1, <2>2 DEF Ready
<1>12. KernelsReady'
  <2>. SUFFICES ASSUME NEW a \in Computes, IsKernel(a), NEW b \in Compute(a).buffers
       PROVE  Ready(a, Compute(a).slot, b, Compute(a).call)'
    BY <1>2, <1>3 DEF KernelsReady
  <2>1. Ready(a, Compute(a).slot, b, Compute(a).call)
    BY DEF StInv, WeightsInv, KernelsReady
  <2>2. Compute(a).slot \in Slots /\ b \in Buffers
    BY <1>1, KernelViews
  <2>3. \A n \in Transfers : n = done["transfer"] + 1 /\ IsCopy(n) /\ Transfer(n).slot = Compute(a).slot
                             => ~(Compute(a).call < Transfer(n).call)
    BY HeadSparesReaders
  <2>4. \A c : \A s \in Slots : s = Compute(a).slot /\ c = Compute(a).call => Ready(a, s, b, c)'
    BY <1>11, <2>1, <2>2, <2>3
  <2>. QED BY <1>2, <2>2, <2>4
<1>13. NextReady'
  <2>. SUFFICES ASSUME pc = "launch", NEW b \in Views(last_prepared_slot)
       PROVE  Ready(issued["compute"] + 1, last_prepared_slot, b, call)'
    BY <1>4 DEF NextReady, Views
  <2>1. Ready(issued["compute"] + 1, last_prepared_slot, b, call)
    BY DEF StInv, WeightsInv, NextReady
  <2>2. last_prepared_slot \in Slots /\ b \in Buffers
    BY <1>1, KernelViews
  <2>3. \A n \in Transfers : n = done["transfer"] + 1 /\ IsCopy(n) => ~(call < Transfer(n).call)
    BY HeadSparesReaders
  <2>4. \A a, c : \A s \in Slots : a = issued["compute"] + 1 /\ s = last_prepared_slot /\ c = call
                               => Ready(a, s, b, c)'
    BY <1>11, <2>1, <2>2, <2>3
  <2>. QED BY <1>4, <2>2, <2>4
<1>14. Fenced' /\ NativeFenced'
  BY <1>2, <1>3, <1>4 DEF StInv, WeightsInv, Fenced, NativeFenced, FencedFor, FencedSoFar
<1>15. Started'
  <2>1. CASE st = "transfer"
    BY <1>1, <1>2, <1>3, <1>4, <1>6, <2>1 DEF StInv, Started, QType, TypeOK
  <2>2. CASE st = "compute"
    BY <1>1, <1>2, <1>3, <1>4, <1>7, <2>2 DEF StInv, Started, QType, TypeOK
  <2>. QED BY <2>1, <2>2 DEF Streams
<1>. QED BY <1>9, <1>10, <1>12, <1>13, <1>14, <1>15 DEF StInv, WeightsInv

(* When it is done its buffer holds the weights of its call, and what else *)
(* is to be copied there is younger.                                       *)
LEMMA FinishKeeps ==
    ASSUME StInv, NEW st \in Streams, Finish(st)
    PROVE  StInv'
<1>1. /\ QType /\ busy[st] /\ busy' = [busy EXCEPT ![st] = FALSE] /\ Pop(st)
      /\ UNCHANGED <<host, slots, issued>>
  BY DEF StInv, Finish
<1>2. queue[st] # <<>>
  <2>1. Waiting(st) # {}
    BY <1>1 DEF StInv, Started, Transfers, Computes, Streams
  <2>2. Len(queue[st]) # 0
    BY <1>1, <2>1, Numbered
  <2>. QED BY <2>2
<1>3. /\ Shrinks
      /\ st = "transfer" => /\ Transfers' = Transfers \ {done["transfer"] + 1}
                            /\ done'["transfer"] = done["transfer"] + 1
                            /\ Computes' = Computes /\ done'["compute"] = done["compute"]
      /\ st = "compute" => /\ Computes' = Computes \ {done["compute"] + 1}
                           /\ done'["compute"] = done["compute"] + 1
                           /\ Transfers' = Transfers /\ done'["transfer"] = done["transfer"]
  BY <1>1, <1>2, PopShrinks
<1>4. /\ Transfers' \subseteq Transfers /\ Computes' \subseteq Computes
      /\ \A n \in Transfers' : Transfer(n)' = Transfer(n)
      /\ \A a \in Computes' : Compute(a)' = Compute(a)
  BY <1>3 DEF Shrinks
<1>5. /\ call' = call /\ pc' = pc /\ linear' = linear /\ combined' = combined
      /\ last_prepared_slot' = last_prepared_slot /\ issued' = issued
  BY <1>1 DEF host, slots
<1>6. Head(queue[st]) = queue[st][(done[st] + 1) - done[st]]
  BY <1>1, <1>2, HeadNumber
<1>7. st = "transfer" =>
        \E n \in Transfers : /\ n = done["transfer"] + 1 /\ IsCopy(n)
                             /\ content' = [content EXCEPT ![Transfer(n).slot][Transfer(n).buffer]
                                                               = Transfer(n).call]
  BY <1>1, <1>6 DEF StInv, Started, Finish, Transfer
<1>8. st = "compute" => /\ content' = content
                        /\ \E a \in Computes : a = done["compute"] + 1 /\ IsKernel(a)
  BY <1>1 DEF StInv, Started, Finish
<1>9. content \in [Slots -> [Buffers -> 0 .. MaxCalls]]
  BY <1>1 DEF QType, TypeOK
<1>10. \A s \in Slots, b \in Buffers :
        \/ content'[s][b] = content[s][b]
        \/ \E n \in Transfers : /\ n = done["transfer"] + 1 /\ Into(n, s, b)
                                /\ content'[s][b] = Transfer(n).call
  <2>1. CASE st = "transfer"
    <3>1. PICK n \in Transfers :
              /\ n = done["transfer"] + 1 /\ IsCopy(n)
              /\ content' = [content EXCEPT ![Transfer(n).slot][Transfer(n).buffer] = Transfer(n).call]
      BY <1>7, <2>1
    <3>2. \A s \in Slots, b \in Buffers :
             \/ s = Transfer(n).slot /\ b = Transfer(n).buffer /\ content'[s][b] = Transfer(n).call
             \/ content'[s][b] = content[s][b]
      BY <1>9, <3>1
    <3>. QED BY <3>1, <3>2 DEF Into
  <2>. QED BY <1>8, <2>1 DEF Streams
<1>11. QType'
  <2>1. content' \in [Slots -> [Buffers -> 0 .. MaxCalls]]
    <3>1. CASE st = "transfer"
      <4>1. PICK n \in Transfers :
                /\ IsCopy(n)
                /\ content' = [content EXCEPT ![Transfer(n).slot][Transfer(n).buffer] = Transfer(n).call]
        BY <1>7, <3>1
      <4>2. Transfer(n) \in Copies
        BY <1>1, <4>1, TransferKinds
      <4>3. Transfer(n).slot \in Slots /\ Transfer(n).call \in 1 .. MaxCalls
        BY <4>2 DEF Copies
      <4>4. Transfer(n).call \in 0 .. MaxCalls
        BY <4>3, StagingAssumption
      <4>. QED BY <1>9, <4>1, <4>3, <4>4
    <3>. QED BY <1>8, <1>9, <3>1 DEF Streams
  <2>2. /\ queue'["transfer"] \in Seq(Waits("compute") \cup Copies)
        /\ queue'["compute"] \in Seq(Waits("transfer") \cup Kernels)
        /\ DOMAIN queue' = Streams /\ done' \in [Streams -> Nat]
        /\ \A o \in Streams : done'[o] + Len(queue'[o]) = issued'[o]
    BY <1>1, <1>2, PopFacts
  <2>3. TypeOK'
    BY <1>1, <2>1, <2>2 DEF QType, TypeOK, host, slots
  <2>. QED BY <1>1, <1>5, <2>2, <2>3 DEF QType
<1>12. /\ Bounded' /\ Marked' /\ InOrder' /\ Ring' /\ Ages' /\ FenceAges'
       /\ \A n \in Transfers' : (IsFence(n)' <=> IsFence(n)) /\ (IsCopy(n)' <=> IsCopy(n))
       /\ \A a \in Computes' : (IsAwait(a)' <=> IsAwait(a)) /\ (IsKernel(a)' <=> IsKernel(a))
  BY <1>3, <1>11, ShrinksKeeps
<1>13. \A m \in Transfers : IsFence(m) => m \in Transfers'
  <2>1. \A m \in Transfers : IsFence(m) => ~IsCopy(m)
    BY DEF IsFence, IsCopy
  <2>. QED BY <1>3, <1>7, <2>1 DEF Streams
<1>14. \A w \in Computes : IsAwait(w) => w \in Computes'
  <2>1. \A w \in Computes : IsAwait(w) => ~IsKernel(w)
    BY DEF IsAwait, IsKernel
  <2>. QED BY <1>3, <1>8, <2>1 DEF Streams
<1>15. ASSUME NEW a, NEW s \in Slots, NEW b \in Buffers, NEW c, Ready(a, s, b, c),
              \A n \in Transfers : n = done["transfer"] + 1 /\ IsCopy(n) /\ Transfer(n).slot = s
                                   => ~(c < Transfer(n).call)
       PROVE  Ready(a, s, b, c)'
  <2>1. \A n \in Transfers' : (Into(n, s, b)' <=> Into(n, s, b)) /\ n \in Transfers
    BY <1>4, <1>12 DEF Into
  <2>2. CASE Arrived(s, b, c)
    <3>1. content'[s][b] = content[s][b]
      BY <1>10, <1>15, <2>2 DEF Arrived, Into
    <3>. QED BY <1>4, <2>1, <2>2, <3>1 DEF Ready, Arrived
  <2>3. CASE Awaited(a, s, b, c)
    <3>1. PICK n \in Transfers, w \in Computes :
                /\ Into(n, s, b) /\ Transfer(n).call = c
                /\ IsAwait(w) /\ w < a /\ n <= Compute(w).until
      BY <2>3 DEF Awaited
    <3>2. CASE n \in Transfers'
      <4>1. w \in Computes' /\ IsAwait(w)' /\ n <= Compute(w)'.until
        BY <1>4, <1>12, <1>14, <3>1
      <4>2. Into(n, s, b)' /\ Transfer(n)'.call = c
        BY <1>4, <2>1, <3>1, <3>2
      <4>. QED BY <3>1, <3>2, <4>1, <4>2 DEF Ready, Awaited
    <3>3. CASE n \notin Transfers'
      <4>1. st = "transfer" /\ n = done["transfer"] + 1
        BY <1>3, <3>1, <3>3 DEF Streams
      <4>2. content'[s][b] = c
        <5>1. PICK h \in Transfers :
                  /\ h = done["transfer"] + 1
                  /\ content' = [content EXCEPT ![Transfer(h).slot][Transfer(h).buffer] = Transfer(h).call]
          BY <1>7, <4>1
        <5>2. Transfer(h).slot = s /\ Transfer(h).buffer = b /\ Transfer(h).call = c
          BY <3>1, <4>1, <5>1 DEF Into
        <5>. QED BY <1>9, <5>1, <5>2
      <4>3. ASSUME NEW k \in Transfers', Into(k, s, b)'
            PROVE  Transfer(k)'.call > c
        <5>1. k \in Transfers /\ Into(k, s, b) /\ Transfer(k)' = Transfer(k) /\ k # n
          BY <1>4, <2>1, <3>3, <4>3
        <5>2. n < k
          BY <1>1, <4>1, <5>1, TransferKinds, Numbered DEF Streams
        <5>3. Transfer(n).call < Transfer(k).call
          BY <3>1, <5>1, <5>2 DEF StInv, WeightsInv, InOrder, Into
        <5>. QED BY <3>1, <5>1, <5>3
      <4>. QED BY <4>2, <4>3 DEF Ready, Arrived
    <3>. QED BY <3>2, <3>3
  <2>. QED BY <1>15, <2>2, <2>3 DEF Ready
<1>16. KernelsReady'
  <2>. SUFFICES ASSUME NEW a \in Computes', IsKernel(a)', NEW b \in Compute(a)'.buffers
       PROVE  Ready(a, Compute(a).slot, b, Compute(a).call)'
    BY DEF KernelsReady
  <2>1. a \in Computes /\ IsKernel(a) /\ Compute(a)' = Compute(a)
    BY <1>4, <1>12
  <2>2. Ready(a, Compute(a).slot, b, Compute(a).call)
    BY <2>1 DEF StInv, WeightsInv, KernelsReady
  <2>3. Compute(a).slot \in Slots /\ b \in Buffers
    BY <1>1, <2>1, KernelViews
  <2>4. \A n \in Transfers : n = done["transfer"] + 1 /\ IsCopy(n) /\ Transfer(n).slot = Compute(a).slot
                             => ~(Compute(a).call < Transfer(n).call)
    BY <2>1, HeadSparesReaders
  <2>5. \A c : \A s \in Slots : s = Compute(a).slot /\ c = Compute(a).call => Ready(a, s, b, c)'
    BY <1>15, <2>2, <2>3, <2>4
  <2>. QED BY <2>1, <2>3, <2>5
<1>17. NextReady'
  <2>. SUFFICES ASSUME pc = "launch", NEW b \in Views(last_prepared_slot)
       PROVE  Ready(issued["compute"] + 1, last_prepared_slot, b, call)'
    BY <1>5 DEF NextReady, Views
  <2>1. Ready(issued["compute"] + 1, last_prepared_slot, b, call)
    BY DEF StInv, WeightsInv, NextReady
  <2>2. last_prepared_slot \in Slots /\ b \in Buffers
    BY <1>1, KernelViews
  <2>3. \A n \in Transfers : n = done["transfer"] + 1 /\ IsCopy(n) => ~(call < Transfer(n).call)
    BY HeadSparesReaders
  <2>4. \A a, c : \A s \in Slots : a = issued["compute"] + 1 /\ s = last_prepared_slot /\ c = call
                                   => Ready(a, s, b, c)'
    BY <1>15, <2>1, <2>2, <2>3
  <2>. QED BY <1>5, <2>2, <2>4
<1>18. Fenced'
  BY <1>4, <1>12, <1>13 DEF StInv, WeightsInv, Fenced, FencedFor
<1>19. NativeFenced'
  BY <1>4, <1>5, <1>12, <1>13 DEF StInv, WeightsInv, NativeFenced, FencedSoFar
<1>20. Started'
  BY <1>1, <1>3, <1>12, <1>4 DEF StInv, Started, QType, TypeOK, Streams
<1>. QED BY <1>11, <1>12, <1>16, <1>17, <1>18, <1>19, <1>20 DEF StInv, WeightsInv

-----------------------------------------------------------------------------
(* The host.                                                               *)

(* What a step of the host does to the streams: the old operations stay    *)
(* and the new ones are behind them.                                       *)
LEMMA IssueKinds ==
    ASSUME QType, NEW tr \in Seq(Waits("compute") \cup Copies),
           NEW co \in Seq(Waits("transfer") \cup Kernels), Issue(tr, co)
    PROVE  /\ Transfers \subseteq Transfers' /\ Computes \subseteq Computes'
           /\ \A n \in Transfers : /\ Transfer(n)' = Transfer(n)
                                   /\ (IsFence(n)' <=> IsFence(n)) /\ (IsCopy(n)' <=> IsCopy(n))
           /\ \A a \in Computes : /\ Compute(a)' = Compute(a)
                                  /\ (IsAwait(a)' <=> IsAwait(a)) /\ (IsKernel(a)' <=> IsKernel(a))
           /\ \A n \in Transfers' :
                  n \in Transfers \/ \E i \in 1 .. Len(tr) : n = issued["transfer"] + i
           /\ \A a \in Computes' :
                  a \in Computes \/ \E i \in 1 .. Len(co) : a = issued["compute"] + i
           /\ \A n, i : i \in 1 .. Len(tr) /\ n = issued["transfer"] + i
                  => n \in Transfers' /\ n > issued["transfer"] /\ Transfer(n)' = tr[i]
           /\ \A a, i : i \in 1 .. Len(co) /\ a = issued["compute"] + i
                  => a \in Computes' /\ a > issued["compute"] /\ Compute(a)' = co[i]
           /\ Started => Started'
<1>1. /\ done' = done /\ busy' = busy
      /\ Transfers' = done["transfer"] + 1 .. issued["transfer"] + Len(tr)
      /\ Computes' = done["compute"] + 1 .. issued["compute"] + Len(co)
      /\ \A n \in Transfers : Transfer(n)' = Transfer(n)
      /\ \A a \in Computes : Compute(a)' = Compute(a)
  BY IssueFacts
<1>2. /\ \A n \in Nat, i \in 1 .. Len(tr) : n = issued["transfer"] + i => Transfer(n)' = tr[i]
      /\ \A a \in Nat, i \in 1 .. Len(co) : a = issued["compute"] + i => Compute(a)' = co[i]
  BY IssueFacts
<1>3. /\ Len(tr) \in Nat /\ Len(co) \in Nat
      /\ done["transfer"] \in Nat /\ issued["transfer"] \in Nat /\ issued["transfer"] >= done["transfer"]
      /\ done["compute"] \in Nat /\ issued["compute"] \in Nat /\ issued["compute"] >= done["compute"]
  <2>1. "transfer" \in Streams /\ "compute" \in Streams /\ Len(tr) \in Nat /\ Len(co) \in Nat
    BY DEF Streams
  <2>. QED BY <2>1, Numbered
<1>4. /\ Transfers = done["transfer"] + 1 .. issued["transfer"]
      /\ Computes = done["compute"] + 1 .. issued["compute"]
  BY DEF Transfers, Computes, Waiting
<1>5. Transfers \subseteq Transfers' /\ Computes \subseteq Computes'
  BY <1>1, <1>3, <1>4
<1>6. /\ \A n \in Transfers : (IsFence(n)' <=> IsFence(n)) /\ (IsCopy(n)' <=> IsCopy(n))
      /\ \A a \in Computes : (IsAwait(a)' <=> IsAwait(a)) /\ (IsKernel(a)' <=> IsKernel(a))
  BY <1>1 DEF IsFence, IsCopy, IsAwait, IsKernel
<1>7. ASSUME NEW n \in Transfers', n \notin Transfers
      PROVE  \E i \in 1 .. Len(tr) : n = issued["transfer"] + i
  <2>1. n \in Nat /\ n > issued["transfer"] /\ n <= issued["transfer"] + Len(tr)
    BY <1>1, <1>3, <1>4, <1>7
  <2>2. n - issued["transfer"] \in 1 .. Len(tr) /\ n = issued["transfer"] + (n - issued["transfer"])
    BY <1>3, <2>1
  <2>. QED BY <2>2
<1>8. ASSUME NEW a \in Computes', a \notin Computes
      PROVE  \E i \in 1 .. Len(co) : a = issued["compute"] + i
  <2>1. a \in Nat /\ a > issued["compute"] /\ a <= issued["compute"] + Len(co)
    BY <1>1, <1>3, <1>4, <1>8
  <2>2. a - issued["compute"] \in 1 .. Len(co) /\ a = issued["compute"] + (a - issued["compute"])
    BY <1>3, <2>1
  <2>. QED BY <2>2
<1>9. ASSUME NEW n, NEW i \in 1 .. Len(tr), n = issued["transfer"] + i
      PROVE  n \in Transfers' /\ n > issued["transfer"] /\ Transfer(n)' = tr[i]
  <2>1. n \in Nat /\ n > issued["transfer"] /\ n <= issued["transfer"] + Len(tr) /\ n > done["transfer"]
    BY <1>3, <1>9
  <2>. QED BY <1>1, <1>2, <1>3, <1>9, <2>1
<1>10. ASSUME NEW a, NEW i \in 1 .. Len(co), a = issued["compute"] + i
       PROVE  a \in Computes' /\ a > issued["compute"] /\ Compute(a)' = co[i]
  <2>1. a \in Nat /\ a > issued["compute"] /\ a <= issued["compute"] + Len(co) /\ a > done["compute"]
    BY <1>3, <1>10
  <2>. QED BY <1>1, <1>2, <1>3, <1>10, <2>1
<1>11. Started => Started'
  BY <1>1, <1>5, <1>6 DEF Started
<1>. QED BY <1>1, <1>5, <1>6, <1>7, <1>8, <1>9, <1>10, <1>11

(* A number and its residue.                                               *)
LEMMA Residue ==
    ASSUME NEW c \in Nat \ {0}, NEW q \in Int, NEW r \in 0 .. c - 1, c * q + r \in Nat
    PROVE  (c * q + r) % c = r
<1>. DEFINE x == c * q + r
            d == q - (x \div c)
<1>1. x = c * (x \div c) + (x % c) /\ x \div c \in Int /\ x % c \in 0 .. c - 1
  BY SMT
<1>2. c * d = (x % c) - r /\ d \in Int
  BY <1>1, SMT
<1>3. c * d < c /\ c * d > -c
  BY <1>1, <1>2
<1>. HIDE DEF d
<1>4. CASE d >= 1
  <2>1. c * d >= c
    BY <1>2, <1>4, SMT
  <2>. QED BY <1>2, <1>3, <2>1
<1>5. CASE d <= -1
  <2>1. c * d <= -c
    BY <1>2, <1>5, SMT
  <2>. QED BY <1>2, <1>3, <2>1
<1>6. CASE d = 0
  BY <1>1, <1>2, <1>6
<1>. QED BY <1>2, <1>4, <1>5, <1>6

(* The ring goes on by one.                                                *)
LEMMA NextResidue ==
    ASSUME NEW c \in Nat \ {0, 1}, NEW p \in Nat
    PROVE  /\ p % c \in 0 .. c - 1
           /\ ((p % c) + 1) % c = (p + 1) % c
<1>. DEFINE q == p \div c
            r == p % c
<1>1. p = c * q + r /\ q \in Int /\ r \in 0 .. c - 1
  BY SMT
<1>. HIDE DEF q, r
<1>2. CASE r + 1 < c
  <2>1. p + 1 = c * q + (r + 1) /\ r + 1 \in 0 .. c - 1
    BY <1>1, <1>2
  <2>2. (p + 1) % c = r + 1
    BY <1>1, <2>1, Residue
  <2>3. r + 1 = c * 0 + (r + 1)
    BY <1>1
  <2>4. (r + 1) % c = r + 1
    BY <2>1, <2>3, Residue
  <2>. QED BY <1>1, <2>2, <2>4 DEF r
<1>3. CASE r + 1 = c
  <2>1. p + 1 = c * (q + 1) + 0
    BY <1>1, <1>3, SMT
  <2>2. (p + 1) % c = 0
    BY <1>1, <2>1, Residue
  <2>3. r + 1 = c * 1 + 0
    BY <1>1, <1>3
  <2>4. (r + 1) % c = 0
    BY <1>1, <2>3, Residue
  <2>. QED BY <1>1, <2>2, <2>4 DEF r
<1>. QED BY <1>1, <1>2, <1>3 DEF r

(* Two calls for one slot are a round of the ring apart.                   *)
LEMMA ResidueApart ==
    ASSUME NEW c \in Nat \ {0}, NEW p \in Nat, NEW q \in Nat, p < q, p % c = q % c
    PROVE  p + c <= q
<1>. DEFINE d == (q \div c) - (p \div c)
<1>1. /\ p = c * (p \div c) + (p % c) /\ p \div c \in Int
      /\ q = c * (q \div c) + (q % c) /\ q \div c \in Int
      /\ p % c \in Int
  BY SMT
<1>2. q - p = c * d /\ d \in Int
  BY <1>1, SMT
<1>. HIDE DEF d
<1>3. CASE d <= 0
  <2>1. c * d <= 0
    BY <1>2, <1>3, SMT
  <2>. QED BY <1>2, <2>1
<1>4. CASE d >= 1
  <2>1. c * d >= c
    BY <1>2, <1>4, SMT
  <2>. QED BY <1>2, <2>1
<1>. QED BY <1>2, <1>3, <1>4

(* The mark is behind the kernel of the call.                              *)
LEMMA MarkKeeps ==
    ASSUME StInv, MarkKernelLaunched
    PROVE  StInv'
<1>1. /\ QType /\ pc = "mark" /\ pc' = "idle"
      /\ UNCHANGED <<call, linear, next_slot, last_prepared_slot, transfer_event, combined,
                     content, queue, busy, issued, done>>
      /\ compute_event' = [compute_event EXCEPT ![last_prepared_slot] = issued["compute"]]
      /\ primed' = [primed EXCEPT ![last_prepared_slot] = TRUE]
  BY DEF StInv, MarkKernelLaunched, LastIssued, streams
<1>2. /\ last_prepared_slot \in Slots /\ issued["compute"] \in Nat
      /\ primed \in [Slots -> BOOLEAN] /\ compute_event \in [Slots -> Nat]
      /\ call \in 1 .. MaxCalls
  BY <1>1, StagingAssumption DEF QType, TypeOK, Streams
<1>3. /\ Transfers' = Transfers /\ Computes' = Computes
      /\ \A n : Transfer(n)' = Transfer(n)
      /\ \A a : Compute(a)' = Compute(a)
  BY <1>1 DEF Transfers, Computes, Waiting, Transfer, Compute
<1>4. /\ \A n : (IsFence(n)' <=> IsFence(n)) /\ (IsCopy(n)' <=> IsCopy(n))
      /\ \A a : (IsAwait(a)' <=> IsAwait(a)) /\ (IsKernel(a)' <=> IsKernel(a))
  BY <1>3 DEF IsFence, IsCopy, IsAwait, IsKernel
<1>5. QType'
  <2>1. primed' \in [Slots -> BOOLEAN] /\ compute_event' \in [Slots -> Nat]
    BY <1>1, <1>2
  <2>2. TypeOK'
    BY <1>1, <2>1 DEF QType, TypeOK
  <2>. QED BY <1>1, <2>2 DEF QType
<1>6. Bounded' /\ Started'
  BY <1>1, <1>2, <1>3, <1>4 DEF StInv, Bounded, Started
<1>7. KernelsReady' /\ Fenced' /\ InOrder'
  BY <1>1, <1>3, <1>4 DEF StInv, WeightsInv, KernelsReady, Ready, Awaited, Arrived, Into,
                          Fenced, FencedFor, InOrder
<1>8. NextReady' /\ NativeFenced' /\ Ring'
  BY <1>1 DEF StInv, NextReady, NativeFenced, Ring
<1>9. Marked'
  <2>. SUFFICES ASSUME NEW a \in Computes, IsKernel(a)
       PROVE  primed'[Compute(a).slot] /\ a <= compute_event'[Compute(a).slot]
    BY <1>3, <1>4 DEF Marked
  <2>1. a <= issued["compute"] /\ Compute(a).slot \in Slots
    BY <1>1, ComputeKinds, KernelViews
  <2>2. CASE Compute(a).slot = last_prepared_slot
    BY <1>1, <1>2, <2>1, <2>2
  <2>3. CASE Compute(a).slot # last_prepared_slot
    BY <1>1, <1>2, <2>1, <2>3 DEF StInv, WeightsInv, Marked
  <2>. QED BY <2>2, <2>3
<1>10. Ages'
  <2>. SUFFICES ASSUME NEW s \in Slots, primed'[s]
       PROVE  \E c \in 1 .. call :
                 /\ SlotOfCall(c) = s
                 /\ \A a \in Computes : IsKernel(a) /\ a <= compute_event'[s] => Compute(a).call <= c
    BY <1>1, <1>3, <1>4 DEF Ages, SlotOfCall
  <2>1. CASE s = last_prepared_slot
    <3>1. call \in 1 .. call /\ SlotOfCall(call) = s
      BY <1>1, <1>2, <2>1 DEF StInv, Ring
    <3>2. \A a \in Computes : IsKernel(a) => Compute(a).call <= call
      BY DEF StInv, Bounded
    <3>. QED BY <3>1, <3>2
  <2>2. CASE s # last_prepared_slot
    BY <1>1, <1>2, <2>2 DEF StInv, Ages
  <2>. QED BY <2>1, <2>2
<1>11. FenceAges'
  BY <1>3, <1>4 DEF StInv, FenceAges
<1>. QED BY <1>5, <1>6, <1>7, <1>8, <1>9, <1>10, <1>11 DEF StInv, WeightsInv

(* The kernel, if it is launched, is issued behind the wait for its copies.*)
LEMMA LaunchKeeps ==
    ASSUME StInv, Launch
    PROVE  StInv'
<1>1. /\ QType /\ pc = "launch" /\ pc' = "mark"
      /\ UNCHANGED <<call, linear, next_slot, last_prepared_slot, slots, content>>
  BY DEF StInv, Launch
<1>. DEFINE kernel == Kernel(last_prepared_slot, Views(last_prepared_slot), call)
            top == issued["compute"] + 1
<1>2. PICK co : (co = <<kernel>> \/ co = <<>>) /\ Issue(<<>>, co)
  BY DEF Launch
<1>3. kernel \in Kernels
  <2>1. last_prepared_slot \in Slots /\ Views(last_prepared_slot) \subseteq Buffers
    BY <1>1, KernelViews
  <2>2. call \in 1 .. MaxCalls
    BY <1>1, StagingAssumption DEF QType, TypeOK
  <2>. QED BY <2>1, <2>2 DEF Kernel, Kernels
<1>. HIDE DEF kernel
<1>4. co \in Seq(Waits("transfer") \cup Kernels) /\ <<>> \in Seq(Waits("compute") \cup Copies)
  <2>1. CASE co = <<kernel>>
    BY <1>3, <2>1
  <2>2. CASE co = <<>>
    BY <2>2
  <2>. QED BY <1>2, <2>1, <2>2
<1>5. /\ issued' \in [Streams -> Nat] /\ issued["compute"] \in Nat /\ busy' = busy
      /\ issued'["transfer"] = issued["transfer"] /\ issued'["compute"] >= issued["compute"]
      /\ queue'["transfer"] \in Seq(Waits("compute") \cup Copies)
      /\ queue'["compute"] \in Seq(Waits("transfer") \cup Kernels)
      /\ DOMAIN queue' = Streams /\ done' = done
      /\ \A o \in Streams : done'[o] + Len(queue'[o]) = issued'[o]
  <2>1. issued["transfer"] \in Nat /\ issued["compute"] \in Nat
    BY <1>1, Numbered DEF Streams
  <2>2. Len(<<>>) = 0 /\ Len(co) \in Nat
    BY <1>4
  <2>3. issued["transfer"] + Len(<<>>) = issued["transfer"] /\ issued["compute"] + Len(co) >= issued["compute"]
    BY <2>1, <2>2
  <2>. QED BY <1>1, <1>2, <1>4, <2>1, <2>3, IssueFacts
<1>6. QType'
  <2>1. TypeOK'
    BY <1>1, <1>5 DEF QType, TypeOK, slots
  <2>2. call >= 1
    BY <1>1 DEF QType
  <2>. QED BY <1>1, <1>5, <2>1, <2>2 DEF QType
<1>7. /\ \A n \in Transfers : /\ Transfer(n)' = Transfer(n)
                              /\ (IsFence(n)' <=> IsFence(n)) /\ (IsCopy(n)' <=> IsCopy(n))
      /\ \A a \in Computes : /\ Compute(a)' = Compute(a)
                             /\ (IsAwait(a)' <=> IsAwait(a)) /\ (IsKernel(a)' <=> IsKernel(a))
      /\ Computes \subseteq Computes' /\ Started'
  BY <1>1, <1>2, <1>4, IssueKinds DEF StInv
<1>8. Transfers' = Transfers
  <2>1. Transfers \subseteq Transfers'
    BY <1>1, <1>2, <1>4, IssueKinds
  <2>2. \A n \in Transfers' : n \in Transfers \/ \E i \in 1 .. Len(<<>>) : n = issued["transfer"] + i
    BY <1>1, <1>2, <1>4, IssueKinds
  <2>3. 1 .. Len(<<>>) = {}
    OBVIOUS
  <2>. QED BY <2>1, <2>2, <2>3
<1>9. ASSUME NEW a \in Computes', a \notin Computes
      PROVE  /\ a = top /\ a > issued["compute"] /\ Compute(a)' = kernel
             /\ IsKernel(a)' /\ ~IsAwait(a)'
  <2>1. PICK i \in 1 .. Len(co) : a = issued["compute"] + i
    BY <1>1, <1>2, <1>4, <1>9, IssueKinds
  <2>2. co = <<kernel>> /\ i = 1
    <3>1. CASE co = <<kernel>>
      BY <2>1, <3>1
    <3>2. CASE co = <<>>
      BY <2>1, <3>2
    <3>. QED BY <1>2, <3>1, <3>2
  <2>3. a > issued["compute"] /\ Compute(a)' = co[i]
    BY <1>1, <1>2, <1>4, <2>1, IssueKinds
  <2>4. kernel.op = "kernel"
    BY <1>3 DEF Kernels
  <2>. QED BY <2>1, <2>2, <2>3, <2>4 DEF IsKernel, IsAwait
<1>10. /\ kernel.slot = last_prepared_slot /\ kernel.call = call
       /\ kernel.buffers = Views(last_prepared_slot)
  BY DEF kernel, Kernel
<1>11. Bounded'
  <2>1. \A n \in Transfers : IsFence(n) => Transfer(n).until \in Nat
    BY <1>1, TransferKinds DEF Waits
  <2>2. \A s \in Slots : compute_event[s] \in Nat
    BY <1>1 DEF QType, TypeOK
  <2>3. issued'["compute"] \in Nat /\ call \in Nat
    BY <1>1, <1>5 DEF QType, TypeOK, Streams
  <2>4. \A n \in Transfers : IsFence(n) => Transfer(n).until <= issued'["compute"]
    BY <1>5, <2>1, <2>3 DEF StInv, Bounded
  <2>5. \A s \in Slots : compute_event[s] <= issued'["compute"]
    BY <1>5, <2>2, <2>3 DEF StInv, Bounded
  <2>. QED BY <1>1, <1>5, <1>7, <1>8, <1>9, <1>10, <2>3, <2>4, <2>5 DEF StInv, Bounded, slots
<1>12. \A a, s, b, c : Ready(a, s, b, c) => Ready(a, s, b, c)'
  <2>1. \A n, s, b : n \in Transfers => (Into(n, s, b)' <=> Into(n, s, b))
    BY <1>7 DEF Into
  <2>. QED BY <1>1, <1>7, <1>8, <2>1 DEF Ready, Awaited, Arrived
<1>13. KernelsReady'
  <2>. SUFFICES ASSUME NEW a \in Computes', IsKernel(a)', NEW b \in Compute(a)'.buffers
       PROVE  Ready(a, Compute(a).slot, b, Compute(a).call)'
    BY DEF KernelsReady
  <2>1. CASE a \in Computes
    BY <1>7, <1>12, <2>1 DEF StInv, WeightsInv, KernelsReady
  <2>2. CASE a \notin Computes
    BY <1>1, <1>9, <1>10, <1>12, <2>2 DEF StInv, WeightsInv, NextReady
  <2>. QED BY <2>1, <2>2
<1>14. NextReady' /\ NativeFenced' /\ Ring'
  BY <1>1 DEF StInv, NextReady, NativeFenced, Ring
<1>15. Fenced'
  <2>. SUFFICES ASSUME NEW n \in Transfers, NEW a \in Computes', IsCopy(n), IsKernel(a)',
                       Transfer(n).slot = Compute(a)'.slot, Compute(a)'.call < Transfer(n).call
       PROVE  FencedFor(n, a)'
    BY <1>7, <1>8 DEF Fenced
  <2>1. CASE a \in Computes
    <3>1. FencedFor(n, a)
      BY <1>7, <2>1 DEF StInv, WeightsInv, Fenced
    <3>. QED BY <1>7, <1>8, <3>1 DEF FencedFor
  <2>2. CASE a \notin Computes
    <3>1. Transfer(n).call <= call /\ call < Transfer(n).call
      BY <1>9, <1>10, <2>2 DEF StInv, Bounded
    <3>2. Transfer(n) \in Copies /\ call \in Nat
      BY <1>1, TransferKinds DEF QType, TypeOK
    <3>3. Transfer(n).call \in Nat
      BY <3>2, StagingAssumption DEF Copies
    <3>. QED BY <3>1, <3>2, <3>3
  <2>. QED BY <2>1, <2>2
<1>16. Marked'
  BY <1>1, <1>7, <1>9, <1>10 DEF StInv, WeightsInv, Marked, slots
<1>17. InOrder'
  BY <1>7, <1>8 DEF StInv, WeightsInv, InOrder
<1>18. Ages'
  <2>1. \A s \in Slots, a \in Computes' : a <= compute_event[s] => a \in Computes
    <3>1. \A s \in Slots : compute_event[s] \in Nat /\ compute_event[s] <= issued["compute"]
      BY <1>1 DEF StInv, Bounded, QType, TypeOK
    <3>2. \A a \in Computes' : a \notin Computes => a = issued["compute"] + 1
      BY <1>9
    <3>. QED BY <1>5, <3>1, <3>2
  <2>. QED BY <1>1, <1>7, <2>1 DEF StInv, Ages, slots
<1>19. FenceAges'
  <2>1. \A n \in Transfers, a \in Computes' : IsFence(n) /\ a <= Transfer(n).until => a \in Computes
    <3>1. \A n \in Transfers : IsFence(n) => Transfer(n).until \in Nat /\ Transfer(n).until <= issued["compute"]
      BY <1>1, TransferKinds DEF Waits, StInv, Bounded
    <3>2. \A a \in Computes' : a \notin Computes => a = issued["compute"] + 1
      BY <1>9
    <3>. QED BY <1>5, <3>1, <3>2
  <2>. QED BY <1>7, <1>8, <2>1 DEF StInv, FenceAges
<1>. QED BY <1>6, <1>7, <1>11, <1>13, <1>14, <1>15, <1>16, <1>17, <1>18, <1>19
         DEF StInv, WeightsInv

(* The native copy is in order: the fence of this matvec is in front of it *)
(* and the kernel waits for it.                                            *)
LEMMA PrepareNativeKeeps ==
    ASSUME StInv, PrepareNative
    PROVE  StInv'
<1>. DEFINE top  == issued["transfer"] + 1
            here == issued["compute"] + 1
            tr   == <<Copy(last_prepared_slot, "native", call)>>
            co   == <<Wait("transfer", top)>>
<1>1. /\ QType /\ pc = "native" /\ pc' = "launch"
      /\ UNCHANGED <<call, linear, next_slot, last_prepared_slot, primed, compute_event,
                     combined, content>>
      /\ Issue(tr, <<Wait("transfer", issued["transfer"] + Len(tr))>>)
      /\ transfer_event' = [transfer_event EXCEPT ![last_prepared_slot] = issued["transfer"] + Len(tr)]
  BY DEF StInv, PrepareNative, StageNative, Stage
<1>2. /\ issued["transfer"] \in Nat /\ issued["compute"] \in Nat /\ top \in Nat /\ here \in Nat
      /\ call \in 1 .. MaxCalls /\ last_prepared_slot \in Slots
  <2>. HIDE DEF tr, co
  <2>1. issued["transfer"] \in Nat /\ issued["compute"] \in Nat
    BY <1>1, Numbered DEF Streams
  <2>2. call \in 0 .. MaxCalls /\ call >= 1 /\ last_prepared_slot \in Slots
    BY <1>1 DEF QType, TypeOK
  <2>. QED BY <2>1, <2>2, StagingAssumption
<1>3. Len(tr) = 1 /\ Len(co) = 1 /\ Issue(tr, co)
  BY <1>1
<1>4. tr \in Seq(Waits("compute") \cup Copies) /\ co \in Seq(Waits("transfer") \cup Kernels)
  BY <1>2 DEF Copy, Copies, Wait, Waits, Buffers
<1>5. /\ tr[1].op = "copy" /\ tr[1].slot = last_prepared_slot /\ tr[1].buffer = "native"
      /\ tr[1].call = call
      /\ co[1].op = "wait" /\ co[1].until = top
  BY DEF Copy, Wait
<1>. HIDE DEF tr, co
<1>6. /\ issued' \in [Streams -> Nat] /\ busy' = busy /\ done' = done
      /\ issued'["transfer"] = top /\ issued'["compute"] = here
      /\ queue'["transfer"] \in Seq(Waits("compute") \cup Copies)
      /\ queue'["compute"] \in Seq(Waits("transfer") \cup Kernels)
      /\ DOMAIN queue' = Streams
      /\ \A o \in Streams : done'[o] + Len(queue'[o]) = issued'[o]
  BY <1>1, <1>3, <1>4, IssueFacts
<1>7. QType'
  <2>1. transfer_event' \in [Slots -> Nat]
    BY <1>1, <1>2, <1>3 DEF QType, TypeOK
  <2>2. TypeOK'
    BY <1>1, <1>6, <2>1 DEF QType, TypeOK
  <2>3. call >= 1
    BY <1>1 DEF QType
  <2>. QED BY <1>1, <1>6, <2>2, <2>3 DEF QType
<1>8. /\ Transfers \subseteq Transfers' /\ Computes \subseteq Computes'
      /\ \A n \in Transfers : /\ Transfer(n)' = Transfer(n)
                              /\ (IsFence(n)' <=> IsFence(n)) /\ (IsCopy(n)' <=> IsCopy(n))
      /\ \A a \in Computes : /\ Compute(a)' = Compute(a)
                             /\ (IsAwait(a)' <=> IsAwait(a)) /\ (IsKernel(a)' <=> IsKernel(a))
      /\ Started'
  BY <1>1, <1>3, <1>4, IssueKinds DEF StInv
<1>9. \A n : n = top =>
        /\ n \in Transfers' /\ n > issued["transfer"] /\ IsCopy(n)' /\ ~IsFence(n)'
        /\ Transfer(n)'.slot = last_prepared_slot /\ Transfer(n)'.buffer = "native"
        /\ Transfer(n)'.call = call
  <2>1. \A n, i : i \in 1 .. Len(tr) /\ n = issued["transfer"] + i
                  => n \in Transfers' /\ n > issued["transfer"] /\ Transfer(n)' = tr[i]
    BY <1>1, <1>3, <1>4, IssueKinds
  <2>2. \A n : n = top => n \in Transfers' /\ n > issued["transfer"] /\ Transfer(n)' = tr[1]
    BY <1>3, <2>1
  <2>. QED BY <1>5, <2>2 DEF IsCopy, IsFence
<1>10. \A a : a = here =>
         /\ a \in Computes' /\ a > issued["compute"] /\ IsAwait(a)' /\ ~IsKernel(a)'
         /\ Compute(a)'.until = top
  <2>1. \A a, i : i \in 1 .. Len(co) /\ a = issued["compute"] + i
                  => a \in Computes' /\ a > issued["compute"] /\ Compute(a)' = co[i]
    BY <1>1, <1>3, <1>4, IssueKinds
  <2>2. \A a : a = here => a \in Computes' /\ a > issued["compute"] /\ Compute(a)' = co[1]
    BY <1>3, <2>1
  <2>. QED BY <1>5, <2>2 DEF IsKernel, IsAwait
<1>11. \A n \in Transfers' : n \in Transfers \/ n = top
  <2>1. \A n \in Transfers' : n \in Transfers \/ \E i \in 1 .. Len(tr) : n = issued["transfer"] + i
    BY <1>1, <1>3, <1>4, IssueKinds
  <2>. QED BY <1>3, <2>1
<1>12. \A a \in Computes' : a \in Computes \/ a = here
  <2>1. \A a \in Computes' : a \in Computes \/ \E i \in 1 .. Len(co) : a = issued["compute"] + i
    BY <1>1, <1>3, <1>4, IssueKinds
  <2>. QED BY <1>3, <2>1
<1>13. /\ \A n \in Transfers : n \in Nat /\ n <= issued["transfer"]
       /\ \A a \in Computes : a \in Nat /\ a <= issued["compute"]
       /\ \A n \in Transfers : IsFence(n) => Transfer(n).until \in Nat
       /\ \A a \in Computes : IsAwait(a) => Compute(a).until \in Nat
       /\ \A s \in Slots : compute_event[s] \in Nat
  <2>1. \A n \in Transfers : IsFence(n) => Transfer(n).until \in Nat
    BY <1>1, TransferKinds DEF Waits
  <2>2. \A a \in Computes : IsAwait(a) => Compute(a).until \in Nat
    BY <1>1, ComputeKinds DEF Waits
  <2>. QED BY <1>1, <2>1, <2>2, TransferKinds, ComputeKinds DEF QType, TypeOK
<1>. HIDE DEF top, here
<1>14. /\ \A n \in Transfers : n < top /\ \A a \in Computes : a < here
       /\ issued["transfer"] < top /\ issued["compute"] < here
  BY <1>2, <1>13 DEF top, here
<1>15. Bounded'
  <2>1. /\ \A n \in Transfers : IsFence(n) => Transfer(n).until <= here
        /\ \A a \in Computes : IsAwait(a) => Compute(a).until <= top
        /\ \A s \in Slots : compute_event[s] <= here
    BY <1>2, <1>13, <1>14 DEF StInv, Bounded
  <2>2. top <= top /\ call <= call
    BY <1>2
  <2>. QED BY <1>1, <1>6, <1>8, <1>9, <1>10, <1>11, <1>12, <2>1, <2>2 DEF StInv, Bounded
<1>16. KernelsReady'
  <2>. SUFFICES ASSUME NEW a \in Computes, IsKernel(a), NEW b \in Compute(a).buffers
       PROVE  Ready(a, Compute(a).slot, b, Compute(a).call)'
    BY <1>8, <1>10, <1>12 DEF KernelsReady
  <2>1. Ready(a, Compute(a).slot, b, Compute(a).call) /\ Compute(a)' = Compute(a)
    BY <1>8 DEF StInv, WeightsInv, KernelsReady
  <2>2. Compute(a).call < call
    BY <1>1 DEF StInv, WeightsInv, NativeFenced
  <2>3. \A n \in Transfers : \A s : Into(n, s, b)' <=> Into(n, s, b)
    BY <1>8 DEF Into
  <2>4. CASE Awaited(a, Compute(a).slot, b, Compute(a).call)
    BY <1>8, <2>1, <2>3, <2>4 DEF Ready, Awaited
  <2>5. CASE Arrived(Compute(a).slot, b, Compute(a).call)
    <3>1. Compute(a).call \in Nat
      BY <1>1, KernelViews, StagingAssumption
    <3>2. \A n : n = top => Transfer(n)'.call > Compute(a).call
      BY <1>2, <1>9, <2>2, <3>1
    <3>. QED BY <1>1, <1>8, <1>11, <2>1, <2>3, <2>5, <3>2 DEF Ready, Arrived
  <2>. QED BY <2>1, <2>4, <2>5 DEF Ready
<1>17. NextReady'
  <2>. SUFFICES ASSUME NEW b \in Views(last_prepared_slot)'
       PROVE  Ready(issued["compute"] + 1, last_prepared_slot, b, call)'
    BY DEF NextReady
  <2>1. b = "native"
    BY <1>1 DEF StInv, WeightsInv, NativeFenced, Views
  <2>2. \A n : n = top => n \in Transfers' /\ Into(n, last_prepared_slot, b)' /\ Transfer(n)'.call = call
    BY <1>1, <1>9, <2>1 DEF Into
  <2>3. \A w : w = here => w \in Computes' /\ IsAwait(w)' /\ w < issued'["compute"] + 1
                           /\ top <= Compute(w)'.until
    BY <1>2, <1>6, <1>10
  <2>4. Awaited(issued["compute"] + 1, last_prepared_slot, b, call)'
    BY <1>1, <2>2, <2>3 DEF Awaited
  <2>. QED BY <2>4 DEF Ready
<1>18. Fenced'
  <2>. SUFFICES ASSUME NEW n \in Transfers', NEW a \in Computes, IsCopy(n)', IsKernel(a),
                       Transfer(n)'.slot = Compute(a).slot, Compute(a).call < Transfer(n)'.call
       PROVE  FencedFor(n, a)'
    BY <1>8, <1>10, <1>12 DEF Fenced
  <2>1. CASE n \in Transfers
    <3>1. FencedFor(n, a)
      BY <1>8, <2>1 DEF StInv, WeightsInv, Fenced
    <3>. QED BY <1>8, <3>1 DEF FencedFor
  <2>2. CASE n = top
    <3>1. FencedSoFar(a)
      BY <1>1, <1>9, <2>2 DEF StInv, WeightsInv, NativeFenced
    <3>. QED BY <1>8, <1>14, <2>2, <3>1 DEF FencedFor, FencedSoFar
  <2>. QED BY <1>11, <2>1, <2>2
<1>19. NativeFenced'
  BY <1>1 DEF NativeFenced
<1>20. Marked'
  BY <1>1, <1>8, <1>10, <1>12 DEF StInv, WeightsInv, Marked
<1>21. InOrder'
  <2>. SUFFICES ASSUME NEW n \in Transfers', NEW k \in Transfers', n < k, IsCopy(n)', IsCopy(k)',
                       Transfer(n)'.slot = Transfer(k)'.slot, Transfer(n)'.buffer = Transfer(k)'.buffer
       PROVE  Transfer(n)'.call < Transfer(k)'.call
    BY DEF InOrder
  <2>1. n \in Transfers
    <3>1. CASE n = top
      BY <1>2, <1>11, <1>13, <1>14, <3>1
    <3>. QED BY <1>11, <3>1
  <2>2. CASE k \in Transfers
    BY <1>8, <2>1, <2>2 DEF StInv, WeightsInv, InOrder
  <2>3. CASE k = top
    BY <1>1, <1>8, <1>9, <2>1, <2>3 DEF StInv, WeightsInv, NativeFenced
  <2>. QED BY <1>11, <2>2, <2>3
<1>22. Ring'
  BY <1>1 DEF StInv, Ring, SlotOfCall
<1>23. Ages'
  BY <1>1, <1>8, <1>10, <1>12 DEF StInv, Ages, SlotOfCall
<1>24. FenceAges'
  <2>. SUFFICES ASSUME NEW n \in Transfers, IsFence(n)
       PROVE  /\ n + 1 \in Transfers' /\ IsCopy(n + 1)'
              /\ \A a \in Computes : IsKernel(a) /\ a <= Transfer(n).until
                                     => Compute(a).call + SlotCount <= Transfer(n + 1)'.call
    BY <1>8, <1>9, <1>10, <1>11, <1>12 DEF FenceAges
  <2>. QED BY <1>8 DEF StInv, FenceAges
<1>. QED BY <1>7, <1>8, <1>15, <1>16, <1>17, <1>18, <1>19, <1>20, <1>21, <1>22, <1>23, <1>24
         DEF StInv, WeightsInv

(* What prepare_async issues to the transfer stream: copies, each into a   *)
(* buffer of its own, behind a fence if the slot has been used.            *)
Staged(tr, s, l, c) ==
    /\ tr \in Seq(Waits("compute") \cup Copies)
    /\ \A i \in 1 .. Len(tr) :
         \/ /\ tr[i].op = "wait" /\ i = 1 /\ primed[s] /\ tr[i].until = compute_event[s]
            /\ 2 \in 1 .. Len(tr) /\ tr[2].op = "copy" /\ tr[2].call = c
         \/ /\ tr[i].op = "copy" /\ tr[i].slot = s /\ tr[i].call = c /\ tr[i].buffer # "native"
            /\ primed[s] => /\ i > 1 /\ tr[1].op = "wait" /\ tr[1].until = compute_event[s]
    /\ \A i, j \in 1 .. Len(tr) :
          tr[i].op = "copy" /\ tr[j].op = "copy" /\ i # j => tr[i].buffer # tr[j].buffer
    /\ \A b \in IF l.variant = "arena" THEN {"combined"} ELSE {"packed", "scales"} :
          \E i \in 1 .. Len(tr) : tr[i].op = "copy" /\ tr[i].buffer = b

(* Its definition comes to that.                                           *)
LEMMA StagedOps ==
    ASSUME QType, NEW s \in Slots, NEW l \in Linears, NEW c \in 1 .. MaxCalls, NEW tr,
           tr = WarFence(s) \o WeightCopies(l, s, c)
    PROVE  Staged(tr, s, l, c)
<1>. DEFINE f == Wait("compute", compute_event[s])
            k == Copy(s, "combined", c)
            p == Copy(s, "packed", c)
            q == Copy(s, "scales", c)
<1>1. f \in Waits("compute") /\ {k, p, q} \subseteq Copies
  BY DEF QType, TypeOK, Wait, Waits, Copy, Copies, Buffers
<1>2. /\ f.op = "wait" /\ f.until = compute_event[s]
      /\ \A x \in {k, p, q} : x.op = "copy" /\ x.slot = s /\ x.call = c
      /\ k.buffer = "combined" /\ p.buffer = "packed" /\ q.buffer = "scales"
  BY DEF Wait, Copy
<1>3. tr = (IF primed[s] THEN <<f>> ELSE <<>>) \o (IF l.variant = "arena" THEN <<k>> ELSE <<p, q>>)
  BY DEF WarFence, WeightCopies
<1>. HIDE DEF f, k, p, q
<1>4. CASE primed[s] /\ l.variant = "arena"
  <2>1. tr = <<f>> \o <<k>>
    BY <1>3, <1>4
  <2>2. Len(tr) = 2 /\ tr[1] = f /\ tr[2] = k /\ tr \in Seq(Waits("compute") \cup Copies)
    <3>1. <<f>> \in Seq(Waits("compute") \cup Copies) /\ <<k>> \in Seq(Waits("compute") \cup Copies)
      BY <1>1
    <3>. QED BY <2>1, <3>1
  <2>. QED BY <1>2, <1>4, <2>2 DEF Staged
<1>5. CASE primed[s] /\ l.variant # "arena"
  <2>1. tr = <<f>> \o <<p, q>>
    BY <1>3, <1>5
  <2>2. Len(tr) = 3 /\ tr[1] = f /\ tr[2] = p /\ tr[3] = q /\ tr \in Seq(Waits("compute") \cup Copies)
    <3>1. /\ <<f>> \in Seq(Waits("compute") \cup Copies)
          /\ <<p, q>> \in Seq(Waits("compute") \cup Copies)
      BY <1>1
    <3>. QED BY <2>1, <3>1
  <2>3. /\ \A i \in 1 .. Len(tr) : i = 1 \/ i = 2 \/ i = 3
        /\ {1, 2, 3} \subseteq 1 .. Len(tr)
    BY <2>2
  <2>4. /\ tr[1].op = "wait" /\ tr[1].until = compute_event[s]
        /\ tr[2].op = "copy" /\ tr[2].slot = s /\ tr[2].call = c /\ tr[2].buffer = "packed"
        /\ tr[3].op = "copy" /\ tr[3].slot = s /\ tr[3].call = c /\ tr[3].buffer = "scales"
    BY <1>2, <2>2
  <2>5. \A i, j \in 1 .. Len(tr) :
           tr[i].op = "copy" /\ tr[j].op = "copy" /\ i # j => tr[i].buffer # tr[j].buffer
    <3>. SUFFICES ASSUME NEW i \in 1 .. Len(tr), NEW j \in 1 .. Len(tr), i # j,
                         tr[i].op = "copy", tr[j].op = "copy"
         PROVE  tr[i].buffer # tr[j].buffer
      OBVIOUS
    <3>1. (i = 2 /\ j = 3) \/ (i = 3 /\ j = 2)
      BY <2>3, <2>4
    <3>. QED BY <2>4, <3>1
  <2>6. \A i \in 1 .. Len(tr) :
           \/ /\ tr[i].op = "wait" /\ i = 1 /\ tr[i].until = compute_event[s]
              /\ 2 \in 1 .. Len(tr) /\ tr[2].op = "copy" /\ tr[2].call = c
           \/ /\ tr[i].op = "copy" /\ tr[i].slot = s /\ tr[i].call = c /\ tr[i].buffer # "native"
              /\ i > 1 /\ tr[1].op = "wait" /\ tr[1].until = compute_event[s]
    BY <2>3, <2>4
  <2>7. \A b \in {"packed", "scales"} : \E i \in 1 .. Len(tr) : tr[i].op = "copy" /\ tr[i].buffer = b
    BY <2>3, <2>4
  <2>8. (IF l.variant = "arena" THEN {"combined"} ELSE {"packed", "scales"}) = {"packed", "scales"}
    BY <1>5
  <2>9. primed[s] /\ tr \in Seq(Waits("compute") \cup Copies)
    BY <1>5, <2>2
  <2>10. \A i \in 1 .. Len(tr) :
           \/ /\ tr[i].op = "wait" /\ i = 1 /\ primed[s] /\ tr[i].until = compute_event[s]
              /\ 2 \in 1 .. Len(tr) /\ tr[2].op = "copy" /\ tr[2].call = c
           \/ /\ tr[i].op = "copy" /\ tr[i].slot = s /\ tr[i].call = c /\ tr[i].buffer # "native"
              /\ primed[s] => /\ i > 1 /\ tr[1].op = "wait" /\ tr[1].until = compute_event[s]
    BY <2>6, <2>9, Zenon
  <2>11. \A b \in IF l.variant = "arena" THEN {"combined"} ELSE {"packed", "scales"} :
            \E i \in 1 .. Len(tr) : tr[i].op = "copy" /\ tr[i].buffer = b
    BY <2>7, <2>8, Zenon
  <2>. QED BY <2>5, <2>9, <2>10, <2>11, Zenon DEF Staged
<1>6. CASE ~primed[s] /\ l.variant = "arena"
  <2>1. tr = <<k>>
    BY <1>3, <1>6
  <2>2. Len(tr) = 1 /\ tr[1] = k /\ tr \in Seq(Waits("compute") \cup Copies)
    BY <1>1, <2>1
  <2>. QED BY <1>2, <1>6, <2>2 DEF Staged
<1>7. CASE ~primed[s] /\ l.variant # "arena"
  <2>1. tr = <<p, q>>
    BY <1>3, <1>7
  <2>2. Len(tr) = 2 /\ tr[1] = p /\ tr[2] = q /\ tr \in Seq(Waits("compute") \cup Copies)
    BY <1>1, <2>1
  <2>. QED BY <1>2, <1>7, <2>2 DEF Staged
<1>. QED BY <1>4, <1>5, <1>6, <1>7

(* A linear that is refused costs a slot and nothing else.                 *)
LEMMA RefusedKeeps ==
    ASSUME StInv, pc = "idle", call < MaxCalls, call' = call + 1, next_slot' = NextSlot,
           linear' \in Linears, UNCHANGED <<pc, last_prepared_slot, slots, streams, content>>
    PROVE  StInv'
<1>1. QType /\ call \in Nat /\ call + 1 \in 0 .. MaxCalls /\ MaxCalls \in Nat
  BY StagingAssumption DEF StInv, QType, TypeOK
<1>2. next_slot' = (call + 1) % SlotCount /\ next_slot' \in Slots
  <2>1. SlotCount \in Nat \ {0, 1}
    BY StagingAssumption
  <2>2. next_slot' = ((call % SlotCount) + 1) % SlotCount
    BY DEF StInv, Ring, NextSlot
  <2>3. (call + 1) % SlotCount \in 0 .. SlotCount - 1
    BY <1>1, <2>1, NextResidue
  <2>. QED BY <1>1, <2>1, <2>2, <2>3, NextResidue DEF Slots
<1>3. QType'
  <2>1. TypeOK'
    BY <1>1, <1>2 DEF QType, TypeOK, slots, streams
  <2>. QED BY <1>1, <2>1 DEF QType, streams
<1>4. /\ Transfers' = Transfers /\ Computes' = Computes
      /\ \A n : Transfer(n)' = Transfer(n)
      /\ \A a : Compute(a)' = Compute(a)
  BY DEF Transfers, Computes, Waiting, Transfer, Compute, streams
<1>5. /\ \A n : (IsFence(n)' <=> IsFence(n)) /\ (IsCopy(n)' <=> IsCopy(n))
      /\ \A a : (IsAwait(a)' <=> IsAwait(a)) /\ (IsKernel(a)' <=> IsKernel(a))
  BY <1>4 DEF IsFence, IsCopy, IsAwait, IsKernel
<1>6. Bounded'
  <2>1. \A n \in Transfers : IsCopy(n) => Transfer(n).call \in 1 .. MaxCalls
    BY <1>1, TransferKinds DEF Copies
  <2>2. \A a \in Computes : IsKernel(a) => Compute(a).call \in 1 .. MaxCalls
    BY <1>1, KernelViews
  <2>3. /\ \A n \in Transfers : IsCopy(n) => Transfer(n).call <= call + 1
        /\ \A a \in Computes : IsKernel(a) => Compute(a).call <= call + 1
    BY <1>1, <2>1, <2>2 DEF StInv, Bounded
  <2>. QED BY <1>4, <1>5, <2>3 DEF StInv, Bounded, slots, streams
<1>7. Started' /\ InOrder' /\ Fenced' /\ FenceAges'
  BY <1>4, <1>5 DEF StInv, WeightsInv, Started, InOrder, Fenced, FencedFor, FenceAges, streams
<1>8. KernelsReady'
  BY <1>4, <1>5 DEF StInv, WeightsInv, KernelsReady, Ready, Awaited, Arrived, Into
<1>9. NextReady' /\ NativeFenced' /\ Ring'
  BY <1>2 DEF NextReady, NativeFenced, Ring
<1>10. Marked'
  BY <1>4, <1>5 DEF StInv, WeightsInv, Marked, slots
<1>11. Ages'
  <2>1. 1 .. call \subseteq 1 .. call + 1
    BY <1>1
  <2>. QED BY <1>4, <1>5, <2>1 DEF StInv, Ages, SlotOfCall, slots
<1>. QED BY <1>3, <1>6, <1>7, <1>8, <1>9, <1>10, <1>11 DEF StInv, WeightsInv

(* A linear that is staged: a fence for what is marked of its slot, its    *)
(* copies, and the wait for them.                                          *)
LEMMA StagedKeeps ==
    ASSUME StInv, NEW l \in Linears, pc = "idle", call < MaxCalls, call' = call + 1,
           next_slot' = NextSlot, linear' = l,
           Stage(next_slot, WarFence(next_slot) \o WeightCopies(l, next_slot, call')),
           combined' = [combined EXCEPT ![next_slot] = (l.variant = "arena")],
           last_prepared_slot' = next_slot, pc' = IF l.native THEN "native" ELSE "launch",
           UNCHANGED <<primed, compute_event, content>>
    PROVE  StInv'
<1>. DEFINE here == issued["compute"] + 1
<1>1. PICK s, next :
         /\ QType /\ call \in Nat /\ next \in 1 .. MaxCalls /\ next \in Nat /\ s \in Slots
         /\ MaxCalls \in Nat /\ s = next_slot /\ next = call + 1
  <2>1. /\ QType /\ call \in Nat /\ call + 1 \in 1 .. MaxCalls /\ call + 1 \in Nat
        /\ next_slot \in Slots /\ MaxCalls \in Nat
    BY StagingAssumption DEF StInv, QType, TypeOK
  <2>. QED BY <2>1
<1>2. /\ issued["transfer"] \in Nat /\ issued["compute"] \in Nat /\ here \in Nat
  BY <1>1, Numbered DEF Streams
<1>3. PICK tr : tr = WarFence(s) \o WeightCopies(l, s, next)
  OBVIOUS
<1>4. /\ tr \in Seq(Waits("compute") \cup Copies)
      /\ \A i \in 1 .. Len(tr) :
           \/ /\ tr[i].op = "wait" /\ i = 1 /\ primed[s] /\ tr[i].until = compute_event[s]
              /\ 2 \in 1 .. Len(tr) /\ tr[2].op = "copy" /\ tr[2].call = next
           \/ /\ tr[i].op = "copy" /\ tr[i].slot = s /\ tr[i].call = next /\ tr[i].buffer # "native"
              /\ primed[s] => /\ i > 1 /\ tr[1].op = "wait" /\ tr[1].until = compute_event[s]
      /\ \A i, j \in 1 .. Len(tr) :
            tr[i].op = "copy" /\ tr[j].op = "copy" /\ i # j => tr[i].buffer # tr[j].buffer
      /\ \A b \in IF l.variant = "arena" THEN {"combined"} ELSE {"packed", "scales"} :
            \E i \in 1 .. Len(tr) : tr[i].op = "copy" /\ tr[i].buffer = b
  <2>1. Staged(tr, s, l, next)
    BY <1>1, <1>3, StagedOps
  <2>. QED BY <2>1 DEF Staged
<1>. DEFINE top == issued["transfer"] + Len(tr)
            co  == <<Wait("transfer", top)>>
<1>5. /\ Issue(tr, co) /\ transfer_event' = [transfer_event EXCEPT ![s] = top]
      /\ Len(tr) \in Nat /\ top \in Nat
  BY <1>1, <1>2, <1>3, <1>4 DEF Stage
<1>6. /\ co \in Seq(Waits("transfer") \cup Kernels) /\ Len(co) = 1
      /\ co[1].op = "wait" /\ co[1].until = top
  BY <1>5 DEF Wait, Waits
<1>. HIDE DEF co
<1>7. /\ issued' \in [Streams -> Nat] /\ busy' = busy /\ done' = done
      /\ issued'["transfer"] = top /\ issued'["compute"] = here
      /\ queue'["transfer"] \in Seq(Waits("compute") \cup Copies)
      /\ queue'["compute"] \in Seq(Waits("transfer") \cup Kernels)
      /\ DOMAIN queue' = Streams
      /\ \A o \in Streams : done'[o] + Len(queue'[o]) = issued'[o]
  <2>1. /\ issued' \in [Streams -> Nat] /\ busy' = busy /\ done' = done
        /\ issued'["transfer"] = issued["transfer"] + Len(tr)
        /\ issued'["compute"] = issued["compute"] + Len(co)
        /\ queue'["transfer"] \in Seq(Waits("compute") \cup Copies)
        /\ queue'["compute"] \in Seq(Waits("transfer") \cup Kernels)
        /\ DOMAIN queue' = Streams
        /\ \A o \in Streams : done'[o] + Len(queue'[o]) = issued'[o]
    <3>. HIDE DEF top, here
    <3>1. QType /\ tr \in Seq(Waits("compute") \cup Copies)
          /\ co \in Seq(Waits("transfer") \cup Kernels) /\ Issue(tr, co)
      BY <1>1, <1>4, <1>5, <1>6
    <3>. QED BY <3>1, IssueFacts
  <2>. QED BY <1>6, <2>1
<1>8. next_slot' = next % SlotCount /\ next_slot' \in Slots /\ s = (next - 1) % SlotCount
  <2>1. SlotCount \in Nat \ {0, 1}
    BY StagingAssumption
  <2>2. next_slot' = ((call % SlotCount) + 1) % SlotCount /\ s = call % SlotCount
    BY <1>1 DEF StInv, Ring, NextSlot
  <2>3. (call + 1) % SlotCount \in 0 .. SlotCount - 1
    BY <1>1, <2>1, NextResidue
  <2>4. next - 1 = call
    BY <1>1
  <2>. QED BY <1>1, <2>1, <2>2, <2>3, <2>4, NextResidue DEF Slots
<1>9. QType'
  <2>1. /\ transfer_event' \in [Slots -> Nat] /\ combined' \in [Slots -> BOOLEAN]
    BY <1>1, <1>5 DEF QType, TypeOK
  <2>2. TypeOK'
    <3>1. call' \in 0 .. MaxCalls /\ last_prepared_slot' \in Slots
      BY <1>1
    <3>2. pc' \in {"idle", "native", "launch", "mark"}
      OBVIOUS
    <3>3. primed' \in [Slots -> BOOLEAN] /\ compute_event' \in [Slots -> Nat]
          /\ content' \in [Slots -> [Buffers -> 0 .. MaxCalls]] /\ busy' \in [Streams -> BOOLEAN]
      BY <1>1, <1>7 DEF QType, TypeOK
    <3>. QED BY <1>7, <1>8, <2>1, <3>1, <3>2, <3>3 DEF TypeOK
  <2>3. call' >= 1
    BY <1>1
  <2>. QED BY <1>1, <1>7, <2>2, <2>3 DEF QType
<1>10. /\ Transfers \subseteq Transfers' /\ Computes \subseteq Computes'
       /\ \A n \in Transfers : /\ Transfer(n)' = Transfer(n)
                               /\ (IsFence(n)' <=> IsFence(n)) /\ (IsCopy(n)' <=> IsCopy(n))
       /\ \A a \in Computes : /\ Compute(a)' = Compute(a)
                              /\ (IsAwait(a)' <=> IsAwait(a)) /\ (IsKernel(a)' <=> IsKernel(a))
       /\ Started'
  BY <1>1, <1>4, <1>5, <1>6, IssueKinds DEF StInv
<1>11. /\ \A n \in Transfers' :
             n \in Transfers \/ \E i \in 1 .. Len(tr) : n = issued["transfer"] + i
       /\ \A n, i : i \in 1 .. Len(tr) /\ n = issued["transfer"] + i
                  => n \in Transfers' /\ n > issued["transfer"] /\ Transfer(n)' = tr[i]
  BY <1>1, <1>4, <1>5, <1>6, IssueKinds
<1>12. /\ \A a : a = here => /\ a \in Computes' /\ a > issued["compute"] /\ IsAwait(a)' /\ ~IsKernel(a)'
                             /\ Compute(a)'.until = top
       /\ \A a \in Computes' : a \in Computes \/ a = here
  <2>1. /\ \A a, i : i \in 1 .. Len(co) /\ a = issued["compute"] + i
                  => a \in Computes' /\ a > issued["compute"] /\ Compute(a)' = co[i]
        /\ \A a \in Computes' :
             a \in Computes \/ \E i \in 1 .. Len(co) : a = issued["compute"] + i
    BY <1>1, <1>4, <1>5, <1>6, IssueKinds
  <2>2. \A a : a = here => a \in Computes' /\ a > issued["compute"] /\ Compute(a)' = co[1]
    BY <1>6, <2>1
  <2>3. \A a \in Computes' : a \in Computes \/ a = here
    BY <1>6, <2>1
  <2>. QED BY <1>6, <2>2, <2>3 DEF IsKernel, IsAwait
<1>13. /\ \A n \in Transfers : n \in Nat /\ n <= issued["transfer"]
       /\ \A a \in Computes : a \in Nat /\ a <= issued["compute"]
       /\ \A n \in Transfers : IsFence(n) => Transfer(n).until \in Nat
       /\ \A a \in Computes : IsAwait(a) => Compute(a).until \in Nat
       /\ \A n \in Transfers : IsCopy(n) => Transfer(n).call \in Nat
       /\ \A a \in Computes : IsKernel(a) => Compute(a).call \in Nat
       /\ \A r \in Slots : compute_event[r] \in Nat
  <2>1. \A n \in Transfers : /\ IsFence(n) => Transfer(n).until \in Nat
                             /\ IsCopy(n) => Transfer(n).call \in 1 .. MaxCalls
    BY <1>1, TransferKinds DEF Waits, Copies
  <2>2. \A a \in Computes : /\ IsAwait(a) => Compute(a).until \in Nat
                            /\ IsKernel(a) => Compute(a).call \in 1 .. MaxCalls
    BY <1>1, ComputeKinds DEF Waits, Kernels
  <2>3. 1 .. MaxCalls \subseteq Nat
    BY <1>1
  <2>. QED BY <1>1, <2>1, <2>2, <2>3, TransferKinds, ComputeKinds DEF QType, TypeOK
<1>. HIDE DEF top, here
<1>14. /\ \A n \in Transfers : n <= issued["transfer"] /\ n \in Nat
       /\ \A a \in Computes : a < here
       /\ issued["compute"] < here
       /\ \A n \in Transfers : IsCopy(n) => Transfer(n).call < next
       /\ \A a \in Computes : IsKernel(a) => Compute(a).call < next
  <2>1. /\ \A n \in Transfers : IsCopy(n) => Transfer(n).call <= call
        /\ \A a \in Computes : IsKernel(a) => Compute(a).call <= call
    BY DEF StInv, Bounded
  <2>. QED BY <1>1, <1>2, <1>13, <2>1 DEF here
(* What a new operation is.                                                *)
<1>15. ASSUME NEW n \in Transfers', n \notin Transfers
       PROVE  /\ n > issued["transfer"] /\ n \in Nat /\ n <= top
              /\ \/ /\ IsFence(n)' /\ ~IsCopy(n)' /\ primed[s] /\ Transfer(n)'.until = compute_event[s]
                    /\ n + 1 \in Transfers' /\ IsCopy(n + 1)' /\ Transfer(n + 1)'.call = next
                 \/ /\ IsCopy(n)' /\ ~IsFence(n)' /\ Transfer(n)'.slot = s /\ Transfer(n)'.call = next
                    /\ Transfer(n)'.buffer # "native"
                    /\ primed[s] => \E m \in Transfers' :
                                      IsFence(m)' /\ m < n /\ Transfer(m)'.until = compute_event[s]
  <2>1. PICK i \in 1 .. Len(tr) : n = issued["transfer"] + i
    BY <1>11, <1>15
  <2>2. n \in Transfers' /\ n > issued["transfer"] /\ Transfer(n)' = tr[i]
    BY <1>11, <2>1
  <2>3. n \in Nat /\ n <= top
    BY <1>2, <1>5, <2>1 DEF top
  <2>4. CASE /\ tr[i].op = "wait" /\ i = 1 /\ primed[s] /\ tr[i].until = compute_event[s]
             /\ 2 \in 1 .. Len(tr) /\ tr[2].op = "copy" /\ tr[2].call = next
    <3>1. n + 1 = issued["transfer"] + 2
      BY <1>2, <2>1, <2>4
    <3>2. n + 1 \in Transfers' /\ Transfer(n + 1)' = tr[2]
      BY <1>11, <2>4, <3>1
    <3>. QED BY <2>2, <2>3, <2>4, <3>2 DEF IsFence, IsCopy
  <2>5. CASE /\ tr[i].op = "copy" /\ tr[i].slot = s /\ tr[i].call = next /\ tr[i].buffer # "native"
             /\ primed[s] => /\ i > 1 /\ tr[1].op = "wait" /\ tr[1].until = compute_event[s]
    <3>1. ASSUME primed[s]
          PROVE  \E m \in Transfers' : IsFence(m)' /\ m < n /\ Transfer(m)'.until = compute_event[s]
      <4>1. \A m : m = issued["transfer"] + 1 => m \in Transfers' /\ Transfer(m)' = tr[1]
        BY <1>5, <1>11, <2>1
      <4>2. issued["transfer"] + 1 < n
        BY <1>2, <2>1, <2>5, <3>1
      <4>. QED BY <2>5, <3>1, <4>1, <4>2 DEF IsFence
    <3>. QED BY <2>2, <2>3, <2>5, <3>1 DEF IsFence, IsCopy
  <2>. QED BY <1>4, <2>4, <2>5
<1>16. ASSUME NEW a \in Computes, IsKernel(a), Compute(a).slot = s
       PROVE  primed[s] /\ a <= compute_event[s]
  BY <1>16 DEF StInv, WeightsInv, Marked
<1>17. compute_event[s] \in Nat /\ compute_event[s] <= issued["compute"]
  BY <1>1, <1>13 DEF StInv, Bounded
<1>18. Bounded'
  <2>1. /\ \A n \in Transfers : IsFence(n) => Transfer(n).until <= here
        /\ \A a \in Computes : IsAwait(a) => Compute(a).until <= top
        /\ \A r \in Slots : compute_event[r] <= here
    BY <1>2, <1>5, <1>13 DEF StInv, Bounded, here, top
  <2>2. top <= top /\ next <= next /\ compute_event[s] <= here
    BY <1>1, <1>2, <1>5, <1>17 DEF here
  <2>3. \A n \in Transfers' : IsFence(n)' => Transfer(n)'.until <= here
    BY <1>10, <1>15, <2>1, <2>2
  <2>4. \A n \in Transfers' : IsCopy(n)' => Transfer(n)'.call <= next
    <3>1. \A n \in Transfers : IsCopy(n) => Transfer(n).call <= next
      BY <1>1, <1>13, <1>14
    <3>. QED BY <1>10, <1>15, <2>2, <3>1
  <2>5. \A a \in Computes' : IsAwait(a)' => Compute(a)'.until <= top
    BY <1>10, <1>12, <2>1, <2>2
  <2>6. \A a \in Computes' : IsKernel(a)' => Compute(a)'.call <= next
    <3>1. \A a \in Computes : IsKernel(a) => Compute(a).call <= next
      BY <1>1, <1>13, <1>14
    <3>. QED BY <1>10, <1>12, <3>1
  <2>. QED BY <1>1, <1>7, <2>1, <2>3, <2>4, <2>5, <2>6 DEF Bounded
<1>19. \A a, r, b, c : (\A n \in Transfers' : n \notin Transfers /\ IsCopy(n)' => Transfer(n)'.call > c)
                       /\ Ready(a, r, b, c) => Ready(a, r, b, c)'
  <2>1. \A n, r, b : n \in Transfers => (Into(n, r, b)' <=> Into(n, r, b))
    BY <1>10 DEF Into
  <2>2. \A a, r, b, c : Awaited(a, r, b, c) => Awaited(a, r, b, c)'
    BY <1>10, <2>1 DEF Awaited
  <2>3. \A r, b, c : (\A n \in Transfers' : n \notin Transfers /\ IsCopy(n)' => Transfer(n)'.call > c)
                     /\ Arrived(r, b, c) => Arrived(r, b, c)'
    BY <1>10, <2>1 DEF Arrived, Into
  <2>. QED BY <2>2, <2>3 DEF Ready
<1>20. KernelsReady'
  <2>. SUFFICES ASSUME NEW a \in Computes, IsKernel(a), NEW b \in Compute(a).buffers
       PROVE  Ready(a, Compute(a).slot, b, Compute(a).call)'
    BY <1>10, <1>12 DEF KernelsReady
  <2>1. Ready(a, Compute(a).slot, b, Compute(a).call) /\ Compute(a)' = Compute(a)
    BY <1>10 DEF StInv, WeightsInv, KernelsReady
  <2>2. Compute(a).call < next /\ Compute(a).call \in Nat
    BY <1>13, <1>14
  <2>3. \A n \in Transfers' : n \notin Transfers /\ IsCopy(n)' => Transfer(n)'.call > Compute(a).call
    BY <1>1, <1>15, <2>2
  <2>. QED BY <1>19, <2>1, <2>3
<1>21. NextReady'
  <2>. SUFFICES ASSUME pc' = "launch", NEW b \in Views(last_prepared_slot)'
       PROVE  Ready(issued["compute"] + 1, last_prepared_slot, b, call)'
    BY DEF NextReady
  <2>1. b \in IF l.variant = "arena" THEN {"combined"} ELSE {"packed", "scales"}
    BY <1>1, StagingAssumption DEF Views, QType, TypeOK
  <2>2. PICK i \in 1 .. Len(tr) : tr[i].op = "copy" /\ tr[i].buffer = b
    BY <1>4, <2>1
  <2>3. tr[i].slot = s /\ tr[i].call = next
    BY <1>4, <2>2
  <2>4. \A n : n = issued["transfer"] + i =>
                 n \in Transfers' /\ Into(n, s, b)' /\ Transfer(n)'.call = next /\ n <= top
    BY <1>2, <1>5, <1>11, <2>2, <2>3 DEF Into, IsCopy, top
  <2>5. \A w : w = here => w \in Computes' /\ IsAwait(w)' /\ w < issued'["compute"] + 1
                           /\ Compute(w)'.until = top
    BY <1>2, <1>7, <1>12 DEF here
  <2>6. last_prepared_slot' = s /\ call' = next
    BY <1>1
  <2>7. Awaited(issued["compute"] + 1, last_prepared_slot, b, call)'
    BY <2>4, <2>5, <2>6 DEF Awaited
  <2>. QED BY <2>7 DEF Ready
<1>22. Fenced'
  <2>. SUFFICES ASSUME NEW n \in Transfers', NEW a \in Computes, IsCopy(n)', IsKernel(a),
                       Transfer(n)'.slot = Compute(a).slot, Compute(a).call < Transfer(n)'.call
       PROVE  FencedFor(n, a)'
    BY <1>10, <1>12 DEF Fenced
  <2>1. CASE n \in Transfers
    <3>1. FencedFor(n, a)
      BY <1>10, <2>1 DEF StInv, WeightsInv, Fenced
    <3>. QED BY <1>10, <3>1 DEF FencedFor
  <2>2. CASE n \notin Transfers
    <3>1. /\ Transfer(n)'.slot = s
          /\ primed[s] => \E m \in Transfers' :
                             IsFence(m)' /\ m < n /\ Transfer(m)'.until = compute_event[s]
      BY <1>15, <2>2
    <3>2. primed[s] /\ a <= compute_event[s]
      BY <1>16, <3>1
    <3>. QED BY <3>1, <3>2 DEF FencedFor
  <2>. QED BY <2>1, <2>2
<1>23. NativeFenced'
  <2>. SUFFICES ASSUME pc' = "native"
       PROVE  /\ l.native
              /\ \A a \in Computes : IsKernel(a) =>
                    /\ Compute(a).call < next
                    /\ Compute(a).slot = s => FencedSoFar(a)'
              /\ \A n \in Transfers' :
                    IsCopy(n)' /\ Transfer(n)'.buffer = "native" => Transfer(n)'.call < next
    BY <1>1, <1>10, <1>12 DEF NativeFenced
  <2>1. l.native
    OBVIOUS
  <2>2. ASSUME NEW a \in Computes, IsKernel(a), Compute(a).slot = s
        PROVE  FencedSoFar(a)'
    <3>1. primed[s] /\ a <= compute_event[s]
      BY <1>16, <2>2
    <3>2. 1 \in 1 .. Len(tr)
      BY <1>4, <1>5
    <3>3. \A n : n = issued["transfer"] + 1 => n \in Transfers' /\ n \notin Transfers
      BY <1>2, <1>11, <1>14, <3>2
    <3>4. \E m \in Transfers' : IsFence(m)' /\ Transfer(m)'.until = compute_event[s]
      BY <1>15, <3>1, <3>3
    <3>. QED BY <3>1, <3>4 DEF FencedSoFar
  <2>3. \A n \in Transfers' :
           IsCopy(n)' /\ Transfer(n)'.buffer = "native" => Transfer(n)'.call < next
    BY <1>10, <1>14, <1>15
  <2>. QED BY <1>14, <2>1, <2>2, <2>3
<1>24. Marked'
  BY <1>10, <1>12 DEF StInv, WeightsInv, Marked
<1>25. InOrder'
  <2>. SUFFICES ASSUME NEW n \in Transfers', NEW k \in Transfers', n < k, IsCopy(n)', IsCopy(k)',
                       Transfer(n)'.slot = Transfer(k)'.slot, Transfer(n)'.buffer = Transfer(k)'.buffer
       PROVE  Transfer(n)'.call < Transfer(k)'.call
    BY DEF InOrder
  <2>1. CASE k \in Transfers
    <3>1. n \in Transfers
      BY <1>2, <1>14, <1>15, <2>1
    <3>. QED BY <1>10, <2>1, <3>1 DEF StInv, WeightsInv, InOrder
  <2>2. CASE k \notin Transfers /\ n \in Transfers
    BY <1>10, <1>14, <1>15, <2>2
  <2>3. CASE k \notin Transfers /\ n \notin Transfers
    <3>1. PICK i \in 1 .. Len(tr) : n = issued["transfer"] + i
      BY <1>11, <2>3
    <3>2. PICK j \in 1 .. Len(tr) : k = issued["transfer"] + j
      BY <1>11, <2>3
    <3>3. Transfer(n)' = tr[i] /\ Transfer(k)' = tr[j] /\ i # j
      BY <1>2, <1>11, <3>1, <3>2
    <3>. QED BY <1>4, <3>3 DEF IsCopy
  <2>. QED BY <2>1, <2>2, <2>3
<1>26. Ring'
  BY <1>1, <1>8 DEF Ring, SlotOfCall
<1>27. Ages'
  <2>1. 1 .. call \subseteq 1 .. next
    BY <1>1
  <2>2. call' = next /\ primed' = primed /\ compute_event' = compute_event
    BY <1>1
  <2>. QED BY <1>10, <1>12, <2>1, <2>2 DEF StInv, Ages, SlotOfCall
<1>28. FenceAges'
  <2>. SUFFICES ASSUME NEW n \in Transfers', IsFence(n)'
       PROVE  /\ n + 1 \in Transfers' /\ IsCopy(n + 1)'
              /\ \A a \in Computes : IsKernel(a) /\ a <= Transfer(n)'.until
                                     => Compute(a).call + SlotCount <= Transfer(n + 1)'.call
    BY <1>10, <1>12 DEF FenceAges
  <2>1. CASE n \in Transfers
    BY <1>10, <2>1 DEF StInv, FenceAges
  <2>2. CASE n \notin Transfers
    <3>1. /\ primed[s] /\ Transfer(n)'.until = compute_event[s]
          /\ n + 1 \in Transfers' /\ IsCopy(n + 1)' /\ Transfer(n + 1)'.call = next
      BY <1>15, <2>2
    <3>2. PICK c \in 1 .. call :
             /\ SlotOfCall(c) = s
             /\ \A a \in Computes : IsKernel(a) /\ a <= compute_event[s] => Compute(a).call <= c
      BY <1>1, <3>1 DEF StInv, Ages
    <3>3. c + SlotCount <= next
      <4>1. c - 1 \in Nat /\ next - 1 \in Nat /\ c - 1 < next - 1 /\ SlotCount \in Nat \ {0}
        BY <1>1, StagingAssumption
      <4>2. (c - 1) % SlotCount = (next - 1) % SlotCount
        BY <1>8, <3>2 DEF SlotOfCall
      <4>3. (c - 1) + SlotCount <= next - 1
        BY <4>1, <4>2, ResidueApart
      <4>. QED BY <1>1, <4>1, <4>3
    <3>4. ASSUME NEW a \in Computes, IsKernel(a), a <= compute_event[s]
          PROVE  Compute(a).call + SlotCount <= next
      <4>1. Compute(a).call \in Nat /\ Compute(a).call <= c
        BY <1>13, <3>2, <3>4
      <4>. QED BY <1>1, <3>3, <4>1, StagingAssumption
    <3>. QED BY <3>1, <3>4
  <2>. QED BY <2>1, <2>2
<1>. QED BY <1>9, <1>10, <1>18, <1>20, <1>21, <1>22, <1>23, <1>24, <1>25, <1>26, <1>27, <1>28
         DEF StInv, WeightsInv

-----------------------------------------------------------------------------
(* The invariant of the pool, and what follows from it.                    *)
LEMMA InitHolds == Init => StInv
<1>. SUFFICES ASSUME Init PROVE StInv
  OBVIOUS
<1>1. QType
  <2>1. /\ SlotCount \in Nat \ {0, 1} /\ 0 \in Slots /\ 0 \in 0 .. MaxCalls
    BY StagingAssumption DEF Slots
  <2>2. \A st \in Streams : done[st] = 0 /\ issued[st] = 0 /\ queue[st] = <<>>
    BY DEF Init
  <2>3. TypeOK
    BY <2>1, <2>2 DEF Init, TypeOK, Torn
  <2>4. /\ queue["transfer"] \in Seq(Waits("compute") \cup Copies)
        /\ queue["compute"] \in Seq(Waits("transfer") \cup Kernels)
    <3>1. queue["transfer"] = <<>> /\ queue["compute"] = <<>>
      BY <2>2 DEF Streams
    <3>2. \A S : <<>> \in Seq(S)
      OBVIOUS
    <3>. QED BY <3>1, <3>2
  <2>. QED BY <2>3, <2>4 DEF Init, QType
<1>2. Transfers = {} /\ Computes = {}
  BY DEF Init, Transfers, Computes, Waiting, Streams
<1>3. next_slot = call % SlotCount
  <2>1. SlotCount \in Nat \ {0} /\ 0 \in 0 .. SlotCount - 1 /\ SlotCount * 0 + 0 = 0
    BY StagingAssumption
  <2>2. 0 % SlotCount = 0
    BY <2>1, Residue
  <2>. QED BY <2>2 DEF Init
<1>4. Bounded /\ Started
  BY <1>2 DEF Init, Bounded, Started, Streams
<1>5. WeightsInv
  BY <1>2 DEF Init, WeightsInv, KernelsReady, NextReady, Fenced, NativeFenced, Marked, InOrder
<1>6. Ring /\ Ages /\ FenceAges
  BY <1>2, <1>3 DEF Init, Ring, Ages, FenceAges
<1>. QED BY <1>1, <1>4, <1>5, <1>6 DEF StInv

(* Every step keeps it.                                                    *)
LEMMA NextKeeps == StInv /\ [Next]_vars => StInv'
<1>. SUFFICES ASSUME StInv, [Next]_vars PROVE StInv'
  OBVIOUS
<1>1. CASE PrepareAsync
  <2>1. PICK l \in Linears :
          /\ linear' = l
          /\ IF HostLength(l) # l.bytes
             THEN UNCHANGED <<pc, last_prepared_slot, slots, streams>>
             ELSE /\ Stage(next_slot, WarFence(next_slot) \o WeightCopies(l, next_slot, call'))
                  /\ combined' = [combined EXCEPT ![next_slot] = (l.variant = "arena")]
                  /\ last_prepared_slot' = next_slot
                  /\ pc' = IF l.native THEN "native" ELSE "launch"
                  /\ UNCHANGED <<primed, compute_event>>
    BY <1>1 DEF PrepareAsync
  <2>2. /\ pc = "idle" /\ call < MaxCalls /\ call' = call + 1 /\ next_slot' = NextSlot
        /\ UNCHANGED content
    BY <1>1 DEF PrepareAsync
  <2>3. CASE HostLength(l) # l.bytes
    BY <2>1, <2>2, <2>3, RefusedKeeps
  <2>4. CASE HostLength(l) = l.bytes
    BY <2>1, <2>2, <2>4, StagedKeeps
  <2>. QED BY <2>3, <2>4
<1>2. CASE PrepareNative
  BY <1>2, PrepareNativeKeeps
<1>3. CASE Launch
  BY <1>3, LaunchKeeps
<1>4. CASE MarkKernelLaunched
  BY <1>4, MarkKeeps
<1>5. ASSUME NEW st \in Streams, PassWait(st) \/ Start(st) \/ Finish(st)
      PROVE  StInv'
  BY <1>5, PassWaitKeeps, StartKeeps, FinishKeeps
<1>6. CASE UNCHANGED vars
  <2>1. UNCHANGED <<pc, call, linear, next_slot, last_prepared_slot, primed, compute_event,
                    transfer_event, combined, content, queue, busy, issued, done>>
    BY <1>6 DEF vars, host, slots, streams
  <2>2. /\ Transfers' = Transfers /\ Computes' = Computes
        /\ \A n : Transfer(n)' = Transfer(n)
        /\ \A a : Compute(a)' = Compute(a)
    BY <2>1 DEF Transfers, Computes, Waiting, Transfer, Compute
  <2>3. /\ \A n : (IsFence(n)' <=> IsFence(n)) /\ (IsCopy(n)' <=> IsCopy(n))
        /\ \A a : (IsAwait(a)' <=> IsAwait(a)) /\ (IsKernel(a)' <=> IsKernel(a))
    BY <2>2 DEF IsFence, IsCopy, IsAwait, IsKernel
  <2>4. QType' /\ Bounded' /\ Started'
    BY <2>1, <2>2, <2>3 DEF StInv, QType, TypeOK, Bounded, Started
  <2>5. KernelsReady' /\ NextReady'
    BY <2>1, <2>2, <2>3 DEF StInv, WeightsInv, KernelsReady, NextReady, Ready, Awaited, Arrived,
                           Into, Views
  <2>6. Fenced' /\ NativeFenced' /\ Marked' /\ InOrder'
    BY <2>1, <2>2, <2>3 DEF StInv, WeightsInv, Fenced, FencedFor, NativeFenced, FencedSoFar,
                           Marked, InOrder
  <2>7. Ring' /\ Ages' /\ FenceAges'
    BY <2>1, <2>2, <2>3 DEF StInv, Ring, Ages, FenceAges, SlotOfCall
  <2>. QED BY <2>4, <2>5, <2>6, <2>7 DEF StInv, WeightsInv
<1>7. CASE Drained
  BY <1>6, <1>7 DEF Drained
<1>. QED BY <1>1, <1>2, <1>3, <1>4, <1>5, <1>6, <1>7 DEF Next

(* StInv is an invariant of the staging pool.                              *)
THEOREM StagingInvariant == Spec => []StInv
<1>. QED BY InitHolds, NextKeeps, PTL DEF Spec

(* The variables keep their types; the operations issued are the ones      *)
(* done and the ones queued.                                               *)
THEOREM StagingTyped == Spec => []TypeOK
<1>1. StInv => TypeOK
  BY DEF StInv, QType
<1>. QED BY <1>1, StagingInvariant, PTL

(* A kernel runs on the weights staged for it, from its first to its last  *)
(* instant: no wait is left in front of it, so they have arrived.          *)
THEOREM KernelReadsSafe == Spec => []KernelReadsItsWeights
<1>1. ASSUME StInv PROVE KernelReadsItsWeights
  <2>. SUFFICES ASSUME busy["compute"], NEW b \in Head(queue["compute"]).buffers
       PROVE  content[Head(queue["compute"]).slot][b] = Head(queue["compute"]).call
    BY DEF KernelReadsItsWeights
  <2>1. QType
    BY <1>1 DEF StInv
  <2>2. PICK a \in Computes : a = done["compute"] + 1 /\ IsKernel(a)
    BY <1>1 DEF StInv, Started
  <2>3. Head(queue["compute"]) = Compute(a)
    <3>1. queue["compute"] # <<>>
      <4>1. a - done["compute"] \in 1 .. Len(queue["compute"])
        BY <2>1, Numbered DEF Computes, Streams
      <4>. QED BY <4>1
    <3>. QED BY <2>1, <2>2, <3>1, HeadNumber DEF Streams, Compute
  <2>4. Ready(a, Compute(a).slot, b, Compute(a).call)
    BY <1>1, <2>2, <2>3 DEF StInv, WeightsInv, KernelsReady
  <2>5. \A w \in Computes : ~(w < a)
    BY <2>1, <2>2, ComputeKinds, Numbered DEF Streams
  <2>6. Arrived(Compute(a).slot, b, Compute(a).call)
    BY <2>4, <2>5 DEF Ready, Awaited
  <2>. QED BY <2>3, <2>6 DEF Arrived
<1>. QED BY <1>1, StagingInvariant, PTL

(* The copies of a matvec wait for no kernel that is less than a round of  *)
(* the ring older.                                                         *)
THEOREM FencesAreOldSafe == Spec => []FencesAreOld
<1>1. ASSUME StInv PROVE FencesAreOld
  <2>. SUFFICES ASSUME NEW i \in DOMAIN queue["transfer"], queue["transfer"][i].op = "wait",
                       NEW j \in DOMAIN queue["compute"], queue["compute"][j].op = "kernel",
                       done["compute"] + j <= queue["transfer"][i].until
       PROVE  queue["compute"][j].call + SlotCount <= queue["transfer"][i + 1].call
    BY DEF FencesAreOld
  <2>1. QType
    BY <1>1 DEF StInv
  <2>2. i \in 1 .. Len(queue["transfer"]) /\ j \in 1 .. Len(queue["compute"])
    BY <2>1 DEF QType
  <2>3. /\ done["transfer"] \in Nat /\ done["compute"] \in Nat
        /\ issued["transfer"] = done["transfer"] + Len(queue["transfer"])
        /\ issued["compute"] = done["compute"] + Len(queue["compute"])
        /\ Len(queue["transfer"]) \in Nat /\ Len(queue["compute"]) \in Nat
    BY <2>1, Numbered DEF Streams
  <2>4. PICK n \in Transfers : n = done["transfer"] + i
    <3>1. done["transfer"] + i \in done["transfer"] + 1 .. issued["transfer"]
      BY <2>2, <2>3
    <3>. QED BY <3>1 DEF Transfers, Waiting
  <2>5. PICK a \in Computes : a = done["compute"] + j
    <3>1. done["compute"] + j \in done["compute"] + 1 .. issued["compute"]
      BY <2>2, <2>3
    <3>. QED BY <3>1 DEF Computes, Waiting
  <2>6. n - done["transfer"] = i /\ (n + 1) - done["transfer"] = i + 1 /\ a - done["compute"] = j
    BY <2>2, <2>3, <2>4, <2>5
  <2>7. /\ Transfer(n) = queue["transfer"][i] /\ Transfer(n + 1) = queue["transfer"][i + 1]
        /\ Compute(a) = queue["compute"][j]
    BY <2>6 DEF Transfer, Compute
  <2>. QED BY <1>1, <2>4, <2>5, <2>7 DEF StInv, FenceAges, IsFence, IsKernel
<1>. QED BY <1>1, StagingInvariant, PTL

-----------------------------------------------------------------------------
(* The arena.                                                              *)

(* The pending reservations that started within the arena. *)
Low(w) == pending[w] # NoRange /\ pending[w].start <= Capacity

(* What holds of the pending reservations.                                 *)
PendingInv ==
    /\ \A w \in Loaders : pending[w] # NoRange => End(pending[w]) > Capacity
    /\ \A w, v \in Loaders : Low(w) /\ Low(v) => w = v
    /\ \A w \in Loaders : Low(w) =>
          /\ used > Capacity
          /\ \A r \in claims : End(r) <= pending[w].start

(* Every range handed out lies below `used` unless a low roll-back is due. *)
UsedInv ==
    (\A w \in Loaders : ~Low(w)) => \A r \in claims : End(r) <= used

(* The inductive invariant. *)
AInv == ArenaTypeOK /\ PendingInv /\ UsedInv /\ ClaimsDisjoint /\ PinCoversClaims

-----------------------------------------------------------------------------
(* What a range is made of. *)
LEMMA RangeParts ==
    ASSUME NEW r \in ByteRange
    PROVE  r.start \in Nat /\ r.size \in Nat /\ r.size > 0 /\ End(r) \in Nat
<1>1. r.start \in Nat /\ r.size \in Sizes
  BY DEF ByteRange
<1>2. \A n \in Sizes : n \in Nat /\ n > 0
  BY ArenaAssumption
<1> QED BY <1>1, <1>2 DEF End

(* The invariant holds of an empty arena.                                  *)
LEMMA AInvInit == ArenaInit => AInv
<1> SUFFICES ASSUME ArenaInit PROVE AInv
  OBVIOUS
<1>1. ArenaTypeOK
  <2>1. used \in Nat /\ started \in 0 .. Projections
    BY ArenaAssumption DEF ArenaInit
  <2>2. claims \subseteq ByteRange /\ failed \in BOOLEAN /\ pinned \in Nat \cup {Unpinned}
    BY DEF ArenaInit
  <2>3. pending \in [Loaders -> ByteRange \cup {NoRange}]
    BY DEF ArenaInit
  <2> QED BY <2>1, <2>2, <2>3 DEF ArenaTypeOK
<1>2. PendingInv /\ UsedInv
  BY DEF ArenaInit, PendingInv, UsedInv, Low
<1>3. ClaimsDisjoint /\ PinCoversClaims
  BY DEF ArenaInit, ClaimsDisjoint, PinCoversClaims
<1> QED BY <1>1, <1>2, <1>3 DEF AInv

(* A reservation keeps the invariant.  If it fits, `used` was within the   *)
(* capacity, so nothing low is pending and the new range starts above all  *)
(* the others; if it does not, it is low exactly when `used` was within    *)
(* the capacity, and then it is the only one.                              *)
LEMMA ReserveKeeps ==
    ASSUME AInv, NEW w \in Loaders, Reserve(w)
    PROVE  AInv'
<1> PICK n \in Sizes :
        LET range == [start |-> used, size |-> n] IN
        /\ FetchAdd(n)
        /\ IF End(range) > Capacity
           THEN pending' = [pending EXCEPT ![w] = range] /\ UNCHANGED claims
           ELSE claims' = claims \cup {range} /\ UNCHANGED pending
  BY DEF Reserve
<1> DEFINE range == [start |-> used, size |-> n]
<1>0. n \in Nat /\ n > 0
  BY ArenaAssumption
<1>1. /\ n \in Nat /\ n > 0 /\ used \in Nat /\ Capacity \in Nat
      /\ range \in ByteRange /\ range # NoRange /\ End(range) = used + n
      /\ range.start = used
  BY <1>0, ArenaAssumption DEF AInv, ArenaTypeOK, ByteRange, NoRange, End
<1>2. used' = used + n /\ used' \in Nat
  BY <1>1 DEF FetchAdd
<1>3. /\ pinned = Unpinned /\ pending[w] = NoRange /\ started < Projections
      /\ started' = started + 1 /\ UNCHANGED <<failed, pinned>>
  BY DEF Reserve
<1>4. PinCoversClaims'
  BY <1>3 DEF PinCoversClaims
<1>5. \A r \in claims : r.start \in Nat /\ r.size \in Nat /\ End(r) \in Nat
  BY RangeParts DEF AInv, ArenaTypeOK
<1>6. CASE End(range) > Capacity
  <2>1. pending' = [pending EXCEPT ![w] = range] /\ claims' = claims
    BY <1>6
  <2>2. /\ pending'[w] = range
        /\ \A v \in Loaders : v # w => pending'[v] = pending[v]
    BY <2>1 DEF AInv, ArenaTypeOK
  <2>3. ArenaTypeOK'
    BY <1>1, <1>2, <1>3, <2>1, ArenaAssumption DEF AInv, ArenaTypeOK
  <2>4. ClaimsDisjoint'
    BY <2>1 DEF AInv, ClaimsDisjoint, End
  <2>5. \A v \in Loaders : v # w => (Low(v)' <=> Low(v))
    BY <2>2 DEF Low
  <2>6. Low(w)' <=> used <= Capacity
    BY <1>1, <2>2 DEF Low
  <2>7. used <= Capacity => \A v \in Loaders : ~Low(v)
    BY <1>1 DEF AInv, PendingInv
  <2>8. \A v \in Loaders : pending'[v] # NoRange => End(pending'[v]) > Capacity
    BY <1>6, <2>2 DEF AInv, PendingInv
  <2>9. \A u, v \in Loaders : Low(u)' /\ Low(v)' => u = v
    BY <2>5, <2>6, <2>7 DEF AInv, PendingInv
  <2>10. ASSUME NEW v \in Loaders, Low(v)'
         PROVE  used' > Capacity /\ \A r \in claims' : End(r) <= pending'[v].start
    <3>1. CASE v = w
      BY <1>1, <1>2, <1>6, <2>1, <2>2, <2>6, <2>7, <2>10, <3>1 DEF AInv, UsedInv
    <3>2. CASE v # w
      BY <1>1, <1>2, <2>1, <2>2, <2>5, <2>10, <3>2 DEF AInv, PendingInv
    <3> QED BY <3>1, <3>2
  <2>11. PendingInv'
    <3>1. (\A v \in Loaders : pending[v] # NoRange => End(pending[v]) > Capacity)'
      BY <2>8 DEF End, NoRange
    <3> QED BY <3>1, <2>9, <2>10 DEF PendingInv, End
  <2>12. UsedInv'
    <3>1. SUFFICES ASSUME \A v \in Loaders : ~Low(v)'
                   PROVE  \A r \in claims' : End(r) <= used'
      BY DEF UsedInv, End
    <3>2. \A v \in Loaders : ~Low(v)
      BY <2>5, <3>1, <1>3 DEF Low
    <3> QED BY <1>1, <1>2, <1>5, <2>1, <3>2 DEF AInv, UsedInv
  <2> QED BY <1>4, <2>3, <2>4, <2>11, <2>12 DEF AInv
<1>7. CASE ~(End(range) > Capacity)
  <2>1. claims' = claims \cup {range} /\ pending' = pending
    BY <1>7
  <2>2. used + n <= Capacity /\ used <= Capacity
    BY <1>1, <1>7
  <2>3. \A v \in Loaders : ~Low(v) /\ ~Low(v)'
    BY <1>1, <2>1, <2>2 DEF AInv, PendingInv, Low
  <2>4. \A r \in claims : End(r) <= used
    BY <2>3 DEF AInv, UsedInv
  <2>5. ArenaTypeOK'
    BY <1>1, <1>2, <1>3, <2>1, ArenaAssumption DEF AInv, ArenaTypeOK
  <2>6. ClaimsDisjoint'
    <3>1. \A r \in claims' : End(r) <= Capacity
      BY <1>1, <2>1, <2>2 DEF AInv, ClaimsDisjoint
    <3>2. ASSUME NEW r \in claims', NEW q \in claims', r # q
          PROVE  End(r) <= q.start \/ End(q) <= r.start
      BY <1>1, <2>1, <2>4, <3>2 DEF AInv, ClaimsDisjoint
    <3> QED BY <3>1, <3>2 DEF ClaimsDisjoint, End
  <2>7. PendingInv'
    BY <2>1, <2>3 DEF AInv, PendingInv, End, NoRange
  <2>8. UsedInv'
    <3>1. \A r \in claims' : End(r) <= used'
      BY <1>1, <1>2, <1>5, <2>1, <2>4
    <3> QED BY <3>1 DEF UsedInv, End
  <2> QED BY <1>4, <2>5, <2>6, <2>7, <2>8 DEF AInv
<1> QED BY <1>6, <1>7

(* A roll-back keeps the invariant.  A low one lowers `used` to a value    *)
(* that still covers every range; one that is not low leaves it beyond the *)
(* capacity, where every range ends.                                       *)
LEMMA RollBackKeeps ==
    ASSUME AInv, NEW w \in Loaders, RollBack(w)
    PROVE  AInv'
<1>1. /\ pending[w] # NoRange /\ used' = pending[w].start
      /\ pending' = [pending EXCEPT ![w] = NoRange]
      /\ failed' = TRUE /\ UNCHANGED <<started, claims, pinned>>
  BY DEF RollBack, RolledBack
<1>2. pending[w].start \in Nat /\ Capacity \in Nat
  BY <1>1, ArenaAssumption DEF AInv, ArenaTypeOK, ByteRange
<1>3. /\ pending'[w] = NoRange
      /\ \A v \in Loaders : v # w => pending'[v] = pending[v]
  BY <1>1 DEF AInv, ArenaTypeOK
<1>4. ~Low(w)' /\ \A v \in Loaders : v # w => (Low(v)' <=> Low(v))
  BY <1>3 DEF Low, NoRange
<1>5. ArenaTypeOK'
  BY <1>1, <1>2 DEF AInv, ArenaTypeOK
<1>6. ClaimsDisjoint' /\ PinCoversClaims'
  BY <1>1 DEF AInv, ClaimsDisjoint, PinCoversClaims, End, Unpinned
<1>7. \A r \in claims : End(r) \in Nat /\ End(r) <= Capacity
  BY RangeParts DEF AInv, ArenaTypeOK, ClaimsDisjoint
<1>8. PendingInv'
  <2>1. ASSUME NEW v \in Loaders, Low(v)'
        PROVE  used' > Capacity /\ \A r \in claims' : End(r) <= pending'[v].start
    <3>1. v # w /\ Low(v)
      BY <1>4, <2>1
    <3>2. ~Low(w)
      BY <3>1 DEF AInv, PendingInv
    <3>3. pending[w].start > Capacity
      BY <1>1, <1>2, <3>2 DEF Low
    <3> QED BY <1>1, <1>3, <3>1, <3>3 DEF AInv, PendingInv
  <2>2. \A u, v \in Loaders : Low(u)' /\ Low(v)' => u = v
    BY <1>4 DEF AInv, PendingInv
  <2>3. (\A v \in Loaders : pending[v] # NoRange => End(pending[v]) > Capacity)'
    BY <1>3 DEF AInv, PendingInv, End, NoRange
  <2> QED BY <2>1, <2>2, <2>3 DEF PendingInv, End
<1>9. UsedInv'
  <2>1. \A r \in claims : End(r) <= pending[w].start
    <3>1. CASE Low(w)
      BY <3>1 DEF AInv, PendingInv
    <3>2. CASE ~Low(w)
      BY <1>1, <1>2, <1>7, <3>2 DEF Low
    <3> QED BY <3>1, <3>2
  <2> QED BY <1>1, <2>1 DEF UsedInv, End
<1> QED BY <1>5, <1>6, <1>8, <1>9 DEF AInv

(* Pinning the used prefix covers every range, since nothing is pending.   *)
LEMMA PinKeeps ==
    ASSUME AInv, Pin
    PROVE  AInv'
<1>1. /\ \A w \in Loaders : pending[w] = NoRange
      /\ pinned' = used /\ UNCHANGED <<used, started, pending, claims, failed>>
  BY DEF Pin, PinnedPrefix, Quiet
<1>2. \A r \in claims : End(r) <= used
  BY <1>1 DEF AInv, UsedInv, Low
<1>3. ArenaTypeOK' /\ PinCoversClaims'
  BY <1>1, <1>2 DEF AInv, ArenaTypeOK, PinCoversClaims, End
<1>4. PendingInv' /\ UsedInv' /\ ClaimsDisjoint'
  BY <1>1 DEF AInv, PendingInv, UsedInv, ClaimsDisjoint, Low, End, NoRange
<1> QED BY <1>3, <1>4 DEF AInv

(* AInv is an invariant of the arena.                                      *)
THEOREM ArenaInvariant == ArenaSpec => []AInv
<1>1. ASSUME AInv, [ArenaNext]_arenaVars PROVE AInv'
  <2>1. CASE Pin
    BY <1>1, <2>1, PinKeeps
  <2>2. CASE \E w \in Loaders : Reserve(w) \/ RollBack(w)
    BY <1>1, <2>2, ReserveKeeps, RollBackKeeps
  <2>3. CASE UNCHANGED arenaVars
    BY <1>1, <2>3 DEF arenaVars, AInv, ArenaTypeOK, PendingInv, UsedInv, ClaimsDisjoint,
       PinCoversClaims, Low, End, NoRange, Unpinned
  <2> QED BY <1>1, <2>1, <2>2, <2>3 DEF ArenaNext
<1> QED BY <1>1, AInvInit, PTL DEF ArenaSpec

(* The counter is never negative: a roll-back stores a value the counter   *)
(* once had, and never subtracts.                                          *)
THEOREM ArenaTyped == ArenaSpec => []ArenaTypeOK
<1>1. AInv => ArenaTypeOK
  BY DEF AInv
<1> QED BY <1>1, ArenaInvariant, PTL

(* reserve hands out disjoint ranges of the arena, however many workers    *)
(* fail and roll back concurrently.                                        *)
THEOREM ArenaDisjoint == ArenaSpec => []ClaimsDisjoint
<1>1. AInv => ClaimsDisjoint
  BY DEF AInv
<1> QED BY <1>1, ArenaInvariant, PTL

(* pin_now registers every byte a worker has filled.                       *)
THEOREM ArenaPinned == ArenaSpec => []PinCoversClaims
<1>1. AInv => PinCoversClaims
  BY DEF AInv
<1> QED BY <1>1, ArenaInvariant, PTL
=============================================================================
