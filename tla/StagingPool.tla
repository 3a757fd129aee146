---------------------------- MODULE StagingPool ----------------------------
(***************************************************************************)
(* LinearStagingPool (cuda/staging.rs): the ring of VRAM slots through     *)
(* which host-resident weights are streamed for every matvec.              *)
(*                                                                         *)
(* One host thread enqueues work on two CUDA streams and never waits for   *)
(* them.  A stream executes its operations in the order they were issued;  *)
(* the streams are ordered only by events.  Recording an event remembers   *)
(* how much has been issued on a stream; a stream that waits on it stalls  *)
(* until that much is done - the state of the event at the call of wait,   *)
(* not at its execution.                                                   *)
(*                                                                         *)
(* A transfer or a kernel takes time: it starts and it finishes, and while *)
(* a transfer is in progress its destination is torn.  The host's calls    *)
(* only append to the streams, so each is one step.                        *)
(***************************************************************************)
EXTENDS Integers, Sequences

CONSTANTS SlotCount,   \* configured_slot_count
          Linears,     \* host-resident linears: [bytes, variant, native]
          PageSize,    \* of OwnedPinnedBuf
          MaxCalls     \* bound on the number of staged matvecs

Variants == {"arena", "pinned"}

ASSUME StagingAssumption ==
    /\ SlotCount \in 2 .. 64
    /\ PageSize \in Nat \ {0}
    /\ MaxCalls \in Nat
    /\ \A l \in Linears : l.bytes \in Nat \ {0} /\ l.variant \in Variants /\ l.native \in BOOLEAN

Slots == 0 .. SlotCount - 1
Buffers == {"packed", "scales", "combined", "native"}
Streams == {"transfer", "compute"}

(* Contents: 0 is torn or never written, n is the weights of call n.       *)
Torn == 0

VARIABLES
    pc,              \* where the host is within a staged matvec
    call,            \* the number of the staged matvec; 0 before the first
    linear,          \* its weights
    next_slot, last_prepared_slot,
    primed, compute_event, transfer_event, combined,  \* per slot
    content,         \* content[slot][buffer]
    queue,           \* the operations issued and not finished, per stream
    busy,            \* the head of the queue has started
    issued, done     \* how many were issued and how many are finished

host == <<pc, call, linear, next_slot, last_prepared_slot>>
slots == <<primed, compute_event, transfer_event, combined>>
streams == <<queue, busy, issued, done>>
vars == <<host, slots, content, streams>>

TypeOK ==
    /\ pc \in {"idle", "native", "launch", "mark"}
    /\ call \in 0 .. MaxCalls
    /\ next_slot \in Slots
    /\ last_prepared_slot \in Slots
    /\ primed \in [Slots -> BOOLEAN]
    /\ compute_event \in [Slots -> Nat]
    /\ transfer_event \in [Slots -> Nat]
    /\ combined \in [Slots -> BOOLEAN]
    /\ content \in [Slots -> [Buffers -> 0 .. MaxCalls]]
    /\ busy \in [Streams -> BOOLEAN]
    /\ issued \in [Streams -> Nat]
    /\ \A st \in Streams : done[st] + Len(queue[st]) = issued[st]

-----------------------------------------------------------------------------
(* Operations of a stream. *)
Wait(other, n)  == [op |-> "wait", on |-> other, until |-> n]
Copy(s, buf, c) == [op |-> "copy", slot |-> s, buffer |-> buf, call |-> c]
Kernel(s, bufs, c) == [op |-> "kernel", slot |-> s, buffers |-> bufs, call |-> c]

(* Append operations to both streams.                                      *)
Issue(transfers, computes) ==
    /\ queue' = [queue EXCEPT !["transfer"] = @ \o transfers, !["compute"] = @ \o computes]
    /\ issued' = [issued EXCEPT !["transfer"] = @ + Len(transfers),
                                !["compute"] = @ + Len(computes)]
    /\ UNCHANGED <<busy, done>>

Init ==
    /\ pc = "idle" /\ call = 0 /\ linear \in Linears
    /\ next_slot = 0 /\ last_prepared_slot = 0
    /\ primed = [s \in Slots |-> FALSE]
    /\ compute_event = [s \in Slots |-> 0]
    /\ transfer_event = [s \in Slots |-> 0]
    /\ combined = [s \in Slots |-> FALSE]
    /\ content = [s \in Slots |-> [b \in Buffers |-> Torn]]
    /\ queue = [st \in Streams |-> <<>>]
    /\ busy = [st \in Streams |-> FALSE]
    /\ issued = [st \in Streams |-> 0]
    /\ done = [st \in Streams |-> 0]

(* HostWeightBytes::len: an arena slice has its own length, an             *)
(* OwnedPinnedBuf the length of its pages.                                 *)
HostLength(l) ==
    IF l.variant = "pinned" THEN ((l.bytes + PageSize - 1) \div PageSize) * PageSize
    ELSE l.bytes

(* Mutant: it waits for everything the compute stream has been given. *)
WarFenceWhole(s) == IF primed[s] THEN <<Wait("compute", issued["compute"])>> ELSE <<>>

(* What the transfer stream waits for before it overwrites a slot.         *)
WarFence(s) == IF primed[s] THEN <<Wait("compute", compute_event[s])>> ELSE <<>>

(* The copies of prepare_async: packed and scales of an arena linear are   *)
(* adjacent and go in one.                                                 *)
WeightCopies(l, s, c) ==
    IF l.variant = "arena" THEN <<Copy(s, "combined", c)>>
    ELSE <<Copy(s, "packed", c), Copy(s, "scales", c)>>

(* Issue copies into a slot, re-record its transfer event behind them and  *)
(* make the compute stream wait on it.                                     *)
Stage(s, transfers) ==
    LET n == issued["transfer"] + Len(transfers) IN
    /\ Issue(transfers, <<Wait("transfer", n)>>)
    /\ transfer_event' = [transfer_event EXCEPT ![s] = n]

(* Mutant: the ring has no end. *)
NextSlotUnwrapped == next_slot + 1

NextSlot == (next_slot + 1) % SlotCount

(* prepare_async.  The slot is taken before the sizes are compared, and a  *)
(* linear whose sizes differ is refused with nothing issued.  The          *)
(* slots are sized for the largest host-resident linear, so only the       *)
(* comparison with the host slice can fail.                                *)
PrepareAsync ==
    /\ pc = "idle" /\ call < MaxCalls
    /\ call' = call + 1
    /\ next_slot' = NextSlot
    /\ \E l \in Linears :
        /\ linear' = l
        /\ IF HostLength(l) # l.bytes
           THEN UNCHANGED <<pc, last_prepared_slot, slots, streams>>
           ELSE /\ Stage(next_slot, WarFence(next_slot) \o WeightCopies(l, next_slot, call'))
                /\ combined' = [combined EXCEPT ![next_slot] = (l.variant = "arena")]
                /\ last_prepared_slot' = next_slot
                /\ pc' = IF l.native THEN "native" ELSE "launch"
                /\ UNCHANGED <<primed, compute_event>>
    /\ UNCHANGED content

(* Mutant: the re-record after the native copy is forgotten. *)
StageNativeUnordered(s, transfers) ==
    /\ Issue(transfers, <<>>)
    /\ UNCHANGED transfer_event

StageNative(s, transfers) == Stage(s, transfers)

(* prepare_native_mxfp4_into_last. *)
PrepareNative ==
    /\ pc = "native"
    /\ StageNative(last_prepared_slot, <<Copy(last_prepared_slot, "native", call)>>)
    /\ pc' = "launch"
    /\ UNCHANGED <<call, linear, next_slot, last_prepared_slot,
                   primed, compute_event, combined, content>>

(* The buffers the kernel is given: native_mxfp4_view, or packed_view and  *)
(* scales_view.                                                            *)
Views(s) ==
    IF linear.native THEN {"native"}
    ELSE IF combined[s] THEN {"combined"} ELSE {"packed", "scales"}

(* The launch, or its failure, after which the slot is marked all the same.*)
Launch ==
    /\ pc = "launch"
    /\ \E launched \in BOOLEAN :
        Issue(<<>>, IF launched
                    THEN <<Kernel(last_prepared_slot, Views(last_prepared_slot), call)>>
                    ELSE <<>>)
    /\ pc' = "mark"
    /\ UNCHANGED <<call, linear, next_slot, last_prepared_slot, slots, content>>

LastIssued == issued["compute"]

(* mark_kernel_launched. *)
MarkKernelLaunched ==
    /\ pc = "mark"
    /\ compute_event' = [compute_event EXCEPT ![last_prepared_slot] = LastIssued]
    /\ primed' = [primed EXCEPT ![last_prepared_slot] = TRUE]
    /\ pc' = "idle"
    /\ UNCHANGED <<call, linear, next_slot, last_prepared_slot,
                   transfer_event, combined, content, streams>>

-----------------------------------------------------------------------------
(* The device.                                                             *)
Pop(st) ==
    /\ queue' = [queue EXCEPT ![st] = Tail(@)]
    /\ done' = [done EXCEPT ![st] = @ + 1]

(* A wait is over when the other stream has done what it had been issued.  *)
PassWait(st) ==
    /\ queue[st] # <<>> /\ Head(queue[st]).op = "wait"
    /\ done[Head(queue[st]).on] >= Head(queue[st]).until
    /\ Pop(st)
    /\ UNCHANGED <<host, slots, content, busy, issued>>

Start(st) ==
    /\ queue[st] # <<>> /\ Head(queue[st]).op # "wait" /\ ~busy[st]
    /\ busy' = [busy EXCEPT ![st] = TRUE]
    /\ content' = IF st = "transfer"
                  THEN [content EXCEPT ![Head(queue[st]).slot][Head(queue[st]).buffer] = Torn]
                  ELSE content
    /\ UNCHANGED <<host, slots, queue, issued, done>>

Finish(st) ==
    /\ busy[st]
    /\ busy' = [busy EXCEPT ![st] = FALSE]
    /\ content' = IF st = "transfer"
                  THEN [content EXCEPT ![Head(queue[st]).slot][Head(queue[st]).buffer]
                                           = Head(queue[st]).call]
                  ELSE content
    /\ Pop(st)
    /\ UNCHANGED <<host, slots, issued>>

(* No more calls, and the streams have drained. *)
Drained ==
    /\ pc = "idle" /\ call = MaxCalls
    /\ \A st \in Streams : queue[st] = <<>>
    /\ UNCHANGED vars

Next ==
    \/ PrepareAsync \/ PrepareNative \/ Launch \/ MarkKernelLaunched
    \/ \E st \in Streams : PassWait(st) \/ Start(st) \/ Finish(st)
    \/ Drained

Spec == Init /\ [][Next]_vars

-----------------------------------------------------------------------------
(* Properties *)

(* A kernel reads, from its first to its last instant, the weights staged  *)
(* for it: its transfers are complete before it starts and none of a later *)
(* matvec begins before it ends.                                           *)
KernelReadsItsWeights ==
    busy["compute"] =>
        LET k == Head(queue["compute"]) IN
        \A b \in k.buffers : content[k.slot][b] = k.call

(* The overlap the slots are for: the fence in front of a matvec's copies  *)
(* waits for no kernel younger than SlotCount matvecs, so that many        *)
(* transfers are issued back to back while older kernels run.  The fence   *)
(* is followed by the copy it protects.                                    *)
FencesAreOld ==
    \A i \in DOMAIN queue["transfer"] : queue["transfer"][i].op = "wait" =>
        \A j \in DOMAIN queue["compute"] :
            /\ queue["compute"][j].op = "kernel"
            /\ done["compute"] + j <= queue["transfer"][i].until
            => queue["compute"][j].call + SlotCount <= queue["transfer"][i + 1].call
=============================================================================
