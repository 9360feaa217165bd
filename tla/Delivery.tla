------------------------------ MODULE Delivery ------------------------------
(***************************************************************************)
(* The endpoint agent (agent/collector-core buffer.rs, delivery.rs,        *)
(* heartbeat.rs and agentd/main.rs) against the ingest endpoint            *)
(* (dataplane api/ingest.py): telemetry goes from the provider's channel   *)
(* into a disk buffer of one queue of segment files per event class, is    *)
(* sent oldest first, and is removed when the server has answered 202.     *)
(*                                                                         *)
(* The buffer is behind a mutex that is not held during a request, so the  *)
(* drain task may shed segments while a batch of them is on the wire.      *)
(*                                                                         *)
(* Abstractions: all lines have the same length, so that sizes are counted *)
(* in lines and at most one segment is shed per event; delays are the free *)
(* interleaving; corrupt lines and failing reads are left out, so that a   *)
(* write that fails leaves nothing of its line in the file.                *)
(***************************************************************************)
EXTENDS Integers, Sequences, FiniteSets

CONSTANTS
    Classes,          \* 1..n, EventClass in the order of shed_priority
    MaxEvents,        \* bound on the events the provider emits
    kinds,            \* [1..MaxEvents -> the classes an event may have]
    Oversized,        \* events that may be longer than the whole buffer
    ChannelCapacity,  \* delivery.channel_capacity
    MaxTotal,         \* buffer.max_bytes, in lines
    SegmentMax,       \* buffer.segment_max_bytes, in lines
    MaxBatch,         \* delivery.max_batch_events
    IngestMax,        \* the server's ingest_max_events
    MaxFaults         \* bound on crashes and shutdowns of the agent and on failing writes

ASSUME DeliveryAssumption ==
    /\ MaxEvents \in Nat /\ Oversized \subseteq 1..MaxEvents
    /\ kinds \in [1..MaxEvents -> SUBSET Classes]
    /\ Classes \subseteq Nat /\ IsFiniteSet(Classes)
    /\ {ChannelCapacity, MaxTotal, SegmentMax, MaxBatch, IngestMax} \subseteq Nat \ {0}
    /\ MaxFaults \in Nat

VARIABLES
    class,      \* <<c1, c2, ...>>: the class of each event emitted, in order
    chan,       \* the provider's channel
    files,      \* [Classes -> Seq(line)]: the lines on disk; a line names its file
    active,     \* [Classes -> the file being appended to, or 0]
    consumed,   \* [Classes -> lines of the front that are acknowledged]
    next_seq, stored,
    total, reported,  \* DropCounters
    batch,      \* the batch on the wire, or {}
    taken,      \* [Classes -> lines the batch took from each class]
    answer,     \* the answer to the batch, "none" while there is none
    max_events, \* Deliverer.current_max_events
    tasks,      \* the tasks of agentd that run
    provider,   \* the provider runs
    shutdown, revoked,  \* the two watch channels of main.rs
    received,   \* events in the stream of the server
    heard,      \* drop counts the server got in heartbeats
    device_revoked,  \* the server answers DEVICE_REVOKED
    shed,       \* events that were counted as dropped
    gone,       \* events that the agent took and never buffered
    overtaken,  \* a segment was shed while lines of its queue were on the wire
    unheard,    \* drop counts were lost with a heartbeat or with the process
    faults

buffer == <<files, active, consumed, next_seq, stored>>
drops == <<total, reported>>
wire == <<batch, taken, answer>>
process == <<tasks, provider, shutdown, revoked>>
agent == <<chan, buffer, drops, wire, max_events, process>>
server == <<received, heard, device_revoked>>
history == <<shed, gone, overtaken, unheard>>
vars == <<class, agent, server, history, faults>>

Tasks == {"drain", "delivery", "heartbeat"}
Zero == [c \in Classes |-> 0]
Running == tasks # {}

-----------------------------------------------------------------------------
(* buffer.rs                                                               *)

Lines(c) == {files[c][i] : i \in 1..Len(files[c])}
OnDisk == UNION {Lines(c) : c \in Classes}

(* The number of lines at the front of q that are in its oldest file. *)
front(q) == Cardinality({i \in 1..Len(q) : q[i].file = q[1].file})

(* ClassReader: the consumed prefix is skipped in the first file only. *)
first_unread(c) ==
    IF files[c] = <<>> \/ consumed[c] < front(files[c]) THEN consumed[c] + 1
    ELSE front(files[c]) + 1

Unread(c) == {files[c][i] : i \in first_unread(c)..Len(files[c])}
Pending == UNION {Unread(c) : c \in Classes}

(* next_batch: the oldest lines of all classes. *)
next_batch ==
    {l \in Pending : Cardinality({k \in Pending : k.seq <= l.seq}) <= max_events}

(* advance: the whole files among the first n lines are deleted. *)
deletable(q, n) ==
    LET ends == {i \in 1..Len(q) : i <= n /\ (i = Len(q) \/ q[i].file # q[i + 1].file)}
    IN  IF ends = {} THEN 0 ELSE CHOOSE i \in ends : \A j \in ends : j <= i

RemoveFront(q, n) == SubSeq(q, n + 1, Len(q))
HasFile(q, f) == \E i \in 1..Len(q) : q[i].file = f

commit ==
    LET n == [c \in Classes |-> deletable(files[c], consumed[c] + taken[c])]
        left == [c \in Classes |-> RemoveFront(files[c], n[c])]
    IN  /\ files' = left
        /\ consumed' = [c \in Classes |-> consumed[c] + taken[c] - n[c]]
        /\ active' = [c \in Classes |-> IF HasFile(left[c], active[c]) THEN active[c] ELSE 0]
        /\ stored' = stored - Cardinality(UNION {{files[c][i] : i \in 1..n[c]} : c \in Classes})

(* shed_one: the class whose oldest file goes; classes are asked in shed order. *)
sheddable == {c \in Classes : files[c] # <<>> /\ \A b \in Classes : b < c => files[b] = <<>>}

-----------------------------------------------------------------------------
Init ==
    /\ class = <<>> /\ chan = <<>>
    /\ files = [c \in Classes |-> <<>>] /\ active = Zero /\ consumed = Zero
    /\ next_seq = 1 /\ stored = 0
    /\ total = Zero /\ reported = Zero
    /\ batch = {} /\ taken = Zero /\ answer = "none" /\ max_events = MaxBatch
    /\ tasks = Tasks /\ provider = TRUE /\ shutdown = FALSE /\ revoked = FALSE
    /\ received = {} /\ heard = Zero /\ device_revoked = FALSE
    /\ shed = {} /\ gone = {} /\ overtaken = FALSE /\ unheard = FALSE
    /\ faults = 0

(* The provider sends an event into the channel; a full channel blocks it. *)
send_blocking(c) ==
    /\ provider /\ "drain" \in tasks
    /\ Len(class) < MaxEvents /\ Len(chan) < ChannelCapacity
    /\ c \in kinds[Len(class) + 1]
    /\ class' = Append(class, c)
    /\ chan' = Append(chan, Len(class) + 1)
    /\ UNCHANGED <<buffer, drops, wire, max_events, process, server, history, faults>>

count_drop(c, n) == total' = [total EXCEPT ![c] = @ + n]

(* enqueue, when the event is longer than the buffer: counted and dropped. *)
enqueue_oversized ==
    /\ "drain" \in tasks /\ chan # <<>> /\ Head(chan) \in Oversized
    /\ count_drop(class[Head(chan)], 1)
    /\ shed' = shed \cup {Head(chan)}
    /\ chan' = Tail(chan)
    /\ UNCHANGED <<class, buffer, reported, wire, max_events, process, server, gone,
                   overtaken, unheard, faults>>

(* append: the file is closed when it has reached its size. *)
append(c, e, fs, act) ==
    LET f == IF act[c] = 0 THEN next_seq ELSE act[c]
        q == Append(fs[c], [seq |-> next_seq, id |-> e, file |-> f])
        size == Cardinality({i \in 1..Len(q) : q[i].file = f})
    IN  /\ files' = [fs EXCEPT ![c] = q]
        /\ active' = [act EXCEPT ![c] = IF size >= SegmentMax THEN 0 ELSE f]
        /\ next_seq' = next_seq + 1

enqueue_fits ==
    /\ "drain" \in tasks /\ chan # <<>>
    /\ stored + 1 <= MaxTotal
    /\ append(class[Head(chan)], Head(chan), files, active)
    /\ stored' = stored + 1
    /\ chan' = Tail(chan)
    /\ UNCHANGED <<class, consumed, drops, wire, max_events, process, server, history,
                   faults>>

unconsumed(q, n, k) == {q[i].id : i \in (k + 1)..n}

(* drain_loop logs a failing append and goes on without the event. *)
append_error(fs, act) ==
    /\ faults < MaxFaults /\ faults' = faults + 1
    /\ gone' = gone \cup {Head(chan)}
    /\ files' = fs /\ active' = act
    /\ UNCHANGED next_seq

(* enqueue into a full buffer: drop_front frees the oldest file of class b first, also
   when the append fails then. *)
enqueue_shed ==
    /\ "drain" \in tasks /\ chan # <<>>
    /\ stored + 1 > MaxTotal
    /\ \E b \in sheddable :
        LET n == front(files[b])
            left == [files EXCEPT ![b] = RemoveFront(@, n)]
            act == [active EXCEPT ![b] = IF HasFile(left[b], @) THEN @ ELSE 0]
            dropped == unconsumed(files[b], n, consumed[b])
        IN  /\ consumed' = [consumed EXCEPT ![b] = 0]
            /\ count_drop(b, Cardinality(dropped))
            /\ shed' = shed \cup dropped
            /\ overtaken' = (overtaken \/ taken[b] > 0)
            /\ \/ /\ append(class[Head(chan)], Head(chan), left, act)
                  /\ stored' = stored - n + 1
                  /\ UNCHANGED <<gone, faults>>
               \/ append_error(left, act) /\ stored' = stored - n
    /\ chan' = Tail(chan)
    /\ UNCHANGED <<class, reported, wire, max_events, process, server, unheard>>

enqueue_error ==
    /\ "drain" \in tasks /\ chan # <<>>
    /\ stored + 1 <= MaxTotal
    /\ append_error(files, active)
    /\ chan' = Tail(chan)
    /\ UNCHANGED <<class, consumed, stored, drops, wire, max_events, process, server, shed,
                   overtaken, unheard>>

-----------------------------------------------------------------------------
(* delivery.rs                                                             *)

deliver_once ==
    /\ "delivery" \in tasks /\ ~shutdown /\ batch = {} /\ Pending # {}
    /\ batch' = {l.id : l \in next_batch}
    /\ taken' = [c \in Classes |-> Cardinality(next_batch \cap Lines(c))]
    /\ answer' = "none"
    /\ UNCHANGED <<class, chan, buffer, drops, max_events, process, server, history,
                   faults>>

Answer(a) ==
    /\ batch # {} /\ answer = "none"
    /\ answer' = a
    /\ UNCHANGED <<class, chan, buffer, drops, batch, taken, max_events, process, heard,
                   device_revoked, history, faults>>

(* agent_events: the batch is in the stream before the 202, which may be lost. *)
handle_batch ==
    /\ ~device_revoked /\ Cardinality(batch) <= IngestMax
    /\ received' = received \cup batch
    /\ Answer("202")

handle_batch_lost ==
    /\ ~device_revoked /\ Cardinality(batch) <= IngestMax
    /\ received' = received \cup batch
    /\ Answer("transport")

read_batch_too_large ==
    /\ ~device_revoked /\ Cardinality(batch) > IngestMax
    /\ UNCHANGED received /\ Answer("413")

(* A frozen tenant, the quota, a store that is down, another serial, no connection. *)
refuse == UNCHANGED received /\ Answer("other")

verify_device_revoked ==
    /\ device_revoked
    /\ UNCHANGED received /\ Answer("DEVICE_REVOKED")

EndAttempt == batch' = {} /\ taken' = Zero /\ answer' = "none"

deliver_2xx ==
    /\ "delivery" \in tasks /\ answer = "202"
    /\ commit /\ EndAttempt
    /\ UNCHANGED <<class, chan, next_seq, drops, max_events, process, server, history,
                   faults>>

deliver_413_mutant ==
    /\ "delivery" \in tasks /\ answer = "413"
    /\ EndAttempt
    /\ UNCHANGED <<class, chan, buffer, drops, max_events, process, server, history, faults>>

deliver_413 ==
    /\ "delivery" \in tasks /\ answer = "413"
    /\ max_events' = IF max_events \div 2 > 1 THEN max_events \div 2 ELSE 1
    /\ EndAttempt
    /\ UNCHANGED <<class, chan, buffer, drops, process, server, history, faults>>

deliver_backoff_mutant ==
    /\ "delivery" \in tasks /\ answer \in {"other", "transport"}
    /\ commit /\ EndAttempt
    /\ UNCHANGED <<class, chan, next_seq, drops, max_events, process, server, history, faults>>

deliver_backoff ==
    /\ "delivery" \in tasks /\ answer \in {"other", "transport"}
    /\ EndAttempt
    /\ UNCHANGED <<class, chan, buffer, drops, max_events, process, server, history,
                   faults>>

deliver_revoked ==
    /\ "delivery" \in tasks /\ answer = "DEVICE_REVOKED"
    /\ revoked' = TRUE /\ tasks' = tasks \ {"delivery"}
    /\ EndAttempt
    /\ UNCHANGED <<class, chan, buffer, drops, max_events, provider, shutdown, server,
                   history, faults>>

-----------------------------------------------------------------------------
(* heartbeat.rs                                                            *)

take_delta_mutant == UNCHANGED reported

take_delta == reported' = total

(* The counts are taken before the request; a request that fails has lost them.  Nothing
   else depends on how long it takes, so it is one step. *)
Heartbeat(got, lost, rev) ==
    /\ "heartbeat" \in tasks /\ ~shutdown
    /\ take_delta
    /\ heard' = [c \in Classes |-> heard[c] + IF got THEN total[c] - reported[c] ELSE 0]
    /\ unheard' = (unheard \/ (lost /\ total # reported))
    /\ revoked' = (revoked \/ rev)
    /\ tasks' = IF rev THEN tasks \ {"heartbeat"} ELSE tasks
    /\ UNCHANGED <<class, chan, buffer, total, wire, max_events, provider, shutdown,
                   received, device_revoked, shed, gone, overtaken, faults>>

heartbeat_ok == ~device_revoked /\ Heartbeat(TRUE, FALSE, FALSE)
heartbeat_failed == Heartbeat(FALSE, TRUE, FALSE)
heartbeat_revoked_mutant == device_revoked /\ Heartbeat(FALSE, TRUE, FALSE)

heartbeat_revoked == device_revoked /\ Heartbeat(FALSE, TRUE, TRUE)

-----------------------------------------------------------------------------
(* agentd/main.rs                                                          *)

revoke_device ==
    /\ ~device_revoked
    /\ device_revoked' = TRUE
    /\ UNCHANGED <<class, agent, received, heard, history, faults>>

(* main waits for a signal or for the revoked channel. *)
main_shutdown ==
    /\ Running /\ ~shutdown
    /\ revoked \/ faults < MaxFaults
    /\ shutdown' = TRUE
    /\ faults' = IF revoked THEN faults ELSE faults + 1
    /\ UNCHANGED <<class, chan, buffer, drops, wire, max_events, tasks, provider, revoked,
                   server, history>>

main_stop_provider ==
    /\ shutdown /\ provider
    /\ provider' = FALSE
    /\ UNCHANGED <<class, chan, buffer, drops, wire, max_events, tasks, shutdown, revoked,
                   server, history, faults>>

EndTask(t) ==
    /\ shutdown /\ t \in tasks
    /\ tasks' = tasks \ {t}
    /\ UNCHANGED <<class, chan, buffer, drops, wire, max_events, provider, shutdown,
                   revoked, server, history, faults>>

drain_ends == chan = <<>> /\ EndTask("drain")
delivery_ends == batch = {} /\ EndTask("delivery")
heartbeat_ends == EndTask("heartbeat")

MaxSeq(S) == IF S = {} THEN 0 ELSE CHOOSE s \in {l.seq : l \in S} : \A l \in S : l.seq <= s

(* DiskBuffer::open: numbering goes on after the last line of any class. *)
recovered_seq == MaxSeq(OnDisk) + 1

recovered_bytes_mutant == 0

recovered_bytes == Cardinality(OnDisk)

(* What the memory of the process held is lost with it. *)
crash ==
    /\ Running /\ faults < MaxFaults
    /\ faults' = faults + 1
    /\ gone' = gone \cup {chan[i] : i \in 1..Len(chan)}
    /\ chan' = <<>> /\ tasks' = {} /\ provider' = FALSE
    /\ batch' = {} /\ taken' = Zero /\ answer' = "none"
    /\ revoked' = FALSE
    /\ unheard' = TRUE
    /\ UNCHANGED <<class, buffer, drops, max_events, shutdown, server, shed, overtaken>>

(* The service manager starts the agent again; consumption is not persisted. *)
start ==
    /\ ~Running /\ ~provider /\ ~revoked
    /\ active' = Zero /\ consumed' = Zero
    /\ next_seq' = recovered_seq /\ stored' = recovered_bytes
    /\ total' = Zero /\ reported' = Zero
    /\ max_events' = MaxBatch
    /\ tasks' = Tasks /\ provider' = TRUE /\ shutdown' = FALSE
    /\ unheard' = TRUE
    /\ UNCHANGED <<class, chan, files, wire, revoked, server, shed, gone, overtaken,
                   faults>>

Next ==
    \/ \E c \in Classes : send_blocking(c)
    \/ enqueue_oversized \/ enqueue_fits \/ enqueue_shed \/ enqueue_error
    \/ deliver_once
    \/ handle_batch \/ handle_batch_lost \/ read_batch_too_large
    \/ refuse \/ verify_device_revoked
    \/ deliver_2xx \/ deliver_413 \/ deliver_backoff \/ deliver_revoked
    \/ heartbeat_ok \/ heartbeat_failed \/ heartbeat_revoked
    \/ revoke_device \/ main_shutdown \/ main_stop_provider
    \/ drain_ends \/ delivery_ends \/ heartbeat_ends
    \/ crash \/ start

Spec == Init /\ [][Next]_vars

(* The runtime schedules every task, the service manager restarts the agent, and a server
   that is asked again and again at last answers. *)
Fairness ==
    /\ WF_vars(enqueue_oversized \/ enqueue_fits \/ enqueue_shed \/ drain_ends)
    /\ WF_vars(deliver_once \/ deliver_2xx \/ deliver_413 \/ deliver_backoff
               \/ deliver_revoked \/ delivery_ends)
    /\ SF_vars(handle_batch \/ read_batch_too_large \/ verify_device_revoked)
    /\ SF_vars(heartbeat_ok \/ heartbeat_revoked) /\ WF_vars(heartbeat_ends)
    /\ WF_vars((revoked /\ main_shutdown) \/ main_stop_provider)
    /\ WF_vars(start)

FairSpec == Spec /\ Fairness

-----------------------------------------------------------------------------
Emitted == 1..Len(class)
Queued == {chan[i] : i \in 1..Len(chan)}
Buffered == {l.id : l \in OnDisk}

(* Lines that will still be sent: all of them after a restart. *)
Waiting == IF Running THEN {l.id : l \in Pending} ELSE Buffered

(* Type correctness. *)
TypeOK ==
    /\ class \in Seq(Classes) /\ Len(class) <= MaxEvents
    /\ chan \in Seq(Emitted)
    /\ \A c \in Classes : files[c] \in Seq([seq : Nat, id : Emitted, file : Nat])
    /\ active \in [Classes -> Nat] /\ consumed \in [Classes -> Nat]
    /\ next_seq \in Nat /\ stored \in Nat /\ max_events \in 1..MaxBatch
    /\ total \in [Classes -> Nat] /\ reported \in [Classes -> Nat]
    /\ taken \in [Classes -> Nat]
    /\ answer \in {"none", "202", "413", "other", "transport", "DEVICE_REVOKED"}
    /\ batch \subseteq Emitted /\ tasks \subseteq Tasks
    /\ heard \in [Classes -> Nat]

(* Every event that the agent took is waiting, in the stream of the server, or counted as
   dropped; failing writes and events in the channel of a process that died are apart. *)
AccountedFor == Emitted \subseteq (Queued \cup Waiting \cup received \cup shed \cup gone)

(* The same, as long as no segment was shed while lines of its queue were on the wire:
   crashes, lost answers, 413 and shedding between requests lose nothing silently. *)
AccountedUnlessOvertaken == overtaken \/ AccountedFor

(* The counter of stored bytes is what lies on disk, which never exceeds the cap. *)
DiskBounded ==
    /\ Cardinality(OnDisk) <= MaxTotal
    /\ Running => stored = Cardinality(OnDisk)

(* The drops in heartbeats and those not yet taken are those counted: none is
   reported twice, and none is missing unless a heartbeat failed or the agent stopped. *)
DropsHeardOnce ==
    \A c \in Classes :
        LET known == heard[c] + total[c] - reported[c]
            counted == Cardinality({e \in shed : class[e] = c})
        IN  known <= counted /\ (~unheard => known = counted)

(* An event in the buffer is in the end received or counted as dropped. *)
EventuallyDelivered ==
    \A e \in 1..MaxEvents :
        e \in Buffered ~> (e \in received \cup shed \/ overtaken \/ device_revoked)

(* A revoked agent stops, whether it has something to send or not. *)
RevokedAgentStops == device_revoked ~> (revoked /\ ~Running)
=============================================================================
