------------------------------ MODULE MqDelay ------------------------------
(***************************************************************************)
(* cpu_watcher -m: the probes of bpf/mq_delay.bpf.c over tasks that send   *)
(* and receive through a POSIX message queue.  A sender is followed by its *)
(* pid up to load_msg, then by the address of the message; a receiver      *)
(* takes the sender's record up by that address.  The kernel frees the     *)
(* message before the receiver's return probe runs, and it may be received *)
(* before the sender's return probe runs.  A call's number stands for its  *)
(* times of entry and return.  mq_ctrl is read and ignored by every probe. *)
(***************************************************************************)
EXTENDS Naturals

CONSTANTS
  Task, Addr,
  MaxCalls,   \* bound: send and receive calls in a behaviour
  None

VARIABLES
  calls,      \* calls so far
  task,       \* where each task is: see Call
  queue,      \* the messages in the queue
  send_msg1,  \* [Task -> SendInfo or None]
  send_msg2,  \* [Addr -> SendInfo or None]
  rcv_msg1,   \* [Task -> RcvInfo or None]
  ev,         \* the event the last step put in rb
  reused,     \* history: calls that share an address with a later message: see Load
  refused,    \* history: some update found its map full
  lost        \* history: some event found rb full

vars == <<calls, task, queue, send_msg1, send_msg2, rcv_msg1, ev, reused, refused, lost>>

Number   == 1..MaxCalls
Message  == [addr : Addr, call : Number, from : Task]
SendInfo == [send_pid : Task, enter : Number, exit : 0..MaxCalls, key : Addr \cup {None}]
RcvInfo  == [enter : Number, key : Addr \cup {None}]
\* at: "sending" before load_msg, "loaded" after it, "sent" before the return probe;
\* "receiving" and "stored" the same of a receiver.
Call == [at : {"idle", "sending", "loaded", "sent", "receiving", "stored"},
         call : 0..MaxCalls, msg : Message \cup {None}]
Idle == [at |-> "idle", call |-> 0, msg |-> None]

\* The history fields got and sure are no part of the event: the message the receiver
\* took, and whether its address and the maps were in order.
Event == [send_pid : Task, send : Number, exit : 0..MaxCalls, rcv_pid : Task, rcv : Number,
          got : Message, sure : BOOLEAN]

Init ==
  /\ calls = 0 /\ queue = {}
  /\ task = [t \in Task |-> Idle]
  /\ send_msg1 = [t \in Task |-> None] /\ send_msg2 = [a \in Addr |-> None]
  /\ rcv_msg1 = [t \in Task |-> None]
  /\ ev = None /\ reused = {} /\ refused = FALSE /\ lost = FALSE

\* bpf_map_update_elem(BPF_ANY): a new key may find the map full; no result is looked at.
Update(map, key, value, ok) == IF ok THEN [map EXCEPT ![key] = value] ELSE map
Room(map, key) == IF map[key] = None THEN BOOLEAN ELSE {TRUE}
Refuse(ok) == refused' = (refused \/ ~ok)

\* The record in send_msg2 that an entry of send_msg1 or rcv_msg1 leads to.
RecordOf(info) ==
  IF info = None THEN None ELSE IF info.key = None THEN None ELSE send_msg2[info.key]

\* A task enters do_mq_timedsend or do_mq_timedreceive.
Enter(t, at) ==
  /\ task[t].at = "idle" /\ calls < MaxCalls
  /\ calls' = calls + 1
  /\ task' = [task EXCEPT ![t] = [at |-> at, call |-> calls + 1, msg |-> None]]
  /\ ev' = None
-----------------------------------------------------------------------------
(* The sender. *)

SendEnter(t) ==
  /\ Enter(t, "sending")
  /\ \E ok \in Room(send_msg1, t) :
       /\ Refuse(ok)
       /\ send_msg1' = Update(send_msg1, t,
            [send_pid |-> t, enter |-> calls + 1, exit |-> 0, key |-> None], ok)
  /\ UNCHANGED <<queue, send_msg2, rcv_msg1, reused, lost>>

Free(a) == (\A m \in queue : m.addr # a) /\
           (\A t \in Task : task[t].at = "loaded" => task[t].msg.addr # a)

\* Calls that still hold address a although the message is gone.
Holders(a) == {t \in Task : task[t].at \in {"sent", "stored"} /\ task[t].msg # None
                            /\ task[t].msg.addr = a}

\* Variant: an entry that is there is kept (BPF_NOEXIST).
NoteKeyKept(t, a) ==
  \E ok \in Room(send_msg2, a) :
    LET info == [send_msg1[t] EXCEPT !.key = a] IN
    /\ Refuse(ok)
    /\ send_msg1' = [send_msg1 EXCEPT ![t] = info]
    /\ send_msg2' = IF send_msg2[a] = None THEN Update(send_msg2, a, info, ok) ELSE send_msg2

\* load_msg_exit, of a sender whose entry is there.
NoteKey(t, a) ==
  \E ok \in Room(send_msg2, a) :
    LET info == [send_msg1[t] EXCEPT !.key = a] IN
    /\ Refuse(ok)
    /\ send_msg1' = [send_msg1 EXCEPT ![t] = info]
    /\ send_msg2' = Update(send_msg2, a, info, ok)

\* load_msg copies the message to a free address.
Load(t, a) ==
  /\ task[t].at = "sending" /\ Free(a)
  /\ task' = [task EXCEPT ![t] = [at |-> "loaded", call |-> @.call,
                                  msg |-> [addr |-> a, call |-> @.call, from |-> t]]]
  /\ IF send_msg1[t] = None THEN UNCHANGED <<send_msg1, send_msg2, refused>> ELSE NoteKey(t, a)
  /\ reused' = IF Holders(a) = {} THEN reused
               ELSE reused \cup {task[u].call : u \in Holders(a) \cup {t}}
  /\ ev' = None
  /\ UNCHANGED <<calls, queue, rcv_msg1, lost>>

\* The message enters the queue, or the send fails: the message, if there is one, is freed.
Send(t) ==
  /\ \/ /\ task[t].at = "loaded"
        /\ queue' = queue \cup {task[t].msg}
     \/ /\ task[t].at \in {"sending", "loaded"}
        /\ UNCHANGED queue
  /\ task' = [task EXCEPT ![t].at = "sent"]
  /\ ev' = None
  /\ UNCHANGED <<calls, send_msg1, send_msg2, rcv_msg1, reused, refused, lost>>

\* Variant: the sender's return probe clears the record of the message, too.
StampDeletes(a, n) == [send_msg2 EXCEPT ![a] = None]

\* mq_send_info2->send_exit_time = send_exit_time.
Stamp(a, n) == [send_msg2 EXCEPT ![a].exit = n]

\* do_mq_timedsend_exit.
SendExit(t) ==
  LET info == send_msg1[t] IN
  /\ task[t].at = "sent"
  /\ task' = [task EXCEPT ![t] = Idle]
  /\ IF RecordOf(info) = None
     THEN UNCHANGED <<send_msg1, send_msg2>>
     ELSE /\ send_msg2' = Stamp(info.key, task[t].call)
          /\ send_msg1' = [send_msg1 EXCEPT ![t] = None]
  /\ ev' = None
  /\ UNCHANGED <<calls, queue, rcv_msg1, reused, refused, lost>>
-----------------------------------------------------------------------------
(* The receiver. *)

RcvEnter(t) ==
  /\ Enter(t, "receiving")
  /\ \E ok \in Room(rcv_msg1, t) :
       /\ Refuse(ok)
       /\ rcv_msg1' = Update(rcv_msg1, t, [enter |-> calls + 1, key |-> None], ok)
  /\ UNCHANGED <<queue, send_msg1, send_msg2, reused, lost>>

\* The receiver takes a message out of the queue, store_msg runs, the message is freed.
Store(t, m) ==
  /\ task[t].at = "receiving" /\ m \in queue
  /\ queue' = queue \ {m}
  /\ task' = [task EXCEPT ![t] = [at |-> "stored", call |-> @.call, msg |-> m]]
  /\ rcv_msg1' = IF send_msg2[m.addr] = None \/ rcv_msg1[t] = None THEN rcv_msg1
                 ELSE [rcv_msg1 EXCEPT ![t].key = m.addr]
  /\ ev' = None
  /\ UNCHANGED <<calls, send_msg1, send_msg2, reused, refused, lost>>

\* The receive fails: no message in time.
RcvFails(t) ==
  /\ task[t].at = "receiving"
  /\ task' = [task EXCEPT ![t].at = "stored"]
  /\ ev' = None
  /\ UNCHANGED <<calls, queue, send_msg1, send_msg2, rcv_msg1, reused, refused, lost>>

\* do_mq_timedreceive_exit.  Without room in rb it returns before the entries are deleted.
RcvExit(t) ==
  LET info == rcv_msg1[t]
      m    == task[t].msg
      s    == RecordOf(info)
  IN
  /\ task[t].at = "stored"
  /\ task' = [task EXCEPT ![t] = Idle]
  /\ \/ /\ s = None
        /\ ev' = None
        /\ UNCHANGED <<send_msg2, rcv_msg1, lost>>
     \/ /\ s # None
        /\ ev' = [send_pid |-> s.send_pid, send |-> s.enter, exit |-> s.exit,
                  rcv_pid |-> t, rcv |-> info.enter, got |-> m,
                  sure |-> ~refused /\ {task[t].call, m.call} \cap reused = {}]
        /\ send_msg2' = [send_msg2 EXCEPT ![info.key] = None]
        /\ rcv_msg1' = [rcv_msg1 EXCEPT ![t] = None]
        /\ UNCHANGED lost
     \/ /\ s # None
        /\ lost' = TRUE /\ ev' = None
        /\ UNCHANGED <<send_msg2, rcv_msg1>>
  /\ UNCHANGED <<calls, queue, send_msg1, reused, refused>>

Next ==
  \E t \in Task :
    \/ SendEnter(t) \/ Send(t) \/ SendExit(t) \/ RcvEnter(t) \/ RcvFails(t) \/ RcvExit(t)
    \/ \E a \in Addr : Load(t, a)
    \/ \E m \in queue : Store(t, m)
-----------------------------------------------------------------------------
(* Properties. *)

TypeOK ==
  /\ calls \in 0..MaxCalls /\ task \in [Task -> Call] /\ queue \subseteq Message
  /\ send_msg1 \in [Task -> SendInfo \cup {None}]
  /\ send_msg2 \in [Addr -> SendInfo \cup {None}]
  /\ rcv_msg1 \in [Task -> RcvInfo \cup {None}]
  /\ ev \in Event \cup {None}
  /\ reused \subseteq Number /\ refused \in BOOLEAN /\ lost \in BOOLEAN

\* An event is about the message its receiver took: it names the task that sent it and
\* the times of that send; the time of return is missing exactly when the sender has not
\* returned yet, which mq_event reports as an error (cpu_watcher.c:670).  Records left by
\* failed sends and lost events do no harm; only a message that got the address of one
\* whose sender or receiver had not returned, or a full map, can mix two sends up
\* (mq_delay.bpf.c:131, 149, 232).
EventIsOfItsMessage ==
  ev # None /\ ev.sure =>
    LET s == task[ev.got.from] IN
    /\ ev.send_pid = ev.got.from /\ ev.send = ev.got.call
    /\ ev.exit = IF s.at # "idle" /\ s.call = ev.got.call THEN 0 ELSE ev.got.call

\* Every message received gets its event, again unless its address was shared, a map was
\* full or an event lost: neither the sender's return nor another receiver takes the
\* record away that its receiver needs (mq_delay.bpf.c:150, 244).
ReceiptStep ==
  \A t \in Task :
    task[t].at = "stored" /\ task'[t].at = "idle" /\ task[t].msg # None
      /\ ~refused /\ ~lost' /\ {task[t].call, task[t].msg.call} \cap reused = {}
    => ev' # None
=============================================================================
