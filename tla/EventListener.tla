--------------------------- MODULE EventListener ---------------------------
(***************************************************************************)
(* TEventHolderListener over the TEventLoopHolder that CMqttConnection is: *)
(* a TBlockingQueue that mosquitto's thread fills, and a thread that takes *)
(* the events out and gives them to the bridge. The thread keeps a weak    *)
(* pointer to the holder and owns it only while it is at one event.        *)
(*                                                                         *)
(* push and pop are one step each: what they do under m_queue_mutex cannot *)
(* fail, wait_for looks at the queue again after its timeout, and the      *)
(* sender is not cancelled in there.                                       *)
(***************************************************************************)
EXTENDS Integers, Sequences

CONSTANTS
    Events,     \* what a TMqttEventVariant may say
    NoEvent     \* the null pointer

VARIABLES
    m_queue,        \* TBlockingQueue::m_queue
    m_interrupted,  \* set by ~TEventHolderListener
    place,          \* where the thread is in eventLoop
    ev              \* its local ev

evars == <<m_queue, m_interrupted, place, ev>>

\* All but "check" and "done" are inside the block that owns the holder.
Places == {"check", "wait", "handle", "process", "done"}

OwnsHolder == place \in {"wait", "handle", "process"}

TypeOK ==
    /\ m_queue \in Seq(Events)
    /\ m_interrupted \in BOOLEAN
    /\ place \in Places
    /\ ev \in Events \union {NoEvent}

Init ==
    /\ m_queue = <<>>
    /\ m_interrupted = FALSE
    /\ place = "check"
    /\ ev = NoEvent

\* Mutant of sendEvent: the pointer is moved from before it is pushed.
sendEvent_Moved(e) ==
    /\ m_queue' = Append(m_queue, NoEvent)
    /\ UNCHANGED <<m_interrupted, place, ev>>

sendEvent(e) ==
    /\ m_queue' = Append(m_queue, e)
    /\ UNCHANGED <<m_interrupted, place, ev>>

\* The loop's condition, and the attempt to lock the holder.
LockHolder(alive) ==
    /\ place = "check"
    /\ place' = IF ~m_interrupted /\ alive THEN "wait" ELSE "done"
    /\ UNCHANGED <<m_queue, m_interrupted, ev>>

\* Mutant of consumeEvent: the newest event is taken.
consumeEvent_Newest ==
    /\ place = "wait"
    /\ m_queue # <<>>
    /\ ev' = m_queue[Len(m_queue)]
    /\ m_queue' = SubSeq(m_queue, 1, Len(m_queue) - 1)
    /\ place' = "handle"
    /\ UNCHANGED m_interrupted

consumeEvent ==
    /\ place = "wait"
    /\ m_queue # <<>>
    /\ ev' = Head(m_queue)
    /\ m_queue' = Tail(m_queue)
    /\ place' = "handle"
    /\ UNCHANGED m_interrupted

\* pop gives up after m_timeout, ev stays null and the holder is let go.
ConsumeNothing ==
    /\ place = "wait"
    /\ m_queue = <<>>
    /\ place' = "check"
    /\ UNCHANGED <<m_queue, m_interrupted, ev>>

\* m_event_prc_func, up to where it looks at the bridge's table, and from there
\* to where the holder is let go.
BeginProcess ==
    /\ place = "handle"
    /\ place' = "process"
    /\ UNCHANGED <<m_queue, m_interrupted, ev>>

EndProcess ==
    /\ place = "process"
    /\ place' = "check"
    /\ ev' = NoEvent
    /\ UNCHANGED <<m_queue, m_interrupted>>

\* Mutant of Interrupt: the flag is never set.
Interrupt_Lost == UNCHANGED evars

Interrupt ==
    /\ m_interrupted' = TRUE
    /\ UNCHANGED <<m_queue, place, ev>>

\* The events given to the listener and not yet handled, oldest first.
Unhandled == IF ev = NoEvent THEN m_queue ELSE <<ev>> \o m_queue

Abstract == INSTANCE Fifo WITH Items <- Events, pending <- Unhandled
=============================================================================
