------------------------------ MODULE EventBus ------------------------------
(***************************************************************************)
(* One group of the event dispatcher (internal/event/event.go): the        *)
(* publishers and the consumers of one event type, the queue of each       *)
(* consumer, and the one condition variable on which all of them wait.     *)
(*                                                                         *)
(* A step is a critical section of the group's mutex, or what a goroutine  *)
(* does between two of them.  "locks" is a goroutine that is about to take *)
(* the mutex, "waits" one inside cond.Wait: it sleeps until somebody       *)
(* broadcasts, whatever becomes of what it waits for.                      *)
(***************************************************************************)
EXTENDS Naturals, Sequences

CONSTANTS
    Publishers,     \* goroutines that publish
    Consumers,      \* subscriptions, each made once
    MaxQueue,       \* dispatcher.maxQueue
    Nothing         \* no event

ASSUME BusAssumption ==
    /\ MaxQueue \in Nat \ {0}
    /\ Publishers \intersect Consumers = {}

VARIABLES
    group,          \* whether the registry has a group for the type
    member,         \* subscription -> "never", "in" s.subs, or "out" of it (stop)
    queue,          \* consumer.queue
    pending,        \* what Listen took from it
    listen,         \* where the Listen goroutine is
    publish,        \* where a publisher is
    offered         \* the event it publishes

busVars == <<group, member, queue, pending, listen, publish, offered>>

BusInit ==
    /\ group = FALSE
    /\ member = [c \in Consumers |-> "never"]
    /\ queue = [c \in Consumers |-> <<>>]
    /\ pending = [c \in Consumers |-> <<>>]
    /\ listen = [c \in Consumers |-> "unborn"]
    /\ publish = [p \in Publishers |-> "idle"]
    /\ offered = [p \in Publishers |-> Nothing]

Subscribed == {c \in Consumers : member[c] = "in"}

(* cond.Broadcast: whoever is inside cond.Wait goes for the mutex again.   *)
Woken(pcs) == [g \in DOMAIN pcs |-> IF pcs[g] = "waits" THEN "locks" ELSE pcs[g]]

-----------------------------------------------------------------------------
(* Subscriptions.                                                          *)

(* SubscribeTo: the group is created with the first subscription and stays *)
(* for good; Add starts the Listen goroutine.                              *)
Subscribe(c) ==
    /\ member[c] = "never"
    /\ group' = TRUE
    /\ member' = [member EXCEPT ![c] = "in"]
    /\ listen' = [listen EXCEPT ![c] = "locks"]
    /\ UNCHANGED <<queue, pending, publish, offered>>

(* Del, the cancel function of a subscription.  Nobody is woken.           *)
Del(c) ==
    /\ member[c] = "in"
    /\ member' = [member EXCEPT ![c] = "out"]
    /\ UNCHANGED <<group, queue, pending, listen, publish, offered>>

-----------------------------------------------------------------------------
(* Publishers.                                                             *)

(* Publish: without a group the event is nobody's.                         *)
Publish(p, e) ==
    /\ publish[p] = "idle"
    /\ IF group
         THEN /\ publish' = [publish EXCEPT ![p] = "locks"]
              /\ offered' = [offered EXCEPT ![p] = e]
         ELSE UNCHANGED <<publish, offered>>
    /\ UNCHANGED <<group, member, queue, pending, listen>>

(* s.maxLen >= s.maxQueue                                                  *)
Full == \E c \in Subscribed : Len(queue[c]) >= MaxQueue

BroadcastWaits(p) ==
    /\ publish[p] = "locks"
    /\ Full
    /\ publish' = [publish EXCEPT ![p] = "waits"]
    /\ UNCHANGED <<group, member, queue, pending, listen, offered>>

Broadcast(p) ==
    /\ publish[p] = "locks"
    /\ ~Full
    /\ queue' = [c \in Consumers |-> IF c \in Subscribed
                                       THEN Append(queue[c], offered[p])
                                       ELSE queue[c]]
    /\ publish' = Woken([publish EXCEPT ![p] = "idle"])
    /\ offered' = [offered EXCEPT ![p] = Nothing]
    /\ listen' = Woken(listen)
    /\ UNCHANGED <<group, member, pending>>

-----------------------------------------------------------------------------
(* The Listen goroutine of a consumer.                                     *)

ListenWaits(c) ==
    /\ listen[c] = "locks"
    /\ queue[c] = <<>>
    /\ member[c] = "in"
    /\ listen' = [listen EXCEPT ![c] = "waits"]
    /\ UNCHANGED <<group, member, queue, pending, publish, offered>>

ListenReturns(c) ==
    /\ listen[c] = "locks"
    /\ queue[c] = <<>>
    /\ member[c] = "out"
    /\ listen' = [listen EXCEPT ![c] = "gone"]
    /\ UNCHANGED <<group, member, queue, pending, publish, offered>>

(* Seeded bug: the queue is not reset.                                     *)
ListenTakesCopy(c) ==
    /\ listen[c] = "locks"
    /\ queue[c] # <<>>
    /\ pending' = [pending EXCEPT ![c] = queue[c]]
    /\ listen' = [listen EXCEPT ![c] = "works"]
    /\ UNCHANGED <<group, member, queue, publish, offered>>

ListenTakes(c) ==
    /\ listen[c] = "locks"
    /\ queue[c] # <<>>
    /\ pending' = [pending EXCEPT ![c] = queue[c]]
    /\ queue' = [queue EXCEPT ![c] = <<>>]
    /\ listen' = [listen EXCEPT ![c] = "works"]
    /\ UNCHANGED <<group, member, publish, offered>>

(* fn(event) has returned; what it did is up to the subscriber.            *)
HandlerReturns(c) ==
    /\ listen[c] = "works"
    /\ pending[c] # <<>>
    /\ pending' = [pending EXCEPT ![c] = Tail(@)]
    /\ UNCHANGED <<group, member, queue, listen, publish, offered>>

(* Seeded bug: the batch is done and nobody is told.                       *)
ListenSignalsNobody(c) ==
    /\ listen[c] = "works"
    /\ pending[c] = <<>>
    /\ listen' = [listen EXCEPT ![c] = "locks"]
    /\ UNCHANGED <<group, member, queue, pending, publish, offered>>

(* The batch is done: publishers are told that there is room.              *)
ListenSignals(c) ==
    /\ listen[c] = "works"
    /\ pending[c] = <<>>
    /\ listen' = Woken([listen EXCEPT ![c] = "locks"])
    /\ publish' = Woken(publish)
    /\ UNCHANGED <<group, member, queue, pending, offered>>

ListenStep(c) ==
    \/ ListenWaits(c)
    \/ ListenReturns(c)
    \/ ListenTakes(c)
    \/ ListenSignals(c)

-----------------------------------------------------------------------------
(* A publisher that sleeps on a full queue is woken: a Listen goroutine is *)
(* at work, or is about to take a queue that has something in it, and      *)
(* broadcasts when the batch is done.  This holds also when the consumer   *)
(* whose queue was full has unsubscribed meanwhile (event.go Broadcast,    *)
(* Listen and Del share one condition variable).                           *)
NoLostWakeup ==
    (\E p \in Publishers : publish[p] = "waits") =>
        \E c \in Consumers : \/ listen[c] = "works"
                             \/ listen[c] = "locks" /\ queue[c] # <<>>

=============================================================================
