----------------------------- MODULE RedisPubSub -----------------------------
(***************************************************************************)
(* The redis cluster provider: publish and subscribe of an instance over   *)
(* its subscriber's connection, module RedisConnection.  Each get of a     *)
(* cache subscribes to the channel of its key and unsubscribes when it     *)
(* ends, all with the same listener function, which the cluster provider   *)
(* wraps anew each time and finds again by the function.  The redis        *)
(* provider sends SUBSCRIBE for the first listener of a channel and        *)
(* UNSUBSCRIBE after the last.                                             *)
(*                                                                         *)
(* Gets of one key overlap when the first outlives the lock of its         *)
(* instance.  The commands of the connection are executed, and answered,   *)
(* in their order.  ioredis keeps those of an outage for later, as its     *)
(* options say, or lets them fail; it subscribes again to what it was      *)
(* subscribed to.                                                          *)
(***************************************************************************)
EXTENDS RedisConnection, Sequences, SequencesExt

CONSTANTS Gets, Channels,
          ChannelOf,  \* the channel of a get's key
          None

ASSUME PubSubAssumption == ChannelOf \in [Gets -> Channels] /\ None \notin Gets

VARIABLES
  get,        \* where the gets are
  wrapped,    \* listeners: the wrapper of the listener function, by its get
  listening,  \* subscriptionListeners: the wrappers on a channel
  sent,       \* commands that the server has not executed
  replies,    \* replies on their way back
  server,     \* channels that the connection is subscribed to at the server
  known,      \* ... and those that ioredis subscribes to again
  lonely      \* history: gets without a listener, since a subscription failed:
              \* their own, or that of a get that took theirs when it ended

Network == <<replies, server, known>>
pubSubVars == <<get, wrapped, listening, sent, Network, lonely>>
vars == <<connectionVars, pubSubVars>>

Up == conn["subscriber"] = "up"

Init ==
  /\ ConnectionInit
  /\ get = [g \in Gets |-> "idle"] /\ wrapped = None
  /\ listening = [ch \in Channels |-> {}]
  /\ sent = <<>> /\ replies = <<>> /\ server = {} /\ known = {} /\ lonely = {}

Command(op, g) == [op |-> op, get |-> g]
Active(ch) == {g \in Gets : ChannelOf[g] = ch /\ get[g] \notin {"idle", "done"}}
Goes(g, to) == get' = [get EXCEPT ![g] = to]

(* Who joins only listeners of lonely gets is lonely too. *)
Joins(g) ==
  LET others == listening[ChannelOf[g]] IN
  /\ listening' = [listening EXCEPT ![ChannelOf[g]] = @ \cup {g}] /\ Goes(g, "waiting")
  /\ lonely' = IF others # {} /\ others \subseteq lonely THEN lonely \cup {g} ELSE lonely
  /\ UNCHANGED sent

Asks(g) == /\ sent' = Append(sent, Command("subscribe", g)) /\ Goes(g, "subscribing")
           /\ UNCHANGED <<listening, lonely>>

(* Mutant of Subscribe: a function that was wrapped is subscribed. *)
Subscribe_ByFunction(g) ==
  /\ connect = "ok" /\ get[g] = "idle"
  /\ wrapped' = g
  /\ IF wrapped = None THEN Asks(g) ELSE Joins(g)
  /\ UNCHANGED <<connectionVars, Network>>

(* subscribe and handleSubscribe *)
Subscribe(g) ==
  /\ connect = "ok" /\ get[g] = "idle"
  /\ wrapped' = g
  /\ IF listening[ChannelOf[g]] = {} THEN Asks(g) ELSE Joins(g)
  /\ UNCHANGED <<connectionVars, Network>>

(* unsubscribe and handleUnsubscribe, of the last wrapper of the function. *)
Unsubscribe(g) ==
  LET ch == ChannelOf[g]
      left == listening[ch] \ {wrapped}
  IN
  /\ get[g] = "waiting"
  /\ listening' = [listening EXCEPT ![ch] = left]
  /\ IF left = {}
     THEN sent' = Append(sent, Command("unsubscribe", g)) /\ Goes(g, "unsubscribing")
     ELSE Goes(g, "done") /\ UNCHANGED sent
  /\ lonely' = IF g \in lonely THEN lonely \cup (Active(ch) \ left) ELSE lonely
  /\ UNCHANGED <<connectionVars, wrapped, Network>>

Execute ==
  /\ Up /\ sent # <<>>
  /\ LET c == Head(sent) IN
     /\ server' = IF c.op = "subscribe" THEN server \cup {ChannelOf[c.get]}
                  ELSE server \ {ChannelOf[c.get]}
     /\ replies' = Append(replies, c)
  /\ sent' = Tail(sent)
  /\ UNCHANGED <<connectionVars, get, wrapped, listening, known, lonely>>

(* The reply: handleSubscribe adds its listener, handleUnsubscribe ends. *)
Reply ==
  /\ Up /\ replies # <<>>
  /\ LET c == Head(replies)
         ch == ChannelOf[c.get]
     IN IF c.op = "subscribe"
        THEN /\ listening' = [listening EXCEPT ![ch] = @ \cup {c.get}]
             /\ known' = known \cup {ch} /\ Goes(c.get, "waiting")
        ELSE /\ known' = known \ {ch} /\ Goes(c.get, "done") /\ UNCHANGED listening
  /\ replies' = Tail(replies)
  /\ UNCHANGED <<connectionVars, wrapped, sent, server, lonely>>

(***************************************************************************)
(* What an event of the subscriber's connection does here.                 *)
(***************************************************************************)
(* The commands under way are sent again after the outage. *)
Resend == /\ sent' = replies \o sent /\ replies' = <<>>
          /\ UNCHANGED <<get, lonely>>

(* They fail, and their callers go on. *)
Flush ==
  LET lost == {c.get : c \in ToSet(sent) \cup ToSet(replies)} IN
  /\ get' = [g \in Gets |-> IF g \notin lost THEN get[g]
                            ELSE IF get[g] = "subscribing" THEN "waiting" ELSE "done"]
  /\ lonely' = lonely \cup {g \in lost : get[g] = "subscribing"}
  /\ sent' = <<>> /\ replies' = <<>>

Outage == /\ Up /\ ~Up'
          /\ server' = {} /\ (Resend \/ Flush)
          /\ UNCHANGED <<wrapped, listening, known>>

SubscribesAgain == /\ ~Up /\ Up' /\ server' = known
                   /\ UNCHANGED <<get, wrapped, listening, sent, replies, known, lonely>>

Next == \/ ConnectionNext /\ (Outage \/ SubscribesAgain \/ (Up = Up' /\ UNCHANGED pubSubVars))
        \/ \E g \in Gets : Subscribe(g) \/ Unsubscribe(g)
        \/ Execute \/ Reply

Spec == Init /\ [][Next]_vars /\ ConnectionFairness

-----------------------------------------------------------------------------
(* Every variable has its type, and every command a get that waits for it. *)
PubSubTypeOK ==
  /\ get \in [Gets -> {"idle", "subscribing", "waiting", "unsubscribing", "done"}]
  /\ wrapped \in Gets \cup {None} /\ listening \in [Channels -> SUBSET Gets]
  /\ \A q \in {sent, replies} :
       q \in Seq([op : {"subscribe", "unsubscribe"}, get : Gets])
  /\ ConnectionTypeOK /\ lonely \subseteq Gets
  /\ server \subseteq Channels /\ known \subseteq Channels
  /\ \A c \in ToSet(sent) \cup ToSet(replies) :
       get[c.get] = IF c.op = "subscribe" THEN "subscribing" ELSE "unsubscribing"

(* A get that waits hears the channel of its key, whatever other gets of   *)
(* the instance, of this key and of others, subscribe to and unsubscribe   *)
(* from meanwhile: only a subscription that failed, its own or that of a   *)
(* get it overlaps, can make it miss the news (handleSubscribe,            *)
(* handleUnsubscribe).                                                     *)
WaiterHears ==
  \A g \in Gets : get[g] = "waiting" /\ Up /\ g \notin lonely
    => ChannelOf[g] \in server /\ listening[ChannelOf[g]] # {}

(* A get that ends unsubscribes from no channel that another one listens   *)
(* to: "Unsubscribe if no more listeners".                                 *)
LastUnsubscribes ==
  [][\A g, h \in Gets : get[g] = "waiting" /\ get'[g] = "unsubscribing" /\ g # h
       => h \notin listening[ChannelOf[g]] \/ get[h] # "waiting"]_vars

(* When no get is active and nothing is under way, no channel has a        *)
(* listener left: "Remove listener from store".                            *)
NoListenerLeft ==
  \A ch \in Channels : (\A g \in Gets : get[g] \in {"idle", "done"}) => listening[ch] = {}
=============================================================================
