------------------------- MODULE RedisPubSub_proofs -------------------------
(***************************************************************************)
(* An outage of the subscriber's connection is announced, and who waits    *)
(* for a channel hears it, for any generations of credentials, any number  *)
(* of faults, and any gets that subscribe and unsubscribe meanwhile.       *)
(***************************************************************************)
EXTENDS RedisPubSub, SequenceTheorems, TLAPS

(* An update asks for credentials that exist. *)
CallInTime == call.gen <= valid

(* The subscriber's outage is remembered until both clients are connected, *)
(* and forgotten then.                                                     *)
Remembered ==
  /\ had \in BOOLEAN /\ missed \in BOOLEAN /\ closed \in BOOLEAN
  /\ missed => had \/ closed
  /\ (\A c \in Clients : connected[c]) => ~had

(* Before connectOrThrow there is no connection.                           *)
NotBegun == connect = "none" => \A c \in Clients : conn[c] = "off"

IInv == ConnectionTypeOK /\ CallInTime /\ NotBegun /\ Remembered

-----------------------------------------------------------------------------
LEMMA InvInit == ConnectionInit => IInv
<1> SUFFICES ASSUME ConnectionInit PROVE IInv OBVIOUS
<1>1. ConnectionTypeOK
  BY ConnectionAssumption
     DEF ConnectionInit, ConnectionTypeOK, Generations, NoCall, NewCall, Clients
<1>2. CallInTime
  BY DEF ConnectionInit, CallInTime, NewCall
<1>3. Remembered /\ NotBegun
  BY DEF ConnectionInit, Remembered, NotBegun
<1>4. QED BY <1>1, <1>2, <1>3 DEF IInv

LEMMA InvImpliesAnnounced == IInv => NoOutageUnannounced
BY DEF IInv, Remembered, NoOutageUnannounced

(* The credentials: what is asked for, answered or given up is a           *)
(* generation the server has had.                                          *)
CredentialsOK ==
  /\ valid \in Generations /\ options \in 0..valid /\ late \subseteq Generations
  /\ call \in [gen : Generations, hangs : BOOLEAN] \cup {NoCall}
  /\ chain \in {"init", "queued", "updating", "auth"}
  /\ call.gen <= valid

ConnectionsOK ==
  /\ conn \in [Clients -> {"off", "trying", "up"}]
  /\ connected \in [Clients -> BOOLEAN] /\ resolved \subseteq Clients
  /\ connect \in {"none", "waiting", "ok", "failed"}
  /\ \A c \in Clients : connected[c] <=> conn[c] = "up"
  /\ NotBegun

UsedOK == \A c \in Clients : used[c] \in 0..valid

LEMMA InvParts == IInv <=> CredentialsOK /\ ConnectionsOK /\ UsedOK /\ Remembered
BY DEF IInv, ConnectionTypeOK, CallInTime, NotBegun, CredentialsOK, ConnectionsOK, NotBegun, UsedOK

LEMMA StartFacts ==
  ASSUME CredentialsOK
  PROVE  /\ Start \in [gen : Generations, hangs : BOOLEAN] /\ Start.gen <= valid
         /\ AfterCall \in {"init", "queued", "updating", "auth"}
BY DEF CredentialsOK, Start, NewCall, NoCall, AfterCall, Generations

(* The steps of the credentials leave the connections alone. *)
LEMMA CredentialSteps ==
  ASSUME IInv,
         \/ ProviderAnswers \/ ProviderFails \/ ProviderHangs \/ WaitTimesOut
         \/ LateAnswer \/ UpdateDue \/ CredentialsChange
  PROVE  IInv'
<1>1. CredentialsOK /\ ConnectionsOK /\ UsedOK /\ Remembered BY InvParts
<1>2. UNCHANGED Connections
  BY DEF ProviderAnswers, ProviderFails, ProviderHangs, WaitTimesOut, LateAnswer,
         UpdateDue, CredentialsChange
<1>3. ConnectionsOK' /\ Remembered'
  BY <1>1, <1>2 DEF Connections, ConnectionsOK, NotBegun, Remembered
<1>4. CredentialsOK' /\ valid <= valid'
  <2>0. valid \in Nat /\ call.gen \in Nat BY <1>1 DEF CredentialsOK, Generations, NoCall
  <2>1. CASE ProviderAnswers
    BY <1>1, <2>0, <2>1, StartFacts DEF ProviderAnswers, CredentialsOK, NoCall, Generations
  <2>2. CASE ProviderFails
    BY <1>1, <2>0, <2>2, StartFacts DEF ProviderFails, CredentialsOK, NoCall, Generations
  <2>3. CASE ProviderHangs
    <3>1. call \in [gen : Generations, hangs : BOOLEAN]
      BY <1>1, <2>3 DEF ProviderHangs, CredentialsOK
    <3>2. call' \in [gen : Generations, hangs : BOOLEAN] /\ call'.gen = call.gen
      BY <3>1, <2>3 DEF ProviderHangs
    <3>3. QED BY <1>1, <2>0, <2>3, <3>2 DEF ProviderHangs, CredentialsOK, Generations
  <2>4. CASE WaitTimesOut
    <3>1. call \in [gen : Generations, hangs : BOOLEAN] /\ AfterCall \in {"init", "queued", "updating", "auth"}
      BY <1>1, <2>4, StartFacts DEF WaitTimesOut, CredentialsOK, NoCall
    <3>2. call' = NoCall /\ call'.gen = 0 BY <2>4 DEF WaitTimesOut, NoCall
    <3>3. late' \subseteq Generations BY <1>1, <2>4, <3>1 DEF WaitTimesOut, CredentialsOK
    <3>4. QED BY <1>1, <2>0, <2>4, <3>1, <3>2, <3>3 DEF WaitTimesOut, CredentialsOK
  <2>5. CASE LateAnswer
    BY <1>1, <2>0, <2>5 DEF LateAnswer, CredentialsOK
  <2>6. CASE UpdateDue
    BY <1>1, <2>0, <2>6, StartFacts DEF UpdateDue, CredentialsOK
  <2>7. CASE CredentialsChange
    BY <1>1, <2>0, <2>7, ConnectionAssumption DEF CredentialsChange, CredentialsOK, Generations
  <2>8. QED BY <2>1, <2>2, <2>3, <2>4, <2>5, <2>6, <2>7
<1>5. UsedOK'
  BY <1>1, <1>2, <1>4 DEF Connections, UsedOK, CredentialsOK, Generations
<1>6. QED BY <1>1, <1>3, <1>4, <1>5, InvParts DEF IInv, ConnectionTypeOK, CallInTime, NotBegun,
  CredentialsOK, ConnectionsOK, UsedOK

(* The steps of a connection keep what is remembered of an outage.         *)
LEMMA OnErrorFacts ==
  ASSUME IInv, NEW c \in Clients, OnError(c)
  PROVE  /\ connected' = [connected EXCEPT ![c] = FALSE] /\ resolved' \subseteq Clients
         /\ had' \in BOOLEAN /\ (had => had') /\ (c = "subscriber" => had')
         /\ ~ \A d \in Clients : connected'[d]
<1>1. ConnectionsOK /\ Remembered BY InvParts
<1>2. connected' = [connected EXCEPT ![c] = FALSE] /\ ~connected'[c]
  BY <1>1 DEF OnError, ConnectionsOK, NotBegun
<1>3. /\ resolved' \subseteq Clients
      /\ had' \in BOOLEAN /\ (had => had') /\ (c = "subscriber" => had')
  BY <1>1 DEF OnError, ConnectionsOK, NotBegun, Remembered
<1>4. QED BY <1>2, <1>3

(* The events of a client that is ready, announced or not.                 *)
LEMMA ReadyStep ==
  ASSUME IInv, NEW c \in Clients, Ready(c)
  PROVE  IInv'
<1>1. CredentialsOK /\ ConnectionsOK /\ UsedOK /\ Remembered BY InvParts
<1>2. CredentialsOK' BY <1>1 DEF Ready, Credentials, CredentialsOK
<1>3. UsedOK' BY <1>1 DEF Ready, Credentials, UsedOK, CredentialsOK
<1>4. connected' = [connected EXCEPT ![c] = TRUE] /\ resolved' = resolved \cup {c}
  BY DEF Ready, SetIsConnected
<1>5. ConnectionsOK' BY <1>1, <1>4 DEF Ready, ConnectionsOK, NotBegun
<1>6. Remembered'
  <2> DEFINE announces == had /\ \A d \in Clients \ {c} : connected[d]
  <2>1. /\ missed' = (missed /\ ~announces) /\ closed' = (closed /\ ~announces)
        /\ had' = (had /\ ~announces)
    BY DEF Ready, SetIsConnected
  <2>2. (\A d \in Clients : connected'[d]) /\ had => announces
    BY <1>1, <1>4 DEF ConnectionsOK, NotBegun
  <2> HIDE DEF announces
  <2>3. QED BY <1>1, <2>1, <2>2 DEF Remembered
<1>7. QED BY <1>2, <1>3, <1>5, <1>6 DEF IInv, ConnectionTypeOK, CallInTime, NotBegun,
  CredentialsOK, ConnectionsOK, UsedOK

LEMMA FailureSteps ==
  ASSUME IInv, NEW c \in Clients, Refused(c) \/ Breaks(c) \/ Closes(c)
  PROVE  IInv'
<1>1. CredentialsOK /\ ConnectionsOK /\ UsedOK /\ Remembered BY InvParts
<1>2. CredentialsOK' /\ UNCHANGED <<valid, used>>
  <2>1. CASE Refused(c)
    BY <1>1, <2>1, StartFacts DEF Refused, CredentialsOK
  <2>2. CASE Breaks(c) \/ Closes(c)
    BY <1>1, <2>2 DEF Breaks, Closes, Credentials, CredentialsOK
  <2>3. QED BY <2>1, <2>2
<1>3. UsedOK' BY <1>1, <1>2 DEF UsedOK
<1>4. CASE Refused(c)
  <2>1. OnError(c) /\ UNCHANGED <<conn, connect, missed, closed>> /\ conn[c] = "trying"
    BY <1>4 DEF Refused
  <2>2. ConnectionsOK' BY <1>1, <2>1, OnErrorFacts DEF ConnectionsOK, NotBegun
  <2>3. Remembered' BY <1>1, <2>1, OnErrorFacts DEF Remembered
  <2>4. QED BY <1>2, <1>3, <2>2, <2>3 DEF IInv, ConnectionTypeOK, CallInTime, NotBegun,
    CredentialsOK, ConnectionsOK, UsedOK
<1>5. CASE Breaks(c)
  <2>1. /\ OnError(c) /\ conn' = [conn EXCEPT ![c] = "trying"] /\ UNCHANGED <<connect, closed>>
        /\ missed' = (missed \/ (c = "subscriber" /\ conn[c] = "up"))
        /\ conn[c] # "off"
    BY <1>5 DEF Breaks
  <2>2. ConnectionsOK'
    <3>1. connect # "none" BY <1>1, <2>1 DEF ConnectionsOK, NotBegun
    <3>2. NotBegun' BY <3>1, <2>1 DEF NotBegun
    <3>3. QED BY <1>1, <2>1, <3>2, OnErrorFacts DEF ConnectionsOK
  <2>3. Remembered' BY <1>1, <2>1, OnErrorFacts DEF Remembered
  <2>4. QED BY <1>2, <1>3, <2>2, <2>3 DEF IInv, ConnectionTypeOK, CallInTime, NotBegun,
    CredentialsOK, ConnectionsOK, UsedOK
<1>6. CASE Closes(c)
  <2>1. /\ conn' = [conn EXCEPT ![c] = "trying"] /\ connected' = [connected EXCEPT ![c] = FALSE]
        /\ missed' = (missed \/ c = "subscriber") /\ closed' = (closed \/ c = "subscriber")
        /\ UNCHANGED <<resolved, had, connect>> /\ conn[c] # "off"
    BY <1>6 DEF Closes
  <2>2. ConnectionsOK'
    <3>1. connect # "none" BY <1>1, <2>1 DEF ConnectionsOK, NotBegun
    <3>2. NotBegun' BY <3>1, <2>1 DEF NotBegun
    <3>3. QED BY <1>1, <2>1, <3>2 DEF ConnectionsOK
  <2>3. ~connected'[c] BY <1>1, <2>1 DEF ConnectionsOK, NotBegun
  <2>4. Remembered' BY <1>1, <2>1, <2>3 DEF Remembered
  <2>5. QED BY <1>2, <1>3, <2>2, <2>4 DEF IInv, ConnectionTypeOK, CallInTime, NotBegun,
    CredentialsOK, ConnectionsOK, UsedOK
<1>7. QED BY <1>4, <1>5, <1>6

(* connectOrThrow: both clients are off before it, and after it throws.    *)
LEMMA ConnectSteps ==
  ASSUME IInv, Connect \/ ConnectReturns \/ ConnectThrows \/ ReAuthClients
  PROVE  IInv'
<1>1. CredentialsOK /\ ConnectionsOK /\ UsedOK /\ Remembered BY InvParts
<1>2. CredentialsOK'
  BY <1>1 DEF Connect, ConnectReturns, ConnectThrows, ReAuthClients, Credentials, CredentialsOK
<1>3. UsedOK'
  BY <1>1 DEF Connect, ConnectReturns, ConnectThrows, ReAuthClients, Credentials, UsedOK,
     CredentialsOK
<1>4. ConnectionsOK' /\ Remembered'
  <2>1. CASE Connect
    BY <1>1, <2>1 DEF Connect, ConnectionsOK, NotBegun, Remembered
  <2>2. CASE ConnectReturns
    BY <1>1, <2>2 DEF ConnectReturns, ConnectionsOK, NotBegun, Remembered
  <2>3. CASE ConnectThrows
    BY <1>1, <2>3 DEF ConnectThrows, ConnectionsOK, NotBegun, Remembered, Clients
  <2>4. CASE ReAuthClients
    BY <1>1, <2>4 DEF ReAuthClients, ConnectionsOK, NotBegun, Remembered
  <2>5. QED BY <2>1, <2>2, <2>3, <2>4
<1>5. QED BY <1>2, <1>3, <1>4 DEF IInv, ConnectionTypeOK, CallInTime, NotBegun,
  CredentialsOK, ConnectionsOK, UsedOK

LEMMA InvNext == IInv /\ [Next]_vars => IInv'
<1> SUFFICES ASSUME IInv, [Next]_vars PROVE IInv' OBVIOUS
<1>1. ASSUME ConnectionNext PROVE IInv'
  BY <1>1, CredentialSteps, ReadyStep, FailureSteps, ConnectSteps, Zenon DEF ConnectionNext
<1>2. ASSUME UNCHANGED connectionVars PROVE IInv'
  BY <1>2 DEF connectionVars, IInv, ConnectionTypeOK, CallInTime, NotBegun, Remembered, NoCall, Generations
<1>3. [Next]_vars => ConnectionNext \/ UNCHANGED connectionVars
  BY DEF Next, vars, Subscribe, Unsubscribe, Execute, Reply
<1>4. QED BY <1>1, <1>2, <1>3

-----------------------------------------------------------------------------
(* The clients' flags agree with the connections, and the credentials of   *)
(* both are ones the server has had: setIsConnected, updateCredentials.    *)
THEOREM ConnectionTyping == Spec => []ConnectionTypeOK
<1>1. Init => IInv BY InvInit DEF Init
<1>2. IInv => ConnectionTypeOK BY DEF IInv
<1>3. QED BY <1>1, <1>2, InvNext, PTL DEF Spec

(* When both clients are connected, an outage of the subscriber has been   *)
(* announced, unless the server closed its connection without an error:    *)
(* setIsConnected and the ERROR listener.                                  *)
THEOREM OutageIsAnnounced == Spec => []NoOutageUnannounced
<1>1. Init => IInv BY InvInit DEF Init
<1>2. QED BY <1>1, InvNext, InvImpliesAnnounced, PTL DEF Spec
-----------------------------------------------------------------------------
(***************************************************************************)
(* Who waits hears its channel.                                            *)
(***************************************************************************)
States == {"idle", "subscribing", "waiting", "unsubscribing", "done"}
Commands == [op : {"subscribe", "unsubscribe"}, get : Gets]

(* What the server has answered and what it has not executed, in order.    *)
Pending == replies \o sent

WaitsFor(c) == IF c.op = "subscribe" THEN "subscribing" ELSE "unsubscribing"

Types ==
  /\ get \in [Gets -> States] /\ listening \in [Channels -> SUBSET Gets]
  /\ wrapped \in Gets \cup {None} /\ lonely \subseteq Gets
  /\ sent \in Seq(Commands) /\ replies \in Seq(Commands)
  /\ server \subseteq Channels /\ known \subseteq Channels

(* A get waits for each command, and for one at a time. *)
OneCommand ==
  /\ \A i \in 1..Len(Pending) : get[Pending[i].get] = WaitsFor(Pending[i])
  /\ \A i, j \in 1..Len(Pending) : Pending[i].get = Pending[j].get => i = j

(* An outage leaves no answer on its way. *)
NoAnswerWhenDown == ~Up => replies = <<>>

(* Who subscribes has its command under way. *)
Awaited ==
  \A g \in Gets : get[g] = "subscribing" =>
    \E i \in 1..Len(Pending) : Pending[i] = Command("subscribe", g)

(* The function was wrapped last for the last subscription of all. *)
LastWrapped ==
  \A i, j \in 1..Len(Pending) :
    /\ Pending[i].op = "subscribe" /\ Pending[i].get = wrapped /\ Pending[j].op = "subscribe"
    => j <= i

(* Who listens has been told so, and listens to its own channel. *)
Members ==
  \A ch \in Channels : \A h \in listening[ch] :
    ChannelOf[h] = ch /\ get[h] \notin {"idle", "subscribing"}

(* Where a get still subscribes, the last wrapper is no one's only         *)
(* listener: it came by a listener that stays.                             *)
NotAlone ==
  \A h \in Gets :
    get[h] = "subscribing" /\ h # wrapped /\ wrapped \in listening[ChannelOf[h]]
      => \E k \in listening[ChannelOf[h]] : k # wrapped

(* The channel of a listener that is not lonely is subscribed to, will be  *)
(* again, and nothing under way ends that.                                 *)
Subscribed ==
  \A ch \in Channels : \A h \in listening[ch] \ lonely :
    /\ ch \in known /\ (Up => ch \in server)
    /\ \A i \in 1..Len(Pending) : Pending[i].op = "unsubscribe" => ChannelOf[Pending[i].get] # ch

(* ... nor will it, where its subscription is still under way. *)
InOrder ==
  \A i, j \in 1..Len(Pending) :
    /\ Pending[i].op = "subscribe" /\ Pending[i].get \notin lonely /\ Pending[j].op = "unsubscribe"
    /\ ChannelOf[Pending[i].get] = ChannelOf[Pending[j].get]
    => j < i

(* The answer to a subscription is true until it is read. *)
Confirmed ==
  \A i \in 1..Len(replies) :
    replies[i].op = "subscribe" /\ replies[i].get \notin lonely => ChannelOf[replies[i].get] \in server

(* Who waits and is not lonely is among the listeners, or was taken from   *)
(* them beside one that stays.                                             *)
Listens ==
  \A g \in Gets : get[g] = "waiting" /\ g \notin lonely
    => \/ g \in listening[ChannelOf[g]]
       \/ \E k \in listening[ChannelOf[g]] : k # wrapped /\ k \notin lonely

Commanded == OneCommand /\ NoAnswerWhenDown /\ Awaited /\ LastWrapped
Heard == Members /\ NotAlone /\ Subscribed /\ InOrder /\ Confirmed /\ Listens

PubInv == Types /\ Commanded /\ Heard

-----------------------------------------------------------------------------
(* The commands under way, as the steps change them. *)
LEMMA PendingIs ==
  ASSUME Types
  PROVE  /\ Pending \in Seq(Commands) /\ Len(Pending) = Len(replies) + Len(sent)
         /\ Len(replies) \in Nat /\ Len(sent) \in Nat /\ Len(Pending) \in Nat
         /\ \A i \in 1..Len(replies) : Pending[i] = replies[i]
         /\ \A i \in 1..Len(sent) : Pending[Len(replies) + i] = sent[i]
         /\ \A i \in 1..Len(Pending) : Pending[i] \in Commands
<1>1. replies \in Seq(Commands) /\ sent \in Seq(Commands) BY DEF Types
<1>2. Len(replies) \in Nat /\ Len(sent) \in Nat BY <1>1, LenProperties
<1>3. /\ Pending \in Seq(Commands) /\ Len(Pending) = Len(replies) + Len(sent)
      /\ \A i \in 1..Len(replies) + Len(sent) :
           Pending[i] = IF i <= Len(replies) THEN replies[i] ELSE sent[i - Len(replies)]
  BY <1>1, ConcatProperties DEF Pending
<1>4. \A i \in 1..Len(Pending) : Pending[i] \in Commands
  BY <1>3, ElementOfSeq
<1>5. QED BY <1>2, <1>3, <1>4

LEMMA Sends ==
  ASSUME Types, NEW c \in Commands, sent' = Append(sent, c), UNCHANGED replies
  PROVE  /\ sent' \in Seq(Commands) /\ Len(Pending') = Len(Pending) + 1
         /\ \A i \in 1..Len(Pending) : Pending'[i] = Pending[i]
         /\ Pending'[Len(Pending')] = c
<1>1. replies \in Seq(Commands) /\ sent \in Seq(Commands) /\ <<c>> \in Seq(Commands)
  BY DEF Types
<1>2. sent' = sent \o <<c>> BY <1>1
<1>3. Pending' = Pending \o <<c>>
  BY <1>1, <1>2, ConcatAssociative DEF Pending
<1>4. Pending \in Seq(Commands) BY <1>1, ConcatProperties DEF Pending
<1>5. Len(Pending) \in Nat BY <1>4, LenProperties
<1>6. Pending' = Append(Pending, c) BY <1>3, <1>4
<1>7. sent' \in Seq(Commands) BY <1>1
<1>8. QED BY <1>4, <1>5, <1>6, <1>7

LEMMA Executes ==
  ASSUME Types, sent # <<>>, replies' = Append(replies, Head(sent)), sent' = Tail(sent)
  PROVE  /\ Pending' = Pending /\ Head(sent) = Pending[Len(replies) + 1]
         /\ Len(replies) + 1 \in 1..Len(Pending)
         /\ sent' \in Seq(Commands) /\ replies' \in Seq(Commands) /\ Head(sent) \in Commands
<1>1. replies \in Seq(Commands) /\ sent \in Seq(Commands) BY DEF Types
<1>2. /\ Head(sent) \in Commands /\ Tail(sent) \in Seq(Commands)
      /\ <<Head(sent)>> \in Seq(Commands)
  <2>1. Head(sent) \in Commands /\ Tail(sent) \in Seq(Commands)
    BY <1>1, HeadTailProperties
  <2> HIDE DEF Commands
  <2>2. \A c \in Commands : <<c>> \in Seq(Commands) OBVIOUS
  <2>3. QED BY <2>1, <2>2
<1>3. replies' = replies \o <<Head(sent)>> /\ replies' \in Seq(Commands)
  BY <1>1, <1>2, AppendIsConcat, AppendProperties
<1>4. sent = <<Head(sent)>> \o Tail(sent) BY <1>1, <1>2
<1>5. Pending' = Pending
  BY <1>1, <1>2, <1>3, <1>4, ConcatAssociative DEF Pending
<1>6. Len(sent) \in Nat \ {0} BY <1>1, EmptySeq
<1>7. QED BY <1>1, <1>2, <1>3, <1>5, <1>6, PendingIs

LEMMA Replies ==
  ASSUME Types, replies # <<>>, replies' = Tail(replies), UNCHANGED sent
  PROVE  /\ Len(Pending') = Len(Pending) - 1 /\ Len(Pending) \in Nat \ {0}
         /\ \A i \in 1..Len(Pending') : Pending'[i] = Pending[i + 1]
         /\ Head(replies) = Pending[1] /\ Head(replies) = replies[1]
         /\ Len(replies') = Len(replies) - 1 /\ Len(replies) \in Nat \ {0}
         /\ \A i \in 1..Len(replies') : replies'[i] = replies[i + 1]
         /\ Head(replies) \in Commands /\ replies' \in Seq(Commands)
<1>1. replies \in Seq(Commands) /\ sent \in Seq(Commands) BY DEF Types
<1>2. /\ replies' \in Seq(Commands) /\ Head(replies) \in Commands
      /\ Len(replies') = Len(replies) - 1
      /\ \A i \in 1..Len(replies') : replies'[i] = replies[i + 1]
  BY <1>1, HeadTailProperties
<1>3. Len(replies) \in Nat \ {0} BY <1>1, EmptySeq
<1>4. Head(replies) = replies[1] BY <1>1
<1>5. /\ Len(Pending') = Len(replies') + Len(sent)
      /\ \A i \in 1..Len(replies') + Len(sent) :
           Pending'[i] = IF i <= Len(replies') THEN replies'[i] ELSE sent[i - Len(replies')]
  BY <1>1, <1>2, ConcatProperties DEF Pending
<1>6. /\ Len(Pending) = Len(replies) + Len(sent)
      /\ \A i \in 1..Len(replies) + Len(sent) :
           Pending[i] = IF i <= Len(replies) THEN replies[i] ELSE sent[i - Len(replies)]
  BY <1>1, ConcatProperties DEF Pending
<1>7. Len(sent) \in Nat BY <1>1, LenProperties
<1>8. ASSUME NEW i \in 1..Len(Pending') PROVE Pending'[i] = Pending[i + 1]
  <2>1. i + 1 \in 1..Len(replies) + Len(sent) /\ i \in 1..Len(replies') + Len(sent)
    BY <1>2, <1>3, <1>5, <1>7
  <2>2. CASE i <= Len(replies') BY <1>2, <1>3, <1>5, <1>6, <1>7, <2>1, <2>2
  <2>3. CASE i > Len(replies')
    <3>1. i - Len(replies') = i + 1 - Len(replies) BY <1>2, <1>3
    <3>2. QED BY <1>2, <1>3, <1>5, <1>6, <1>7, <2>1, <2>3, <3>1
  <2>4. QED BY <1>2, <1>3, <2>2, <2>3
<1>9. Pending[1] = replies[1] BY <1>3, <1>6, <1>7
<1>10. QED BY <1>2, <1>3, <1>4, <1>5, <1>6, <1>7, <1>8, <1>9

-----------------------------------------------------------------------------
LEMMA PubInit == Init => PubInv
<1> SUFFICES ASSUME Init PROVE PubInv OBVIOUS
<1>1. Types BY PubSubAssumption DEF Init, Types, States
<1>2. Len(replies) = 0 /\ Len(Pending) = 0 BY <1>1, PendingIs DEF Init
<1>3. Commanded
  BY <1>1, <1>2 DEF Init, Commanded, OneCommand, NoAnswerWhenDown, Awaited, LastWrapped
<1>4. Heard
  BY <1>1, <1>2 DEF Init, Heard, Members, NotAlone, Subscribed, InOrder, Confirmed, Listens
<1>5. QED BY <1>1, <1>3, <1>4 DEF PubInv

(* A get that does not wait for an answer has no command under way. *)
LEMMA NoneFor ==
  ASSUME Types, OneCommand, NEW g \in Gets, get[g] \notin {"subscribing", "unsubscribing"}
  PROVE  \A i \in 1..Len(Pending) : Pending[i].get \in Gets /\ Pending[i].get # g
BY PendingIs DEF OneCommand, WaitsFor, Commands

(* A get sends a command, and waits for the answer. *)
LEMMA SendStep ==
  ASSUME Types, Commanded, NEW g \in Gets, NEW op \in {"subscribe", "unsubscribe"},
         get[g] \notin {"subscribing", "unsubscribing"},
         sent' = Append(sent, Command(op, g)), UNCHANGED <<conn, replies>>,
         get' = [get EXCEPT ![g] = WaitsFor(Command(op, g))],
         wrapped' = IF op = "subscribe" THEN g ELSE wrapped
  PROVE  /\ Commanded' /\ sent' \in Seq(Commands)
         /\ Len(Pending') = Len(Pending) + 1 /\ Len(Pending) \in Nat
         /\ \A i \in 1..Len(Pending) : Pending'[i] = Pending[i]
         /\ Pending'[Len(Pending')] = Command(op, g)
<1> DEFINE c == Command(op, g)
<1>0. c \in Commands /\ c.op = op /\ c.get = g BY DEF Command, Commands
<1>1. /\ sent' \in Seq(Commands) /\ Len(Pending') = Len(Pending) + 1 /\ Len(Pending) \in Nat
      /\ \A i \in 1..Len(Pending) : Pending'[i] = Pending[i]
      /\ Pending'[Len(Pending')] = c
  BY <1>0, Sends, PendingIs
<1>2. \A i \in 1..Len(Pending) : Pending[i].get \in Gets /\ Pending[i].get # g
  BY NoneFor DEF Commanded
<1>3. \A i \in 1..Len(Pending') : i \in 1..Len(Pending) \/ i = Len(Pending') BY <1>1
<1>4. OneCommand /\ NoAnswerWhenDown /\ Awaited /\ LastWrapped BY DEF Commanded
<1> HIDE DEF c
<1>5. /\ get'[g] = WaitsFor(c) /\ \A h \in Gets \ {g} : get'[h] = get[h]
  BY DEF Types, c
<1>6. OneCommand'
  <2>1. ASSUME NEW i \in 1..Len(Pending') PROVE get'[Pending'[i].get] = WaitsFor(Pending'[i])
    BY <1>0, <1>1, <1>2, <1>3, <1>4, <1>5 DEF OneCommand, WaitsFor
  <2>2. ASSUME NEW i \in 1..Len(Pending'), NEW j \in 1..Len(Pending'),
               Pending'[i].get = Pending'[j].get
        PROVE  i = j
    BY <1>0, <1>1, <1>2, <1>3, <1>4, <2>2 DEF OneCommand
  <2>3. QED BY <2>1, <2>2 DEF OneCommand, WaitsFor
<1>7. NoAnswerWhenDown' BY <1>4 DEF NoAnswerWhenDown, Up
<1>8. Awaited'
  <2>1. ASSUME NEW h \in Gets, get'[h] = "subscribing"
        PROVE  \E i \in 1..Len(Pending') : Pending'[i] = Command("subscribe", h)
    <3>1. CASE h = g
      <4>1. c = Command("subscribe", h) BY <1>0, <1>5, <2>1, <3>1 DEF WaitsFor, c
      <4>2. QED BY <1>1, <4>1
    <3>2. CASE h # g
      <4>1. PICK i \in 1..Len(Pending) : Pending[i] = Command("subscribe", h)
        BY <1>4, <1>5, <2>1, <3>2 DEF Awaited
      <4>2. i \in 1..Len(Pending') BY <1>1, <4>1
      <4>3. QED BY <1>1, <4>1, <4>2
    <3>3. QED BY <3>1, <3>2
  <2>2. QED BY <2>1 DEF Awaited, Command
<1>9. LastWrapped'
  <2>1. ASSUME NEW i \in 1..Len(Pending'), NEW j \in 1..Len(Pending'),
               Pending'[i].op = "subscribe", Pending'[i].get = wrapped', Pending'[j].op = "subscribe"
        PROVE  j <= i
    <3>1. CASE i = Len(Pending') BY <1>1, <3>1
    <3>2. CASE i \in 1..Len(Pending)
      <4>1. Pending'[i] = Pending[i] /\ Pending[i].get # g BY <1>1, <1>2, <3>2
      <4>2. op # "subscribe" /\ wrapped' = wrapped BY <2>1, <4>1
      <4>3. j \in 1..Len(Pending) BY <1>0, <1>1, <1>3, <2>1, <4>2
      <4>4. QED BY <1>1, <1>4, <2>1, <3>2, <4>1, <4>2, <4>3 DEF LastWrapped
    <3>3. QED BY <1>3, <3>1, <3>2
  <2>2. QED BY <2>1 DEF LastWrapped
<1>10. QED BY <1>1, <1>6, <1>7, <1>8, <1>9 DEF Commanded, c

(* A get goes on without one. *)
LEMMA QuietStep ==
  ASSUME Types, Commanded, NEW g \in Gets, NEW to \in {"waiting", "done"},
         get[g] \notin {"subscribing", "unsubscribing"},
         UNCHANGED <<conn, replies, sent>>, get' = [get EXCEPT ![g] = to], wrapped' \in {wrapped, g}
  PROVE  Commanded' /\ Pending' = Pending
<1>1. Pending' = Pending BY DEF Pending
<1>2. \A i \in 1..Len(Pending) : Pending[i].get \in Gets /\ Pending[i].get # g
  BY NoneFor DEF Commanded
<1>3. OneCommand /\ NoAnswerWhenDown /\ Awaited /\ LastWrapped BY DEF Commanded
<1>4. OneCommand' BY <1>1, <1>2, <1>3 DEF OneCommand, WaitsFor, Types
<1>5. NoAnswerWhenDown' BY <1>3 DEF NoAnswerWhenDown, Up
<1>6. Awaited' BY <1>1, <1>3 DEF Awaited, Types, Command
<1>7. LastWrapped' BY <1>1, <1>2, <1>3 DEF LastWrapped
<1>8. QED BY <1>1, <1>4, <1>5, <1>6, <1>7 DEF Commanded

(* The steps of a get, with or without a command. *)
LEMMA PubSubscribe ==
  ASSUME PubInv, NEW g \in Gets, Subscribe(g)
  PROVE  PubInv'
<1>1. /\ Types /\ Commanded /\ Members /\ NotAlone /\ Subscribed /\ InOrder /\ Confirmed /\ Listens
  BY DEF PubInv, Heard
<1> DEFINE ch == ChannelOf[g]
<1>2. /\ get[g] = "idle" /\ ch \in Channels /\ wrapped' = g
      /\ UNCHANGED <<conn, replies, server, known>>
  BY PubSubAssumption DEF Subscribe, Network, connectionVars
<1>3. \A x \in Channels : g \notin listening[x] BY <1>1, <1>2 DEF Members
<1>4. \A i \in 1..Len(Pending) : Pending[i].get \in Gets /\ Pending[i].get # g
  BY <1>1, <1>2, NoneFor DEF Commanded
<1>5. CASE listening[ch] = {}
  <2>1. /\ sent' = Append(sent, Command("subscribe", g)) /\ UNCHANGED <<listening, lonely>>
        /\ get' = [get EXCEPT ![g] = "subscribing"]
    BY <1>5 DEF Subscribe, Asks, Goes
  <2>2. WaitsFor(Command("subscribe", g)) = "subscribing" BY DEF WaitsFor, Command
  <2>3. /\ Commanded' /\ sent' \in Seq(Commands)
        /\ Len(Pending') = Len(Pending) + 1 /\ Len(Pending) \in Nat
        /\ \A i \in 1..Len(Pending) : Pending'[i] = Pending[i]
        /\ Pending'[Len(Pending')] = Command("subscribe", g)
    BY <1>1, <1>2, <2>1, <2>2, SendStep
  <2>4. Types' BY <1>1, <1>2, <2>1, <2>3 DEF Types, States
  <2>5. Command("subscribe", g).op = "subscribe" /\ Command("subscribe", g).get = g BY DEF Command
  <2>6. \A i \in 1..Len(Pending') : i \in 1..Len(Pending) \/ i = Len(Pending') BY <2>3
  <2>7. Members' /\ Listens'
    <3>1. Members' BY <1>1, <1>2, <1>3, <2>1 DEF Members, Types
    <3>2. \A x \in Channels : \A k \in listening[x] : k # g BY <1>3
    <3>3. ASSUME NEW h \in Gets, get'[h] = "waiting" PROVE h # g /\ get[h] = "waiting"
      BY <1>1, <2>1, <3>3 DEF Types
    <3>4. Listens' BY <1>1, <1>2, <2>1, <3>2, <3>3, PubSubAssumption DEF Listens
    <3>5. QED BY <3>1, <3>4
  <2>8. NotAlone' BY <1>2, <1>3, <2>1, PubSubAssumption DEF NotAlone
  <2>9. Subscribed' BY <1>1, <1>2, <2>1, <2>3, <2>5, <2>6 DEF Subscribed, Up
  <2>10. InOrder' BY <1>1, <2>1, <2>3, <2>5, <2>6 DEF InOrder
  <2>11. Confirmed' BY <1>1, <1>2, <2>1 DEF Confirmed
  <2>12. QED BY <2>3, <2>4, <2>7, <2>8, <2>9, <2>10, <2>11 DEF PubInv, Heard
<1>6. CASE listening[ch] # {}
  <2>1. /\ listening' = [listening EXCEPT ![ch] = @ \cup {g}] /\ UNCHANGED sent
        /\ get' = [get EXCEPT ![g] = "waiting"]
        /\ lonely' = IF listening[ch] \subseteq lonely THEN lonely \cup {g} ELSE lonely
    BY <1>6 DEF Subscribe, Joins, Goes
  <2>2. Commanded' /\ Pending' = Pending BY <1>1, <1>2, <2>1, QuietStep
  <2>3. Types' BY <1>1, <1>2, <2>1 DEF Types, States
  <2>4. /\ listening'[ch] = listening[ch] \cup {g}
        /\ \A x \in Channels : x # ch => listening'[x] = listening[x]
        /\ lonely \subseteq lonely' /\ lonely' \subseteq lonely \cup {g}
    BY <1>1, <1>2, <2>1 DEF Types
  <2>5. Members' BY <1>1, <1>2, <2>1, <2>4 DEF Members, Types
  <2>6. NotAlone' BY <1>2, <1>3, <1>6, <2>4, PubSubAssumption DEF NotAlone
  <2>7. Subscribed'
    <3>1. ASSUME NEW x \in Channels, NEW h \in listening'[x] \ lonely'
          PROVE  \E k \in listening[x] : k \notin lonely
      BY <1>2, <2>1, <2>4, <3>1
    <3>2. QED BY <1>1, <1>2, <2>2, <3>1 DEF Subscribed, Up
  <2>8. InOrder' BY <1>1, <2>2, <2>4 DEF InOrder
  <2>9. Confirmed' BY <1>1, <1>2, <2>4 DEF Confirmed
  <2>10. Listens'
    <3>1. ASSUME NEW h \in Gets, get'[h] = "waiting", h \notin lonely'
          PROVE  \/ h \in listening'[ChannelOf[h]]
                 \/ \E k \in listening'[ChannelOf[h]] : k # wrapped' /\ k \notin lonely'
      <4>1. CASE h = g BY <2>4, <4>1
      <4>2. CASE h # g
        <5>1. get[h] = "waiting" /\ h \notin lonely /\ ChannelOf[h] \in Channels
          BY <1>1, <2>1, <2>4, <3>1, <4>2, PubSubAssumption DEF Types
        <5>2. \/ h \in listening[ChannelOf[h]]
              \/ \E k \in listening[ChannelOf[h]] : k \notin lonely
          BY <1>1, <5>1 DEF Listens
        <5>3. QED BY <1>2, <1>3, <2>4, <5>1, <5>2
      <4>3. QED BY <4>1, <4>2
    <3>2. QED BY <3>1 DEF Listens
  <2>11. QED BY <2>2, <2>3, <2>5, <2>6, <2>7, <2>8, <2>9, <2>10 DEF PubInv, Heard
<1>7. QED BY <1>5, <1>6

(* Whose end leaves no listener, and whose subscription did not fail, had  *)
(* the last one: no other get of the channel counts on it.                 *)
LEMMA LastOne ==
  ASSUME PubInv, NEW g \in Gets, get[g] = "waiting", g \notin lonely,
         listening[ChannelOf[g]] \ {wrapped} = {},
         NEW h \in Gets \ {g}, ChannelOf[h] = ChannelOf[g], h \notin lonely
  PROVE  get[h] \notin {"waiting", "subscribing"}
<1>1. Listens /\ NotAlone BY DEF PubInv, Heard
<1>2. g \in listening[ChannelOf[g]] /\ g = wrapped BY <1>1 DEF Listens
<1>3. get[h] # "waiting" BY <1>1, <1>2 DEF Listens
<1>4. get[h] # "subscribing" BY <1>1, <1>2 DEF NotAlone
<1>5. QED BY <1>3, <1>4

LEMMA PubUnsubscribe ==
  ASSUME PubInv, NEW g \in Gets, Unsubscribe(g)
  PROVE  PubInv'
<1>1. /\ Types /\ Commanded /\ Members /\ NotAlone /\ Subscribed /\ InOrder /\ Confirmed /\ Listens
  BY DEF PubInv, Heard
<1> DEFINE ch == ChannelOf[g]
           left == listening[ch] \ {wrapped}
           to == IF left = {} THEN "unsubscribing" ELSE "done"
<1>2. /\ get[g] = "waiting" /\ ch \in Channels
      /\ listening' = [listening EXCEPT ![ch] = left] /\ get' = [get EXCEPT ![g] = to]
      /\ lonely' = IF g \in lonely THEN lonely \cup (Active(ch) \ left) ELSE lonely
      /\ UNCHANGED <<conn, wrapped, replies, server, known>>
  BY PubSubAssumption DEF Unsubscribe, Goes, Network, connectionVars
<1>3. /\ listening'[ch] = left /\ \A x \in Channels : x # ch => listening'[x] = listening[x]
      /\ lonely \subseteq lonely'
      /\ \A h \in lonely' : h \in lonely \/ (h \notin left /\ ChannelOf[h] = ch)
      /\ get'[g] = to /\ \A h \in Gets \ {g} : get'[h] = get[h]
  BY <1>1, <1>2 DEF Types, Active
<1>4. \A i \in 1..Len(Pending) : Pending[i].get \in Gets /\ Pending[i].get # g
  BY <1>1, <1>2, NoneFor DEF Commanded
<1>5. /\ listening' \in [Channels -> SUBSET Gets] /\ lonely' \subseteq Gets /\ get' \in [Gets -> States]
  <2>1. left \in SUBSET Gets /\ Active(ch) \subseteq Gets /\ to \in States
    BY <1>1, <1>2 DEF Types, Active, States
  <2> HIDE DEF left, to
  <2>2. QED BY <1>1, <1>2, <2>1 DEF Types
<1>6. \A x \in Channels : \A k \in listening[x] : k \in listening'[x] => (k \in lonely' <=> k \in lonely)
  BY <1>1, <1>3 DEF Members
<1>7. \A x \in Channels : listening'[x] \subseteq listening[x] BY <1>3
<1>8. Members' BY <1>1, <1>2, <1>3, <1>7, PubSubAssumption DEF Members, Types
<1>9. NotAlone' BY <1>1, <1>2, <1>3, PubSubAssumption DEF NotAlone
<1>10. Confirmed' BY <1>1, <1>2, <1>3 DEF Confirmed
<1>11. Listens'
  <2>1. ASSUME NEW h \in Gets, get'[h] = "waiting", h \notin lonely'
        PROVE  \/ h \in listening'[ChannelOf[h]]
               \/ \E k \in listening'[ChannelOf[h]] : k # wrapped' /\ k \notin lonely'
    <3>1. h # g /\ get[h] = "waiting" /\ h \notin lonely /\ ChannelOf[h] \in Channels
      BY <1>1, <1>2, <1>3, <2>1, PubSubAssumption DEF Types
    <3>2. CASE ChannelOf[h] # ch BY <1>1, <1>2, <1>3, <1>6, <3>1, <3>2 DEF Listens
    <3>3. CASE ChannelOf[h] = ch /\ h \in left BY <1>3, <3>3
    <3>4. CASE ChannelOf[h] = ch /\ h \notin left
      <4>1. g \notin lonely
        <5>1. h \in Active(ch) BY <3>1, <3>4 DEF Active
        <5> HIDE DEF left
        <5>2. QED BY <1>2, <2>1, <3>4, <5>1
      <4>2. h \in listening[ch] => h = wrapped BY <3>4
      <4>3. \E k \in listening[ch] : k # wrapped /\ k \notin lonely
        BY <1>1, <1>2, <3>1, <3>4, <4>1, <4>2 DEF Listens
      <4>4. QED BY <1>2, <1>3, <3>4, <4>1, <4>3
    <3>5. QED BY <3>2, <3>3, <3>4
  <2>2. QED BY <2>1 DEF Listens
<1>12. CASE left = {}
  <2>1. sent' = Append(sent, Command("unsubscribe", g)) /\ to = "unsubscribing"
    BY <1>12 DEF Unsubscribe, Goes
  <2>2. WaitsFor(Command("unsubscribe", g)) = to BY <2>1 DEF WaitsFor, Command
  <2>3. /\ Commanded' /\ sent' \in Seq(Commands)
        /\ Len(Pending') = Len(Pending) + 1 /\ Len(Pending) \in Nat
        /\ \A i \in 1..Len(Pending) : Pending'[i] = Pending[i]
        /\ Pending'[Len(Pending')] = Command("unsubscribe", g)
    <3> HIDE DEF left, to
    <3>1. QED BY <1>1, <1>2, <2>1, <2>2, SendStep
  <2>4. Types' BY <1>1, <1>2, <1>5, <2>3 DEF Types
  <2>5. Command("unsubscribe", g).op = "unsubscribe" /\ Command("unsubscribe", g).get = g BY DEF Command
  <2>6. \A i \in 1..Len(Pending') : i \in 1..Len(Pending) \/ i = Len(Pending') BY <2>3
  <2>7. Subscribed'
    <3>1. ASSUME NEW x \in Channels, NEW h \in listening'[x] \ lonely'
          PROVE  x # ch /\ h \in listening[x] \ lonely
      BY <1>3, <1>12, <3>1
    <3>2. QED BY <1>1, <1>2, <2>3, <2>5, <2>6, <3>1 DEF Subscribed, Up
  <2>8. InOrder'
    <3>1. ASSUME NEW i \in 1..Len(Pending'), NEW j \in 1..Len(Pending'),
                 Pending'[i].op = "subscribe", Pending'[i].get \notin lonely',
                 Pending'[j].op = "unsubscribe",
                 ChannelOf[Pending'[i].get] = ChannelOf[Pending'[j].get]
          PROVE  j < i
      <4>1. i \in 1..Len(Pending) /\ Pending'[i] = Pending[i] BY <2>3, <2>5, <2>6, <3>1
      <4>2. CASE j \in 1..Len(Pending)
        BY <1>1, <1>3, <2>3, <3>1, <4>1, <4>2 DEF InOrder
      <4>3. CASE j = Len(Pending')
        <5> DEFINE h == Pending[i].get
        <5>1. h \in Gets \ {g} /\ ChannelOf[h] = ch /\ h \notin lonely /\ h \notin lonely'
          BY <1>3, <1>4, <2>3, <2>5, <3>1, <4>1, <4>3
        <5>2. get[h] = "subscribing"
          BY <1>1, <3>1, <4>1 DEF Commanded, OneCommand, WaitsFor
        <5>3. g \notin lonely BY <1>2, <1>12, <5>1, <5>2 DEF Active
        <5>4. QED BY <1>2, <1>12, <5>1, <5>2, <5>3, LastOne
      <4>4. QED BY <2>6, <4>2, <4>3
    <3>2. QED BY <3>1 DEF InOrder
  <2>9. QED BY <1>8, <1>9, <1>10, <1>11, <2>3, <2>4, <2>7, <2>8 DEF PubInv, Heard
<1>13. CASE left # {}
  <2>1. UNCHANGED sent /\ to = "done" BY <1>13 DEF Unsubscribe, Goes
  <2>2. Commanded' /\ Pending' = Pending
    <3> HIDE DEF left
    <3>1. QED BY <1>1, <1>2, <2>1, QuietStep
  <2>3. Types' BY <1>1, <1>2, <1>5, <2>1 DEF Types
  <2>4. Subscribed' BY <1>1, <1>2, <1>3, <1>7, <2>2 DEF Subscribed, Up
  <2>5. InOrder' BY <1>1, <1>3, <2>2 DEF InOrder
  <2>6. QED BY <1>8, <1>9, <1>10, <1>11, <2>2, <2>3, <2>4, <2>5 DEF PubInv, Heard
<1>14. QED BY <1>12, <1>13

LEMMA PubExecute == PubInv /\ Execute => PubInv'
<1> SUFFICES ASSUME PubInv, Execute PROVE PubInv' OBVIOUS
<1>1. /\ Types /\ Commanded /\ Members /\ NotAlone /\ Subscribed /\ InOrder /\ Confirmed /\ Listens
  BY DEF PubInv, Heard
<1> DEFINE c == Head(sent)
           ch == ChannelOf[c.get]
<1>2. /\ Up /\ sent # <<>> /\ replies' = Append(replies, c) /\ sent' = Tail(sent)
      /\ server' = IF c.op = "subscribe" THEN server \cup {ch} ELSE server \ {ch}
      /\ UNCHANGED <<conn, get, wrapped, listening, known, lonely>>
  BY DEF Execute, connectionVars
<1>3. /\ Pending' = Pending /\ c = Pending[Len(replies) + 1]
      /\ Len(replies) + 1 \in 1..Len(Pending)
      /\ sent' \in Seq(Commands) /\ replies' \in Seq(Commands) /\ c \in Commands
  BY <1>1, <1>2, Executes
<1>4. c.get \in Gets /\ ch \in Channels /\ c.op \in {"subscribe", "unsubscribe"}
  BY <1>3, PubSubAssumption DEF Commands
<1>5. Types' BY <1>1, <1>2, <1>3, <1>4 DEF Types
<1>6. Commanded'
  BY <1>1, <1>2, <1>3 DEF Commanded, OneCommand, WaitsFor, NoAnswerWhenDown, Awaited, Command, LastWrapped, Up
<1>7. Members' /\ NotAlone' /\ InOrder' /\ Listens'
  BY <1>1, <1>2, <1>3 DEF Members, NotAlone, InOrder, Listens
<1>8. Subscribed'
  BY <1>1, <1>2, <1>3, <1>4 DEF Subscribed, Up
<1>9. Confirmed'
  <2>1. /\ Len(replies') = Len(replies) + 1 /\ Len(replies) \in Nat
        /\ \A i \in 1..Len(replies) : replies'[i] = replies[i]
        /\ replies'[Len(replies) + 1] = c
    BY <1>1, <1>2, <1>3 DEF Types
  <2>2. ASSUME NEW i \in 1..Len(replies), replies[i].op = "subscribe", replies[i].get \notin lonely
        PROVE  ChannelOf[replies[i].get] \in server'
    <3>1. Pending[i] = replies[i] /\ i \in 1..Len(Pending) /\ ~(Len(replies) + 1 < i)
      BY <1>1, <2>1, PendingIs
    <3>2. c.op = "unsubscribe" => ChannelOf[replies[i].get] # ch
      BY <1>1, <1>3, <2>2, <3>1 DEF InOrder
    <3>3. QED BY <1>1, <1>2, <1>4, <2>2, <3>2 DEF Confirmed
  <2>3. c.op = "subscribe" => ch \in server' BY <1>2
  <2>4. QED BY <1>2, <2>1, <2>2, <2>3 DEF Confirmed
<1>10. QED BY <1>5, <1>6, <1>7, <1>8, <1>9 DEF PubInv, Heard

LEMMA PubReply == PubInv /\ Reply => PubInv'
<1> SUFFICES ASSUME PubInv, Reply PROVE PubInv' OBVIOUS
<1>1. /\ Types /\ Commanded /\ Members /\ NotAlone /\ Subscribed /\ InOrder /\ Confirmed /\ Listens
  BY DEF PubInv, Heard
<1> DEFINE c == Head(replies)
           g == c.get
           ch == ChannelOf[g]
<1>2. /\ Up /\ replies # <<>> /\ replies' = Tail(replies)
      /\ UNCHANGED <<conn, wrapped, sent, server, lonely>>
  BY DEF Reply, connectionVars
<1>3. /\ Len(Pending') = Len(Pending) - 1 /\ Len(Pending) \in Nat \ {0}
      /\ \A i \in 1..Len(Pending') : Pending'[i] = Pending[i + 1]
      /\ c = Pending[1] /\ c = replies[1]
      /\ Len(replies') = Len(replies) - 1 /\ Len(replies) \in Nat \ {0}
      /\ \A i \in 1..Len(replies') : replies'[i] = replies[i + 1]
      /\ c \in Commands /\ replies' \in Seq(Commands)
  BY <1>1, <1>2, Replies
<1>4. g \in Gets /\ ch \in Channels /\ c.op \in {"subscribe", "unsubscribe"}
  BY <1>3, PubSubAssumption DEF Commands
<1>5. /\ \A i \in 1..Len(Pending') : i + 1 \in 1..Len(Pending) /\ i + 1 # 1
      /\ \A i \in 1..Len(replies') : i + 1 \in 1..Len(replies)
      /\ 1 \in 1..Len(Pending) /\ 1 \in 1..Len(replies)
  BY <1>3
<1>6. OneCommand /\ Awaited /\ LastWrapped BY <1>1 DEF Commanded
<1>7. /\ get[g] = WaitsFor(c)
      /\ \A i \in 1..Len(Pending') : Pending'[i].get \in Gets /\ Pending'[i].get # g
  <2>1. get[g] = WaitsFor(c) BY <1>3, <1>5, <1>6 DEF OneCommand
  <2>2. ASSUME NEW i \in 1..Len(Pending') PROVE Pending'[i].get \in Gets /\ Pending'[i].get # g
    <3>1. Pending[i + 1] \in Commands BY <1>1, <1>5, PendingIs
    <3>2. QED BY <1>3, <1>5, <1>6, <3>1 DEF OneCommand, Commands
  <2>3. QED BY <2>1, <2>2
<1>8. Confirmed' /\ NoAnswerWhenDown'
  BY <1>1, <1>2, <1>3, <1>5 DEF Confirmed, NoAnswerWhenDown, Up
<1>9. InOrder'
  <2>1. ASSUME NEW i \in 1..Len(Pending'), NEW j \in 1..Len(Pending'),
               Pending'[i].op = "subscribe", Pending'[i].get \notin lonely, Pending'[j].op = "unsubscribe",
               ChannelOf[Pending'[i].get] = ChannelOf[Pending'[j].get]
        PROVE  j < i
    <3>1. j + 1 < i + 1 BY <1>1, <1>3, <1>5, <2>1 DEF InOrder
    <3>2. QED BY <3>1
  <2>2. QED BY <1>2, <2>1 DEF InOrder
<1>10. ASSUME NEW to \in {"waiting", "done"}, get' = [get EXCEPT ![g] = to]
       PROVE  Commanded'
  <2>0. get'[g] = to /\ \A h \in Gets \ {g} : get'[h] = get[h]
    BY <1>1, <1>4, <1>10 DEF Types
  <2>1. ASSUME NEW i \in 1..Len(Pending') PROVE get'[Pending'[i].get] = WaitsFor(Pending'[i])
    BY <1>3, <1>5, <1>6, <1>7, <2>0 DEF OneCommand, WaitsFor
  <2>2. ASSUME NEW i \in 1..Len(Pending'), NEW j \in 1..Len(Pending'),
               Pending'[i].get = Pending'[j].get
        PROVE  i = j
    <3>1. i + 1 = j + 1 BY <1>3, <1>5, <1>6, <2>2 DEF OneCommand
    <3>2. QED BY <3>1
  <2>3. ASSUME NEW h \in Gets, get'[h] = "subscribing"
        PROVE  \E i \in 1..Len(Pending') : Pending'[i] = Command("subscribe", h)
    <3>1. h # g /\ get[h] = "subscribing" BY <2>0, <2>3
    <3>2. PICK i \in 1..Len(Pending) : Pending[i] = Command("subscribe", h)
      BY <1>6, <3>1 DEF Awaited
    <3>3. i # 1 BY <1>3, <3>1, <3>2 DEF Command
    <3>4. i - 1 \in 1..Len(Pending') /\ (i - 1) + 1 = i BY <1>3, <3>3
    <3>5. Pending'[i - 1] = Pending[i] BY <1>3, <3>4
    <3>6. QED BY <3>2, <3>4, <3>5
  <2>4. ASSUME NEW i \in 1..Len(Pending'), NEW j \in 1..Len(Pending'),
               Pending'[i].op = "subscribe", Pending'[i].get = wrapped, Pending'[j].op = "subscribe"
        PROVE  j <= i
    <3>1. j + 1 <= i + 1 BY <1>3, <1>5, <1>6, <2>4 DEF LastWrapped
    <3>2. QED BY <3>1
  <2>5. OneCommand' BY <2>1, <2>2 DEF OneCommand, WaitsFor
  <2>6. Awaited' BY <2>3 DEF Awaited, Command
  <2>7. LastWrapped' BY <1>2, <2>4 DEF LastWrapped
  <2>8. QED BY <1>8, <2>5, <2>6, <2>7 DEF Commanded
<1>11. CASE c.op = "subscribe"
  <2>1. /\ listening' = [listening EXCEPT ![ch] = @ \cup {g}]
        /\ known' = known \cup {ch} /\ get' = [get EXCEPT ![g] = "waiting"]
    BY <1>11 DEF Reply, Goes
  <2>2. /\ listening'[ch] = listening[ch] \cup {g}
        /\ \A x \in Channels : x # ch => listening'[x] = listening[x]
        /\ get'[g] = "waiting" /\ \A h \in Gets \ {g} : get'[h] = get[h]
    BY <1>1, <1>4, <2>1 DEF Types
  <2>3. Types'
    <3>1. get' \in [Gets -> States] BY <1>1, <1>4, <2>1 DEF Types, States
    <3>2. listening' \in [Channels -> SUBSET Gets] BY <1>1, <1>4, <2>1 DEF Types
    <3>3. known' \subseteq Channels BY <1>1, <1>4, <2>1 DEF Types
    <3>4. QED BY <1>1, <1>2, <1>3, <3>1, <3>2, <3>3 DEF Types
  <2>4. Members' BY <1>1, <1>4, <2>2, <2>3 DEF Members, Types
  <2>5. NotAlone'
    <3>1. ASSUME NEW h \in Gets, get'[h] = "subscribing", h # wrapped,
                 wrapped \in listening'[ChannelOf[h]]
          PROVE  \E k \in listening'[ChannelOf[h]] : k # wrapped
      <4>1. h # g /\ get[h] = "subscribing" /\ ChannelOf[h] \in Channels
        BY <2>2, <3>1, PubSubAssumption
      <4>2. CASE g = wrapped
        <5>1. PICK i \in 1..Len(Pending) : Pending[i] = Command("subscribe", h)
          BY <1>6, <4>1 DEF Awaited
        <5>2. Pending[i].op = "subscribe" /\ Pending[i].get = h BY <5>1 DEF Command
        <5>3. i <= 1 BY <1>3, <1>5, <1>6, <1>11, <4>2, <5>2 DEF LastWrapped
        <5>4. i = 1 BY <5>3
        <5>5. QED BY <1>3, <4>1, <5>2, <5>4
      <4>3. CASE g # wrapped /\ ChannelOf[h] = ch BY <2>2, <4>3
      <4>4. CASE g # wrapped /\ ChannelOf[h] # ch
        BY <1>1, <2>2, <3>1, <4>1, <4>4 DEF NotAlone
      <4>5. QED BY <4>2, <4>3, <4>4
    <3>2. QED BY <1>2, <3>1 DEF NotAlone
  <2>6. Subscribed'
    <3>1. ASSUME NEW x \in Channels, NEW h \in listening'[x] \ lonely
          PROVE  /\ x \in known' /\ x \in server
                 /\ \A i \in 1..Len(Pending') :
                      Pending'[i].op = "unsubscribe" => ChannelOf[Pending'[i].get] # x
      <4>1. CASE h \in listening[x] BY <1>1, <1>2, <1>3, <1>5, <2>1, <4>1 DEF Subscribed
      <4>2. CASE h \notin listening[x]
        <5>1. x = ch /\ h = g BY <2>2, <4>2
        <5>2. ch \in known' /\ ch \in server
          BY <1>1, <1>3, <1>5, <1>11, <2>1, <5>1 DEF Confirmed
        <5>3. ASSUME NEW i \in 1..Len(Pending'), Pending'[i].op = "unsubscribe",
                     ChannelOf[Pending'[i].get] = ch
              PROVE  FALSE
          <6>1. i + 1 < 1 BY <1>1, <1>3, <1>5, <1>11, <5>1, <5>3 DEF InOrder
          <6>2. QED BY <6>1
        <5>4. QED BY <5>1, <5>2, <5>3
      <4>3. QED BY <4>1, <4>2
    <3>2. QED BY <1>2, <3>1 DEF Subscribed
  <2>7. Listens'
    <3>1. ASSUME NEW h \in Gets, get'[h] = "waiting", h \notin lonely
          PROVE  \/ h \in listening'[ChannelOf[h]]
                 \/ \E k \in listening'[ChannelOf[h]] : k # wrapped /\ k \notin lonely
      <4>1. ChannelOf[h] \in Channels BY PubSubAssumption
      <4>2. CASE h = g BY <2>2, <4>2
      <4>3. CASE h # g BY <1>1, <2>2, <3>1, <4>1, <4>3 DEF Listens
      <4>4. QED BY <4>2, <4>3
    <3>2. QED BY <1>2, <3>1 DEF Listens
  <2>8. Commanded' BY <1>10, <2>1
  <2>9. QED BY <1>8, <1>9, <2>3, <2>4, <2>5, <2>6, <2>7, <2>8 DEF PubInv, Heard
<1>12. CASE c.op # "subscribe"
  <2>1. known' = known \ {ch} /\ get' = [get EXCEPT ![g] = "done"] /\ UNCHANGED listening
    BY <1>12 DEF Reply, Goes
  <2>2. get'[g] = "done" /\ \A h \in Gets \ {g} : get'[h] = get[h]
    BY <1>1, <1>4, <2>1 DEF Types
  <2>3. Types' BY <1>1, <1>2, <1>3, <1>4, <2>1 DEF Types, States
  <2>4. Members' BY <1>1, <2>1, <2>2 DEF Members, Types
  <2>5. NotAlone' BY <1>1, <1>2, <2>1, <2>2 DEF NotAlone
  <2>6. Subscribed'
    <3>1. ASSUME NEW x \in Channels, NEW h \in listening[x] \ lonely
          PROVE  /\ x \in known /\ x \in server /\ x # ch
                 /\ \A i \in 1..Len(Pending') :
                      Pending'[i].op = "unsubscribe" => ChannelOf[Pending'[i].get] # x
      BY <1>1, <1>2, <1>3, <1>4, <1>5, <1>12 DEF Subscribed
    <3>2. QED BY <1>2, <2>1, <3>1 DEF Subscribed
  <2>7. Listens' BY <1>1, <1>2, <2>1, <2>2 DEF Listens
  <2>8. Commanded' BY <1>10, <2>1
  <2>9. QED BY <1>8, <1>9, <2>3, <2>4, <2>5, <2>6, <2>7, <2>8 DEF PubInv, Heard
<1>13. QED BY <1>11, <1>12

(* An outage: the commands are sent again, or fail. *)
LEMMA PubOutage == PubInv /\ Outage => PubInv'
<1> SUFFICES ASSUME PubInv, Outage PROVE PubInv' OBVIOUS
<1>1. /\ Types /\ Commanded /\ Members /\ NotAlone /\ Subscribed /\ InOrder /\ Confirmed /\ Listens
  BY DEF PubInv, Heard
<1>2. /\ Up /\ ~Up' /\ server' = {} /\ (Resend \/ Flush)
      /\ UNCHANGED <<wrapped, listening, known>>
  BY DEF Outage
<1>3. replies' = <<>> BY <1>2 DEF Resend, Flush
<1>4. Len(replies') = 0 /\ replies' \in Seq(Commands) BY <1>3
<1>5. Confirmed' /\ NoAnswerWhenDown' BY <1>3, <1>4 DEF Confirmed, NoAnswerWhenDown
<1>6. CASE Resend
  <2>1. sent' = replies \o sent /\ UNCHANGED <<get, lonely>> BY <1>6 DEF Resend
  <2>2. sent' \in Seq(Commands) BY <1>1, <2>1, ConcatProperties DEF Types
  <2>3. Pending' = Pending BY <1>3, <2>1, <2>2, ConcatEmptySeq DEF Pending
  <2>4. Types' BY <1>1, <1>2, <1>4, <2>1, <2>2 DEF Types
  <2>5. Commanded'
    BY <1>1, <1>2, <1>5, <2>1, <2>3 DEF Commanded, OneCommand, WaitsFor, Awaited, Command, LastWrapped
  <2>6. Heard'
    BY <1>1, <1>2, <1>5, <2>1, <2>3 DEF Heard, Members, NotAlone, Subscribed, InOrder, Listens
  <2>7. QED BY <2>4, <2>5, <2>6 DEF PubInv
<1>7. CASE Flush
  <2> DEFINE lost == {c.get : c \in ToSet(sent) \cup ToSet(replies)}
  <2>1. /\ get' = [h \in Gets |-> IF h \notin lost THEN get[h]
                                  ELSE IF get[h] = "subscribing" THEN "waiting" ELSE "done"]
        /\ lonely' = lonely \cup {h \in lost : get[h] = "subscribing"}
        /\ sent' = <<>>
    BY <1>7 DEF Flush
  <2>2. /\ Pending' = <<>> /\ Len(Pending') = 0 /\ sent' \in Seq(Commands)
    BY <1>3, <2>1, ConcatEmptySeq DEF Pending
  <2>3. lost \subseteq Gets
    <3>1. \A q \in Seq(Commands) : ToSet(q) \subseteq Commands
      BY LenProperties, ElementOfSeq DEF ToSet
    <3>2. \A c \in Commands : c.get \in Gets BY DEF Commands
    <3>3. QED BY <1>1, <3>1, <3>2 DEF Types
  <2>4. \A h \in Gets : get[h] = "subscribing" => h \in lost
    <3>1. ASSUME NEW h \in Gets, get[h] = "subscribing" PROVE h \in lost
      <4>1. PICK i \in 1..Len(Pending) : Pending[i] = Command("subscribe", h)
        BY <1>1, <3>1 DEF Commanded, Awaited
      <4>2. CASE i \in 1..Len(replies)
        <5>1. Pending[i] = replies[i] BY <1>1, <4>2, PendingIs
        <5>2. replies[i] \in ToSet(replies) BY <4>2 DEF ToSet
        <5>3. QED BY <4>1, <5>1, <5>2 DEF Command
      <4>3. CASE i \notin 1..Len(replies)
        <5>1. PICK j \in 1..Len(sent) : i = Len(replies) + j
          <6>1. i - Len(replies) \in 1..Len(sent) /\ i = Len(replies) + (i - Len(replies))
            BY <1>1, <4>3, PendingIs
          <6>2. QED BY <6>1
        <5>2. Pending[i] = sent[j] BY <1>1, <5>1, PendingIs
        <5>3. sent[j] \in ToSet(sent) BY DEF ToSet
        <5>4. QED BY <4>1, <5>2, <5>3 DEF Command
      <4>4. QED BY <4>2, <4>3
    <3>2. QED BY <3>1
  <2> HIDE DEF lost
  <2>5. Types' BY <1>1, <1>2, <1>4, <2>1, <2>2, <2>3 DEF Types, States
  <2>6. \A h \in Gets : /\ get'[h] # "subscribing"
                        /\ get'[h] = "waiting" => get[h] = "waiting" \/ h \in lonely'
                        /\ get'[h] \in {"idle", "subscribing"} => get[h] = get'[h]
    BY <1>1, <2>1, <2>4 DEF Types
  <2>7. Commanded' BY <1>5, <2>2, <2>6 DEF Commanded, OneCommand, Awaited, LastWrapped
  <2>8. Members' BY <1>1, <1>2, <2>6 DEF Members, Types
  <2>9. NotAlone' BY <2>6 DEF NotAlone
  <2>10. Subscribed' BY <1>1, <1>2, <2>1, <2>2 DEF Subscribed
  <2>11. InOrder' BY <2>2 DEF InOrder
  <2>12. Listens'
    <3>1. \A x \in Channels : \A k \in listening[x] : k \in lonely' => k \in lonely
      BY <1>1, <2>1 DEF Members
    <3>2. \A h \in lonely : h \in lonely' BY <2>1
    <3>3. QED BY <1>1, <1>2, <2>6, <3>1, <3>2, PubSubAssumption DEF Listens
  <2>13. QED BY <1>5, <2>5, <2>7, <2>8, <2>9, <2>10, <2>11, <2>12 DEF PubInv, Heard
<1>8. QED BY <1>2, <1>6, <1>7

(* ioredis subscribes again to what it knows. *)
LEMMA PubAgain == PubInv /\ SubscribesAgain => PubInv'
<1> SUFFICES ASSUME PubInv, SubscribesAgain PROVE PubInv' OBVIOUS
<1>1. /\ Types /\ Commanded /\ Members /\ NotAlone /\ Subscribed /\ InOrder /\ Confirmed /\ Listens
  BY DEF PubInv, Heard
<1>2. /\ ~Up /\ Up' /\ server' = known
      /\ UNCHANGED <<get, wrapped, listening, sent, replies, known, lonely>>
  BY DEF SubscribesAgain
<1>3. replies = <<>> /\ Len(replies) = 0 BY <1>1, <1>2 DEF Commanded, NoAnswerWhenDown
<1>4. Types' BY <1>1, <1>2 DEF Types
<1>5. Pending' = Pending BY <1>2 DEF Pending
<1>6. Commanded'
  BY <1>1, <1>2, <1>3, <1>5 DEF Commanded, OneCommand, WaitsFor, NoAnswerWhenDown, Awaited, Command, LastWrapped
<1>7. Heard'
  BY <1>1, <1>2, <1>3, <1>5 DEF Heard, Members, NotAlone, Subscribed, InOrder, Confirmed, Listens
<1>8. QED BY <1>4, <1>6, <1>7 DEF PubInv

LEMMA PubNext == PubInv /\ [Next]_vars => PubInv'
<1> SUFFICES ASSUME PubInv, [Next]_vars PROVE PubInv' OBVIOUS
<1>1. ASSUME Up = Up', UNCHANGED pubSubVars PROVE PubInv'
  <2>1. Pending' = Pending BY <1>1 DEF pubSubVars, Network, Pending
  <2>2. Types' /\ Commanded'
    BY <1>1, <2>1 DEF pubSubVars, Network, PubInv, Types, Commanded, OneCommand, WaitsFor,
       NoAnswerWhenDown, Awaited, Command, LastWrapped
  <2>3. Heard'
    BY <1>1, <2>1 DEF pubSubVars, Network, PubInv, Heard, Members, NotAlone, Subscribed, InOrder,
       Confirmed, Listens
  <2>4. QED BY <2>2, <2>3 DEF PubInv
<1>2. UNCHANGED vars => Up = Up' /\ UNCHANGED pubSubVars
  BY DEF vars, connectionVars, Up
<1>3. QED
  BY <1>1, <1>2, PubSubscribe, PubUnsubscribe, PubExecute, PubReply, PubOutage, PubAgain
     DEF Next

(* A get that waits for news of its key hears its channel whenever the     *)
(* connection is up, for any number of gets of any keys, however they      *)
(* overlap, unless a subscription failed, its own or that of a get it      *)
(* overlapped: handleSubscribe and handleUnsubscribe keep the map of       *)
(* listeners and the server in step.                                       *)
THEOREM WaitersAreHeard == Spec => []WaiterHears
<1>1. PubInv => WaiterHears
  <2> SUFFICES ASSUME PubInv, NEW g \in Gets, get[g] = "waiting", Up, g \notin lonely
               PROVE  ChannelOf[g] \in server /\ listening[ChannelOf[g]] # {}
    BY DEF WaiterHears
  <2>1. \E k \in listening[ChannelOf[g]] : k \notin lonely
    BY DEF PubInv, Heard, Listens
  <2>2. QED BY <2>1, PubSubAssumption DEF PubInv, Heard, Subscribed
<1>2. QED BY <1>1, PubInit, PubNext, PTL DEF Spec

(* Every variable has its type, and every command a get that waits for it. *)
THEOREM PubSubTyping == Spec => []PubSubTypeOK
<1>1. PubInv /\ ConnectionTypeOK => PubSubTypeOK
  <2> SUFFICES ASSUME PubInv, ConnectionTypeOK PROVE PubSubTypeOK OBVIOUS
  <2>1. Types /\ OneCommand BY DEF PubInv, Commanded
  <2>2. ASSUME NEW c \in ToSet(sent) \cup ToSet(replies)
        PROVE  \E i \in 1..Len(Pending) : Pending[i] = c
    <3>1. CASE c \in ToSet(sent)
      <4>1. PICK i \in 1..Len(sent) : c = sent[i] BY <2>1, <3>1, LenProperties DEF ToSet, Types
      <4>2. Len(replies) + i \in 1..Len(Pending) BY <2>1, PendingIs
      <4>3. QED BY <2>1, <4>1, <4>2, PendingIs
    <3>2. CASE c \in ToSet(replies)
      <4>1. PICK i \in 1..Len(replies) : c = replies[i]
        BY <2>1, <3>2, LenProperties DEF ToSet, Types
      <4>2. i \in 1..Len(Pending) BY <2>1, PendingIs
      <4>3. QED BY <2>1, <4>1, <4>2, PendingIs
    <3>3. QED BY <3>1, <3>2
  <2>3. \A c \in ToSet(sent) \cup ToSet(replies) : get[c.get] = WaitsFor(c)
    BY <2>1, <2>2 DEF OneCommand
  <2>4. QED BY <2>1, <2>3 DEF PubSubTypeOK, Types, States, Commands, WaitsFor
<1>2. QED BY <1>1, PubInit, PubNext, ConnectionTyping, PTL DEF Spec
=============================================================================
