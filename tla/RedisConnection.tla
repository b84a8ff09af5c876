--------------------------- MODULE RedisConnection ---------------------------
(***************************************************************************)
(* The two connections of a redis cluster provider, the client's and the   *)
(* subscriber's, and the credentials that both use.  The credentials are   *)
(* their generation: the server takes those of generation valid only.      *)
(*                                                                         *)
(* ioredis connects again by itself and tells the provider by events: an   *)
(* error, when there is one, then reconnecting, then ready.  MaxValid      *)
(* bounds the generations and MaxFaults the outages and the calls of the   *)
(* credential provider that fail or hang.  A connection that the server    *)
(* closes brings no error.  What goes over the subscriber's connection is  *)
(* in module RedisPubSub.                                                  *)
(***************************************************************************)
EXTENDS Naturals, FiniteSets

CONSTANTS MaxValid, MaxFaults

ASSUME ConnectionAssumption ==
  {MaxValid, MaxFaults} \subseteq Nat /\ MaxValid > 0

Clients == {"client", "subscriber"}

VARIABLES
  valid,      \* the generation that the server takes
  options,    \* the generation in the options of both clients
  call,       \* updatingCredentials: the call of the credential provider
  late,       \* generations that calls given up may still answer
  chain,      \* where init, and then the queued update, is
  conn,       \* the connections
  used,       \* the generation that a connection authenticated with
  connected,  \* clientConnected, subscriberConnected
  resolved,   \* the deferreds of the first connections that are resolved
  had,        \* subscriberHadToReconnect
  connect,    \* connectOrThrow
  everUp,     \* history: clients that have been connected
  missed,     \* history: the subscriber was away and nobody was told ...
  closed,     \* ... of a connection that was closed without an error
  faults

connectionVars == <<valid, options, call, late, chain, conn, used, connected, resolved,
          had, connect, everUp, missed, closed, faults>>
Credentials == <<valid, options, call, late, chain>>
Connections == <<conn, used, connected, resolved, had, connect, everUp, missed, closed>>

Generations == 1..MaxValid
NoCall == [gen |-> 0, hangs |-> FALSE]
NewCall == [gen |-> valid, hangs |-> FALSE]

(* init has called updateCredentials. *)
ConnectionInit ==
  /\ valid = 1 /\ options = 0 /\ call = NewCall /\ late = {} /\ chain = "init"
  /\ conn = [c \in Clients |-> "off"] /\ used = [c \in Clients |-> 0]
  /\ connected = [c \in Clients |-> FALSE] /\ resolved = {} /\ had = FALSE
  /\ connect = "none" /\ everUp = {} /\ missed = FALSE /\ closed = FALSE /\ faults = 0

-----------------------------------------------------------------------------
(* updateCredentials: one call at a time; who finds it running joins it. *)
Start == IF call = NoCall THEN NewCall ELSE call

(* The callers of an update that ends: init and the queued update go on. *)
AfterCall == CASE chain = "init" -> "queued" [] chain = "updating" -> "auth" [] OTHER -> chain

ProviderAnswers ==
  /\ call # NoCall /\ ~call.hangs
  /\ options' = call.gen /\ call' = NoCall /\ chain' = AfterCall
  /\ UNCHANGED <<valid, late, Connections, faults>>

(* It rejects, or has no credentials. *)
ProviderFails ==
  /\ call # NoCall /\ ~call.hangs
  /\ faults < MaxFaults /\ faults' = faults + 1
  /\ call' = NoCall /\ chain' = AfterCall
  /\ UNCHANGED <<valid, options, late, Connections>>

ProviderHangs ==
  /\ call # NoCall /\ ~call.hangs
  /\ faults < MaxFaults /\ faults' = faults + 1
  /\ call' = [call EXCEPT !.hangs = TRUE]
  /\ UNCHANGED <<valid, options, late, chain, Connections>>

(* Mutant of WaitTimesOut: the update waits as long as it takes. *)
WaitTimesOut_Never == FALSE /\ UNCHANGED connectionVars

(* MAX_CREDENTIALS_WAIT is over; the provider may still answer. *)
WaitTimesOut ==
  /\ call.hangs
  /\ late' = late \cup {call.gen} /\ call' = NoCall /\ chain' = AfterCall
  /\ UNCHANGED <<valid, options, Connections, faults>>

LateAnswer ==
  /\ \E g \in late : late' = late \ {g}
  /\ UNCHANGED <<valid, options, call, chain, Connections, faults>>

(* queueCredentialsUpdate *)
UpdateDue ==
  /\ chain = "queued" /\ chain' = "updating" /\ call' = Start
  /\ UNCHANGED <<valid, options, late, Connections, faults>>

(***************************************************************************)
(* reAuthClients: the client, and then the subscriber, whose AUTH ioredis  *)
(* refuses once it is subscribed.  The error of either ends it.            *)
(***************************************************************************)
ReAuthClients ==
  /\ chain = "auth" /\ chain' = "queued"
  /\ \E subscribed \in {FALSE, connect = "ok"} :
       LET able == {c \in Clients : conn[c] = "up" /\ (c = "subscriber" => ~subscribed)} IN
       used' = [c \in Clients |-> IF c \in able /\ conn["client"] = "up" /\ options = valid
                                 THEN options ELSE used[c]]
  /\ UNCHANGED <<valid, options, call, late, conn, connected, resolved, had,
                 connect, everUp, missed, closed, faults>>

CredentialsChange ==
  /\ valid < MaxValid /\ valid' = valid + 1
  /\ UNCHANGED <<options, call, late, chain, Connections, faults>>

(***************************************************************************)
(* The events of client c.                                                 *)
(***************************************************************************)
SetIsConnected(c, to) ==
  LET announces == had /\ to /\ \A d \in Clients \ {c} : connected[d] IN
  /\ connected' = [connected EXCEPT ![c] = to]
  /\ resolved' = resolved \cup {c}
  /\ missed' = (missed /\ ~announces) /\ closed' = (closed /\ ~announces)
  /\ had' = (had /\ ~announces)

(* Mutant of OnError: whether the subscriber was connected is asked after  *)
(* the flag is reset.                                                      *)
OnError_Asks(c) ==
  /\ connected' = [connected EXCEPT ![c] = FALSE]
  /\ resolved' = resolved \cup {c}
  /\ had' = (had \/ (c = "subscriber" /\ connected'[c]))

(* ERROR: the flag that the subscriber had to reconnect is set last. *)
OnError(c) ==
  /\ connected' = [connected EXCEPT ![c] = FALSE]
  /\ resolved' = resolved \cup {c}
  /\ had' = (had \/ c = "subscriber")

(* READY *)
Ready(c) ==
  /\ conn[c] = "trying" /\ options = valid
  /\ conn' = [conn EXCEPT ![c] = "up"] /\ used' = [used EXCEPT ![c] = options]
  /\ everUp' = everUp \cup {c}
  /\ SetIsConnected(c, TRUE)
  /\ UNCHANGED <<Credentials, connect, faults>>

(* The server refuses the credentials: reconnectOnError asks for new ones. *)
Refused(c) ==
  /\ conn[c] = "trying" /\ options # valid
  /\ call' = Start
  /\ OnError(c)
  /\ UNCHANGED <<valid, options, late, chain, conn, used, connect, everUp, missed, closed, faults>>

(* The connection breaks, with an ERROR. *)
Breaks(c) ==
  /\ conn[c] \in {"trying", "up"}
  /\ faults < MaxFaults /\ faults' = faults + 1
  /\ conn' = [conn EXCEPT ![c] = "trying"]
  /\ missed' = (missed \/ (c = "subscriber" /\ conn[c] = "up"))
  /\ OnError(c)
  /\ UNCHANGED <<Credentials, used, connect, everUp, closed>>

(* The server closes it, and there is only RECONNECTING. *)
Closes(c) ==
  /\ conn[c] = "up"
  /\ faults < MaxFaults /\ faults' = faults + 1
  /\ conn' = [conn EXCEPT ![c] = "trying"]
  /\ connected' = [connected EXCEPT ![c] = FALSE]
  /\ missed' = (missed \/ c = "subscriber") /\ closed' = (closed \/ c = "subscriber")
  /\ UNCHANGED <<Credentials, used, resolved, had, connect, everUp>>

-----------------------------------------------------------------------------
(* connectOrThrow *)
Connect ==
  /\ connect = "none" /\ chain # "init" /\ connect' = "waiting"
  /\ conn' = [c \in Clients |-> "trying"]
  /\ UNCHANGED <<Credentials, used, connected, resolved, had, everUp, missed, closed, faults>>

ConnectReturns ==
  /\ connect = "waiting" /\ resolved = Clients /\ connect' = "ok"
  /\ UNCHANGED <<Credentials, conn, used, connected, resolved, had, everUp, missed, closed, faults>>

(* END comes for both clients, which are disconnected. *)
ConnectThrows ==
  /\ connect = "waiting" /\ resolved # Clients /\ connect' = "failed"
  /\ conn' = [c \in Clients |-> "off"]
  /\ connected' = [c \in Clients |-> FALSE] /\ resolved' = Clients
  /\ UNCHANGED <<Credentials, used, had, everUp, missed, closed, faults>>

ConnectionNext ==
  \/ ProviderAnswers \/ ProviderFails \/ ProviderHangs \/ WaitTimesOut \/ LateAnswer
  \/ UpdateDue \/ ReAuthClients \/ CredentialsChange
  \/ \E c \in Clients : Ready(c) \/ Refused(c) \/ Breaks(c) \/ Closes(c)
  \/ Connect \/ ConnectReturns \/ ConnectThrows

(***************************************************************************)
(* Timers fire, ioredis tries again and the credential provider answers,   *)
(* but for the calls that hang.                                            *)
(***************************************************************************)
ConnectionFairness ==
  /\ WF_connectionVars(ProviderAnswers) /\ WF_connectionVars(WaitTimesOut) /\ WF_connectionVars(UpdateDue)
  /\ WF_connectionVars(ReAuthClients) /\ WF_connectionVars(ConnectReturns)
  /\ \A c \in Clients : WF_connectionVars(Ready(c)) /\ WF_connectionVars(Refused(c))

-----------------------------------------------------------------------------
(* Every variable has its type. *)
ConnectionTypeOK ==
  /\ valid \in Generations /\ options \in 0..valid /\ late \subseteq Generations
  /\ call \in [gen : Generations, hangs : BOOLEAN] \cup {NoCall}
  /\ chain \in {"init", "queued", "updating", "auth"}
  /\ conn \in [Clients -> {"off", "trying", "up"}]
  /\ connected \in [Clients -> BOOLEAN] /\ resolved \subseteq Clients
  /\ connect \in {"none", "waiting", "ok", "failed"}
  /\ \A c \in Clients : used[c] \in 0..valid /\ (connected[c] <=> conn[c] = "up")

(* When both clients are connected and the subscriber was away meanwhile,  *)
(* SUBSCRIBER_RECONNECTED has been emitted, unless its connection was      *)
(* closed without an error (setIsConnected, the ERROR listener): without   *)
(* it nobody reads again what was published meanwhile.                     *)
NoOutageUnannounced == (\A c \in Clients : connected[c]) => ~missed \/ closed

(* After the last change of the credentials and the last fault, both       *)
(* clients get connected again (reconnectOnError, updateCredentials).      *)
Recovers == (connect = "ok") ~> [](\A c \in Clients : conn[c] = "up")

(* Whatever way the connection went: "Check if the subscriber had to       *)
(* reconnect at some point".                                               *)
EveryOutageAnnounced == (\A c \in Clients : connected[c]) => ~missed

(* connectOrThrow returns when both clients are connected: "Wait for both  *)
(* connections to occur".                                                  *)
ConnectMeansConnected == connect = "ok" => everUp = Clients

(* A queued update leaves both connections with the new credentials:       *)
(* "Re-authenticating clients".                                            *)
BothReAuthenticated ==
  [][/\ chain = "auth" /\ chain' = "queued" /\ options = valid
     /\ connect = "ok" /\ \A c \in Clients : conn[c] = "up"
     => \A c \in Clients : used'[c] = options]_connectionVars
=============================================================================
