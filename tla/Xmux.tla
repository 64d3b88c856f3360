-------------------------------- MODULE Xmux --------------------------------
(***************************************************************************)
(* XMUX, the pool of HTTP clients of the XHTTP dialer.  GetXmuxClient runs *)
(* under globalDialerAccess in two steps: it retires the clients that can  *)
(* no longer be reused, then closes those without running requests and     *)
(* picks or makes a client.  Running is changed without that lock, so a    *)
(* release is two steps as well: the decrement, and maybeClose.            *)
(***************************************************************************)
EXTENDS Integers, FiniteSets

CONSTANTS Users,        \* goroutines that take clients from the pool
          Concurrency,  \* maxConcurrency, 0 for no limit
          Connections,  \* maxConnections, 0 for no limit
          Reuse,        \* cMaxReuseTimes, 0 for no limit
          ReqTimes,     \* hMaxRequestTimes
          MaxClients    \* bound: clients made in a behaviour

ASSUME XmuxAssumption ==
    {Concurrency, Connections, Reuse, ReqTimes, MaxClients} \subseteq Nat

Clients == 1 .. MaxClients
Nobody  == "nobody"

VARIABLES pool,      \* xmuxClients
          made,      \* clients made so far
          running,   \* Running
          leftUse,   \* leftUsage plus one: 0 is the code's -1, no limit
          leftReq,   \* LeftRequests, not below 0
          broken,    \* clients whose IsClosed is true
          expired,   \* clients past their UnreusableAt
          notUsed,   \* NotUsed
          shut,      \* clients whose transport was closed
          getter,    \* holder of globalDialerAccess, or Nobody
          retiring   \* clients the holder has just retired

xmuxVars == <<pool, made, running, leftUse, leftReq, broken, expired, notUsed, shut,
              getter, retiring>>

XmuxInit == /\ pool = {} /\ made = 0
            /\ running = [c \in Clients |-> 0]
            /\ leftUse = [c \in Clients |-> 0] /\ leftReq = [c \in Clients |-> 0]
            /\ broken = {} /\ expired = {} /\ notUsed = {} /\ shut = {}
            /\ getter = Nobody /\ retiring = {}

Idle(c) == running[c] <= 0

Unusable(c) == c \in broken \/ leftUse[c] = 1 \/ leftReq[c] = 0 \/ c \in expired

\* The first loop of GetXmuxClient: NotUsed is stored before Running is read.
Retire(u) == /\ getter = Nobody /\ getter' = u
             /\ retiring' = {c \in pool : Unusable(c)}
             /\ notUsed' = notUsed \cup retiring' /\ pool' = pool \ retiring'
             /\ UNCHANGED <<made, running, leftUse, leftReq, broken, expired, shut>>

\* The clients that may be picked; none means that a new one is made.
Free == IF Connections > 0 /\ Cardinality(pool) < Connections THEN {}
        ELSE {c \in pool : Concurrency > 0 => running[c] < Concurrency}

NewClient(c) == /\ c = made + 1 /\ made' = c /\ pool' = pool \cup {c}
                /\ leftUse' = [leftUse EXCEPT ![c] = Reuse]
                /\ leftReq' = [leftReq EXCEPT ![c] = ReqTimes]

PickClient(c) == /\ c \in Free
                 /\ leftUse' = [leftUse EXCEPT ![c] = IF @ > 1 THEN @ - 1 ELSE @]
                 /\ UNCHANGED <<made, pool, leftReq>>

ClosesNone == UNCHANGED shut
ClosesIdle == shut' = shut \cup {c \in retiring : Idle(c)}

\* The rest of GetXmuxClient: maybeClose of the retired, then a client.
Pick(u, c) == /\ getter = u /\ getter' = Nobody /\ retiring' = {}
              /\ ClosesIdle
              /\ IF Free = {} THEN NewClient(c) ELSE PickClient(c)
              /\ UNCHANGED <<running, broken, expired, notUsed>>

AddRunning(c) == /\ running' = [running EXCEPT ![c] = @ + 1]
                 /\ UNCHANGED <<pool, made, leftUse, leftReq, broken, expired, notUsed,
                                shut, getter, retiring>>

\* DoneRunning: the decrement ...
Release(c) == /\ running' = [running EXCEPT ![c] = @ - 1]
              /\ UNCHANGED <<pool, made, leftUse, leftReq, broken, expired, notUsed, shut,
                             getter, retiring>>

\* ... and maybeClose.
MaybeClose(c) == /\ shut' = IF c \in notUsed /\ Idle(c) THEN shut \cup {c} ELSE shut
                 /\ UNCHANGED <<pool, made, running, leftUse, leftReq, broken, expired,
                                notUsed, getter, retiring>>

\* LeftRequests.Add(-1).
UseRequest(c) == leftReq' = [leftReq EXCEPT ![c] = IF @ > 0 THEN @ - 1 ELSE 0]

Expire(c) == /\ c \in pool \ expired
             /\ expired' = expired \cup {c}
             /\ UNCHANGED <<pool, made, running, leftUse, leftReq, broken, notUsed, shut,
                            getter, retiring>>

XmuxTypeOK == /\ pool \subseteq Clients /\ made \in 0 .. MaxClients
              /\ running \in [Clients -> 0 .. Cardinality(Users)]
              /\ leftUse \in [Clients -> 0 .. Reuse] /\ leftReq \in [Clients -> 0 .. ReqTimes]
              /\ broken \cup expired \cup notUsed \cup shut \cup retiring \subseteq Clients
              /\ getter \in Users \cup {Nobody}

=============================================================================
