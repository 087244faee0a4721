--------------------------- MODULE ServerProofs ---------------------------
(***************************************************************************)
(* The safety of Server for any connections, any set of listeners and any  *)
(* number of starts: IndInv is inductive, and what is claimed of sessions_ *)
(* and of a stopped server follows from it.                                *)
(***************************************************************************)
EXTENDS Server, TLAPS

\* A loop is named by its protocol and its start.
LEMMA LoopNames == \A l \in Loops : l[1] \in Protocols /\ l[2] \in Nat /\ l[2] <= MaxStarts
  BY ServerAssumption DEF Loops

\* The constructor leaves everything closed.
LEMMA InitIndInv == Init => IndInv
  <1> SUFFICES ASSUME Init PROVE IndInv
    OBVIOUS
  <1> USE ServerAssumption DEF Init
  <1>1. starts \in 0 .. MaxStarts
    OBVIOUS
  <1>2. ControlTypeOK
    BY <1>1, Zenon DEF ControlTypeOK
  <1>3. LoopTypeOK /\ SessionTypeOK
    BY DEF LoopTypeOK, SessionTypeOK
  <1>4. RegistryExact /\ SocketsOwned /\ HoldersKnown
    BY DEF RegistryExact, SocketsOwned, HoldersKnown, Live
  <1>5. FlagsKnown /\ ListenersKnown
    BY DEF FlagsKnown, ListenersKnown
  <1>6. StartsKnown
    BY DEF StartsKnown
  <1>7. QED
    BY <1>2, <1>3, <1>4, <1>5, <1>6 DEF IndInv, TypeOK
-----------------------------------------------------------------------------
(* Start and Stop.                                                         *)

\* A step of Start, whether it succeeds or cleans up.
LEMMA StartStep ==
    ASSUME IndInv, Start
    PROVE  IndInv'
  <1> USE ServerAssumption, LoopNames DEF IndInv, TypeOK, Live
  <1>1. ASSUME BeginStart PROVE IndInv'
    <2> USE <1>1
    <2> USE DEF BeginStart, Goto, AfterHttp, loopVars, sessionVars
    <2>1. (ControlTypeOK /\ FlagsKnown)'
      BY DEF ControlTypeOK, FlagsKnown, StartsKnown
    <2>2. (LoopTypeOK /\ SessionTypeOK)'
      BY DEF LoopTypeOK, SessionTypeOK
    <2>3. (RegistryExact /\ SocketsOwned /\ HoldersKnown)'
      BY DEF ControlTypeOK, LoopTypeOK, SessionTypeOK, RegistryExact, SocketsOwned, HoldersKnown, StartsKnown
    <2>4. (ListenersKnown /\ StartsKnown)'
      BY DEF ControlTypeOK, LoopTypeOK, SessionTypeOK, ListenersKnown, StartsKnown, SocketsOwned, HoldersKnown
    <2>5. QED
      BY <2>1, <2>2, <2>3, <2>4 DEF IndInv, TypeOK
  <1>2. ASSUME ListenHttp PROVE IndInv'
    <2> USE <1>2
    <2> USE DEF ListenHttp, Goto, AfterHttp, loopVars, sessionVars, Protocols
    <2>1. (ControlTypeOK /\ FlagsKnown)'
      BY DEF ControlTypeOK, FlagsKnown, StartsKnown
    <2>2. (LoopTypeOK /\ SessionTypeOK)'
      BY DEF LoopTypeOK, SessionTypeOK
    <2>3. (RegistryExact /\ SocketsOwned /\ HoldersKnown)'
      BY DEF ControlTypeOK, LoopTypeOK, SessionTypeOK, RegistryExact, SocketsOwned, HoldersKnown, StartsKnown
    <2>4. (ListenersKnown /\ StartsKnown)'
      BY DEF ControlTypeOK, LoopTypeOK, SessionTypeOK, ListenersKnown, StartsKnown, SocketsOwned, HoldersKnown
    <2>5. QED
      BY <2>1, <2>2, <2>3, <2>4 DEF IndInv, TypeOK
  <1>3. ASSUME ConfigureTls PROVE IndInv'
    <2> USE <1>3
    <2> USE DEF ConfigureTls, Goto, CloseAcceptors, Protocols
    <2>1. (ControlTypeOK /\ FlagsKnown)'
      BY DEF ControlTypeOK, FlagsKnown, StartsKnown
    <2>2. (LoopTypeOK /\ SessionTypeOK)'
      BY DEF LoopTypeOK, SessionTypeOK
    <2>3. (RegistryExact /\ SocketsOwned /\ HoldersKnown)'
      BY DEF ControlTypeOK, LoopTypeOK, SessionTypeOK, RegistryExact, SocketsOwned, HoldersKnown, StartsKnown
    <2>4. ListenersKnown'
      BY DEF ControlTypeOK, LoopTypeOK, SessionTypeOK, ListenersKnown
    <2>5. StartsKnown'
      BY DEF ControlTypeOK, LoopTypeOK, SessionTypeOK, StartsKnown
    <2>6. QED
      BY <2>1, <2>2, <2>3, <2>4, <2>5 DEF IndInv, TypeOK
  <1>4. ASSUME ListenHttps PROVE IndInv'
    <2> USE <1>4
    <2> USE DEF ListenHttps, Goto, CloseAcceptors, Protocols
    <2>1. (ControlTypeOK /\ FlagsKnown)'
      BY DEF ControlTypeOK, FlagsKnown, StartsKnown
    <2>2. (LoopTypeOK /\ SessionTypeOK)'
      BY DEF LoopTypeOK, SessionTypeOK
    <2>3. (RegistryExact /\ SocketsOwned /\ HoldersKnown)'
      BY DEF ControlTypeOK, LoopTypeOK, SessionTypeOK, RegistryExact, SocketsOwned, HoldersKnown, StartsKnown
    <2>4. ListenersKnown'
      BY DEF ControlTypeOK, LoopTypeOK, SessionTypeOK, ListenersKnown
    <2>5. StartsKnown'
      BY DEF ControlTypeOK, LoopTypeOK, SessionTypeOK, StartsKnown
    <2>6. QED
      BY <2>1, <2>2, <2>3, <2>4, <2>5 DEF IndInv, TypeOK
  <1>5. ASSUME Launch PROVE IndInv'
    <2> USE <1>5
    <2> USE DEF Launch, Goto, sessionVars
    <2>1. (ControlTypeOK /\ FlagsKnown)'
      BY DEF ControlTypeOK, FlagsKnown, StartsKnown
    <2>2. (LoopTypeOK /\ SessionTypeOK)'
      BY DEF LoopTypeOK, SessionTypeOK
    <2>3. (RegistryExact /\ SocketsOwned /\ HoldersKnown)'
      BY DEF ControlTypeOK, LoopTypeOK, SessionTypeOK, RegistryExact, SocketsOwned, HoldersKnown, StartsKnown
    <2>4. (ListenersKnown /\ StartsKnown)'
      BY DEF ControlTypeOK, LoopTypeOK, SessionTypeOK, ListenersKnown, StartsKnown, SocketsOwned, HoldersKnown
    <2>5. QED
      BY <2>1, <2>2, <2>3, <2>4 DEF IndInv, TypeOK
  <1>6. QED
    BY <1>1, <1>2, <1>3, <1>4, <1>5 DEF Start

\* A step of Stop.
LEMMA StopStep ==
    ASSUME IndInv, BeginStop \/ Stop
    PROVE  IndInv'
  <1> USE ServerAssumption, LoopNames DEF IndInv, TypeOK, Live
  <1>1. ASSUME BeginStop PROVE IndInv'
    <2> USE <1>1
    <2> USE DEF BeginStop, Goto, loopVars, sessionVars
    <2>1. (ControlTypeOK /\ FlagsKnown)'
      BY DEF ControlTypeOK, FlagsKnown, StartsKnown
    <2>2. (LoopTypeOK /\ SessionTypeOK)'
      BY DEF LoopTypeOK, SessionTypeOK
    <2>3. (RegistryExact /\ SocketsOwned /\ HoldersKnown)'
      BY DEF ControlTypeOK, LoopTypeOK, SessionTypeOK, RegistryExact, SocketsOwned, HoldersKnown, StartsKnown
    <2>4. (ListenersKnown /\ StartsKnown)'
      BY DEF ControlTypeOK, LoopTypeOK, SessionTypeOK, ListenersKnown, StartsKnown, SocketsOwned, HoldersKnown
    <2>5. QED
      BY <2>1, <2>2, <2>3, <2>4 DEF IndInv, TypeOK
  <1>2. ASSUME CloseHttp PROVE IndInv'
    <2> USE <1>2
    <2> USE DEF CloseHttp, Goto, CloseAcceptors, Protocols
    <2>1. (ControlTypeOK /\ FlagsKnown)'
      BY DEF ControlTypeOK, FlagsKnown, StartsKnown
    <2>2. (LoopTypeOK /\ SessionTypeOK)'
      BY DEF LoopTypeOK, SessionTypeOK
    <2>3. (RegistryExact /\ SocketsOwned /\ HoldersKnown)'
      BY DEF ControlTypeOK, LoopTypeOK, SessionTypeOK, RegistryExact, SocketsOwned, HoldersKnown, StartsKnown
    <2>4. (ListenersKnown /\ StartsKnown)'
      BY DEF ControlTypeOK, LoopTypeOK, SessionTypeOK, ListenersKnown, StartsKnown, SocketsOwned, HoldersKnown
    <2>5. QED
      BY <2>1, <2>2, <2>3, <2>4 DEF IndInv, TypeOK
  <1>3. ASSUME CloseHttps PROVE IndInv'
    <2> USE <1>3
    <2> USE DEF CloseHttps, Goto, CloseAcceptors, Protocols
    <2>1. (ControlTypeOK /\ FlagsKnown)'
      BY DEF ControlTypeOK, FlagsKnown, StartsKnown
    <2>2. (LoopTypeOK /\ SessionTypeOK)'
      BY DEF LoopTypeOK, SessionTypeOK
    <2>3. (RegistryExact /\ SocketsOwned /\ HoldersKnown)'
      BY DEF ControlTypeOK, LoopTypeOK, SessionTypeOK, RegistryExact, SocketsOwned, HoldersKnown, StartsKnown
    <2>4. (ListenersKnown /\ StartsKnown)'
      BY DEF ControlTypeOK, LoopTypeOK, SessionTypeOK, ListenersKnown, StartsKnown, SocketsOwned, HoldersKnown
    <2>5. QED
      BY <2>1, <2>2, <2>3, <2>4 DEF IndInv, TypeOK
  <1>4. ASSUME CloseSessions PROVE IndInv'
    <2> USE <1>4
    <2> USE DEF CloseSessions, Goto, loopVars
    <2>1. (ControlTypeOK /\ FlagsKnown)'
      BY DEF ControlTypeOK, FlagsKnown, StartsKnown
    <2>2. (LoopTypeOK /\ SessionTypeOK)'
      BY DEF LoopTypeOK, SessionTypeOK
    <2>3. (RegistryExact /\ SocketsOwned /\ HoldersKnown)'
      BY DEF ControlTypeOK, LoopTypeOK, SessionTypeOK, RegistryExact, SocketsOwned, HoldersKnown, StartsKnown
    <2>4. (ListenersKnown /\ StartsKnown)'
      BY DEF ControlTypeOK, LoopTypeOK, SessionTypeOK, ListenersKnown, StartsKnown, SocketsOwned, HoldersKnown
    <2>5. QED
      BY <2>1, <2>2, <2>3, <2>4 DEF IndInv, TypeOK
  <1>5. ASSUME WaitForSessions PROVE IndInv'
    <2> USE <1>5
    <2> USE DEF WaitForSessions, Goto, loopVars, sessionVars
    <2>1. (ControlTypeOK /\ FlagsKnown)'
      BY DEF ControlTypeOK, FlagsKnown, StartsKnown
    <2>2. (LoopTypeOK /\ SessionTypeOK)'
      BY DEF LoopTypeOK, SessionTypeOK
    <2>3. (RegistryExact /\ SocketsOwned /\ HoldersKnown)'
      BY DEF ControlTypeOK, LoopTypeOK, SessionTypeOK, RegistryExact, SocketsOwned, HoldersKnown, StartsKnown
    <2>4. (ListenersKnown /\ StartsKnown)'
      BY DEF ControlTypeOK, LoopTypeOK, SessionTypeOK, ListenersKnown, StartsKnown, SocketsOwned, HoldersKnown
    <2>5. QED
      BY <2>1, <2>2, <2>3, <2>4 DEF IndInv, TypeOK
  <1>6. ASSUME StopContext PROVE IndInv'
    <2> USE <1>6
    <2> USE DEF StopContext, Goto, loopVars, sessionVars
    <2>1. (ControlTypeOK /\ FlagsKnown)'
      BY DEF ControlTypeOK, FlagsKnown, StartsKnown
    <2>2. (LoopTypeOK /\ SessionTypeOK)'
      BY DEF LoopTypeOK, SessionTypeOK
    <2>3. (RegistryExact /\ SocketsOwned /\ HoldersKnown)'
      BY DEF ControlTypeOK, LoopTypeOK, SessionTypeOK, RegistryExact, SocketsOwned, HoldersKnown, StartsKnown
    <2>4. (ListenersKnown /\ StartsKnown)'
      BY DEF ControlTypeOK, LoopTypeOK, SessionTypeOK, ListenersKnown, StartsKnown, SocketsOwned, HoldersKnown
    <2>5. QED
      BY <2>1, <2>2, <2>3, <2>4 DEF IndInv, TypeOK
  <1>7. QED
    BY <1>1, <1>2, <1>3, <1>4, <1>5, <1>6 DEF Stop

-----------------------------------------------------------------------------
(* Accept loops and sessions.                                              *)

\* A step of an accept loop, whether its accept succeeds or fails.
LEMMA LoopStep ==
    ASSUME IndInv, AcceptLoop \/ AcceptFails
    PROVE  IndInv'
  <1> USE ServerAssumption, LoopNames DEF IndInv, TypeOK, Live
  <1>1. ASSUME LoopBegins PROVE IndInv'
    <2> USE <1>1
    <2> USE DEF LoopBegins, LoopHead, controlVars, sessionVars
    <2>1. (ControlTypeOK /\ FlagsKnown)'
      BY DEF ControlTypeOK, FlagsKnown, StartsKnown
    <2>2. (LoopTypeOK /\ SessionTypeOK)'
      BY DEF LoopTypeOK, SessionTypeOK
    <2>3. (RegistryExact /\ SocketsOwned /\ HoldersKnown)'
      BY DEF ControlTypeOK, LoopTypeOK, SessionTypeOK, RegistryExact, SocketsOwned, HoldersKnown, StartsKnown
    <2>4. (ListenersKnown /\ StartsKnown)'
      BY DEF ControlTypeOK, LoopTypeOK, SessionTypeOK, ListenersKnown, StartsKnown, SocketsOwned, HoldersKnown
    <2>5. QED
      BY <2>1, <2>2, <2>3, <2>4 DEF IndInv, TypeOK
  <1>2. ASSUME AcceptCompletes PROVE IndInv'
    <2> USE <1>2
    <2> USE DEF AcceptCompletes, controlVars
    <2>1. (ControlTypeOK /\ FlagsKnown)'
      BY DEF ControlTypeOK, FlagsKnown, StartsKnown
    <2>2. (LoopTypeOK /\ SessionTypeOK)'
      BY DEF LoopTypeOK, SessionTypeOK
    <2>3. (RegistryExact /\ SocketsOwned /\ HoldersKnown)'
      BY DEF ControlTypeOK, LoopTypeOK, SessionTypeOK, RegistryExact, SocketsOwned, HoldersKnown, StartsKnown
    <2>4. (ListenersKnown /\ StartsKnown)'
      BY DEF ControlTypeOK, LoopTypeOK, SessionTypeOK, ListenersKnown, StartsKnown, SocketsOwned, HoldersKnown
    <2>5. QED
      BY <2>1, <2>2, <2>3, <2>4 DEF IndInv, TypeOK
  <1>3. ASSUME AcceptFails PROVE IndInv'
    <2> USE <1>3
    <2> USE DEF AcceptFails, controlVars, sessionVars
    <2>1. (ControlTypeOK /\ FlagsKnown)'
      BY DEF ControlTypeOK, FlagsKnown, StartsKnown
    <2>2. (LoopTypeOK /\ SessionTypeOK)'
      BY DEF LoopTypeOK, SessionTypeOK
    <2>3. (RegistryExact /\ SocketsOwned /\ HoldersKnown)'
      BY DEF ControlTypeOK, LoopTypeOK, SessionTypeOK, RegistryExact, SocketsOwned, HoldersKnown, StartsKnown
    <2>4. (ListenersKnown /\ StartsKnown)'
      BY DEF ControlTypeOK, LoopTypeOK, SessionTypeOK, ListenersKnown, StartsKnown, SocketsOwned, HoldersKnown
    <2>5. QED
      BY <2>1, <2>2, <2>3, <2>4 DEF IndInv, TypeOK
  <1>4. ASSUME RegisterAndSpawn PROVE IndInv'
    <2> USE <1>4
    <2> USE DEF RegisterAndSpawn, LoopHead, controlVars
    <2>1. (ControlTypeOK /\ FlagsKnown)'
      BY DEF ControlTypeOK, FlagsKnown, StartsKnown
    <2>2. (LoopTypeOK /\ SessionTypeOK)'
      <3>1. \A k \in Loops : loop[k] = "completed" => accepted[k] \in Conns
        BY DEF LoopTypeOK, SocketsOwned
      <3>2. LoopTypeOK'
        BY DEF LoopTypeOK
      <3>3. SessionTypeOK'
        BY <3>1 DEF SessionTypeOK
      <3>4. QED
        BY <3>2, <3>3
    <2>3. (RegistryExact /\ SocketsOwned /\ HoldersKnown)'
      BY DEF ControlTypeOK, LoopTypeOK, SessionTypeOK, RegistryExact, SocketsOwned, HoldersKnown, StartsKnown
    <2>4. (ListenersKnown /\ StartsKnown)'
      BY DEF ControlTypeOK, LoopTypeOK, SessionTypeOK, ListenersKnown, StartsKnown, SocketsOwned, HoldersKnown
    <2>5. QED
      BY <2>1, <2>2, <2>3, <2>4 DEF IndInv, TypeOK
  <1>5. ASSUME LoopEnds PROVE IndInv'
    <2> USE <1>5
    <2> USE DEF LoopEnds, controlVars, sessionVars
    <2>1. (ControlTypeOK /\ FlagsKnown)'
      BY DEF ControlTypeOK, FlagsKnown, StartsKnown
    <2>2. (LoopTypeOK /\ SessionTypeOK)'
      BY DEF LoopTypeOK, SessionTypeOK
    <2>3. (RegistryExact /\ SocketsOwned /\ HoldersKnown)'
      BY DEF ControlTypeOK, LoopTypeOK, SessionTypeOK, RegistryExact, SocketsOwned, HoldersKnown, StartsKnown
    <2>4. (ListenersKnown /\ StartsKnown)'
      BY DEF ControlTypeOK, LoopTypeOK, SessionTypeOK, ListenersKnown, StartsKnown, SocketsOwned, HoldersKnown
    <2>5. QED
      BY <2>1, <2>2, <2>3, <2>4 DEF IndInv, TypeOK
  <1>6. QED
    BY <1>1, <1>2, <1>3, <1>4, <1>5 DEF AcceptLoop

\* A session goes on.
LEMMA BecomesStep ==
    ASSUME IndInv, NEW c \in Conns, session[c] \in Live, running,
           NEW next \in Live, Becomes(c, next)
    PROVE  IndInv'
  <1> USE ServerAssumption, LoopNames DEF IndInv, TypeOK, Live
  <1> USE DEF Becomes, controlVars, loopVars
  <1>1. (ControlTypeOK /\ FlagsKnown)'
    BY DEF ControlTypeOK, FlagsKnown, StartsKnown
  <1>2. (LoopTypeOK /\ SessionTypeOK)'
    BY DEF LoopTypeOK, SessionTypeOK
  <1>3. (RegistryExact /\ SocketsOwned /\ HoldersKnown)'
    BY DEF ControlTypeOK, LoopTypeOK, SessionTypeOK, RegistryExact, SocketsOwned, HoldersKnown, StartsKnown
  <1>4. (ListenersKnown /\ StartsKnown)'
    BY DEF ControlTypeOK, LoopTypeOK, SessionTypeOK, ListenersKnown, StartsKnown, SocketsOwned, HoldersKnown
  <1>5. QED
    BY <1>1, <1>2, <1>3, <1>4 DEF IndInv, TypeOK

\* A session ends.
LEMMA EndStep ==
    ASSUME IndInv, NEW c \in Conns, session[c] \in Live, running, UnregisterAndEnd(c)
    PROVE  IndInv'
  <1> USE ServerAssumption, LoopNames DEF IndInv, TypeOK, Live
  <1> USE DEF UnregisterAndEnd, controlVars, loopVars
  <1>1. (ControlTypeOK /\ FlagsKnown)'
    BY DEF ControlTypeOK, FlagsKnown, StartsKnown
  <1>2. (LoopTypeOK /\ SessionTypeOK)'
    BY DEF LoopTypeOK, SessionTypeOK
  <1>3. (RegistryExact /\ SocketsOwned /\ HoldersKnown)'
    BY DEF ControlTypeOK, LoopTypeOK, SessionTypeOK, RegistryExact, SocketsOwned, HoldersKnown, StartsKnown
  <1>4. (ListenersKnown /\ StartsKnown)'
    BY DEF ControlTypeOK, LoopTypeOK, SessionTypeOK, ListenersKnown, StartsKnown, SocketsOwned, HoldersKnown
  <1>5. QED
    BY <1>1, <1>2, <1>3, <1>4 DEF IndInv, TypeOK

\* A read times out.
LEMMA TimeoutStep ==
    ASSUME IndInv, NEW c \in Conns, ReadTimesOut(c)
    PROVE  IndInv'
  <1> USE ServerAssumption, LoopNames DEF IndInv, TypeOK, Live
  <1> USE DEF ReadTimesOut, controlVars, loopVars
  <1>1. (ControlTypeOK /\ FlagsKnown)'
    BY DEF ControlTypeOK, FlagsKnown, StartsKnown
  <1>2. (LoopTypeOK /\ SessionTypeOK)'
    BY DEF LoopTypeOK, SessionTypeOK
  <1>3. (RegistryExact /\ SocketsOwned /\ HoldersKnown)'
    BY DEF ControlTypeOK, LoopTypeOK, SessionTypeOK, RegistryExact, SocketsOwned, HoldersKnown, StartsKnown
  <1>4. (ListenersKnown /\ StartsKnown)'
    BY DEF ControlTypeOK, LoopTypeOK, SessionTypeOK, ListenersKnown, StartsKnown, SocketsOwned, HoldersKnown
  <1>5. QED
    BY <1>1, <1>2, <1>3, <1>4 DEF IndInv, TypeOK

\* A step of a session is one of these three.
LEMMA SessionPreserves ==
    ASSUME IndInv, NEW c \in Conns, Session(c)
    PROVE  IndInv'
  <1>1. running /\ session[c] \in Live
    BY DEF Session, SessionStep, MoveSocket, InstallClose, Handshake, ReadDone, ReadTimesOut,
       LimitExceeded, Handled, WriteDone, EndLimit, Live
  <1>2. \/ \E next \in Live : Becomes(c, next)
        \/ UnregisterAndEnd(c)
        \/ ReadTimesOut(c)
    BY DEF Session, SessionStep, MoveSocket, InstallClose, Handshake, ReadDone,
       LimitExceeded, Handled, WriteDone, EndLimit, Live
  <1>3. QED
    BY <1>1, <1>2, BecomesStep, EndStep, TimeoutStep

\* A client connects.
LEMMA ConnectStep ==
    ASSUME IndInv, NEW c \in Conns, Connect(c)
    PROVE  IndInv'
  <1> USE ServerAssumption, LoopNames DEF IndInv, TypeOK, Live
  <1> USE DEF Connect, controlVars, loopVars
  <1>1. (ControlTypeOK /\ FlagsKnown)'
    BY DEF ControlTypeOK, FlagsKnown, StartsKnown
  <1>2. (LoopTypeOK /\ SessionTypeOK)'
    BY DEF LoopTypeOK, SessionTypeOK
  <1>3. (RegistryExact /\ SocketsOwned /\ HoldersKnown)'
    BY DEF ControlTypeOK, LoopTypeOK, SessionTypeOK, RegistryExact, SocketsOwned, HoldersKnown, StartsKnown
  <1>4. (ListenersKnown /\ StartsKnown)'
    BY DEF ControlTypeOK, LoopTypeOK, SessionTypeOK, ListenersKnown, StartsKnown, SocketsOwned, HoldersKnown
  <1>5. QED
    BY <1>1, <1>2, <1>3, <1>4 DEF IndInv, TypeOK

\* Every step preserves the invariant.
LEMMA NextIndInv == IndInv /\ [Next]_vars => IndInv'
  <1> SUFFICES ASSUME IndInv, [Next]_vars PROVE IndInv'
    OBVIOUS
  <1>1. CASE Start
    BY <1>1, StartStep
  <1>2. CASE BeginStop \/ Stop
    BY <1>2, StopStep
  <1>3. CASE AcceptLoop \/ AcceptFails
    BY <1>3, LoopStep
  <1>4. ASSUME NEW c \in Conns, Session(c) \/ Connect(c) PROVE IndInv'
    BY <1>4, SessionPreserves, ConnectStep
  <1>5. CASE UNCHANGED vars
    BY <1>5 DEF vars, IndInv, TypeOK, ControlTypeOK, LoopTypeOK, SessionTypeOK,
       RegistryExact, SocketsOwned, HoldersKnown, FlagsKnown, ListenersKnown, StartsKnown, Live
  <1>6. QED
    BY <1>1, <1>2, <1>3, <1>4, <1>5 DEF Next
-----------------------------------------------------------------------------
(* The theorems.                                                           *)

\* What Start, Stop, accept loops and sessions know of each other.
THEOREM IndInvAlways == SafeSpec => []IndInv
  BY InitIndInv, NextIndInv, PTL DEF SafeSpec

\* Every state variable stays in its range.
THEOREM TypeCorrect == SafeSpec => []TypeOK
  <1>1. IndInv => TypeOK
    BY DEF IndInv
  <1>2. QED
    BY <1>1, IndInvAlways, PTL

\* sessions_ is exact: every way out of a session unregisters it.
THEOREM RegistryCorrect == SafeSpec => []RegistryExact
  <1>1. IndInv => RegistryExact
    BY DEF IndInv
  <1>2. QED
    BY <1>1, IndInvAlways, PTL

\* Every socket the server holds open has an owner, and an accepted one only
\* one.
THEOREM SocketsHaveOwners == SafeSpec => []SocketsOwned
  <1>1. IndInv => SocketsOwned
    BY DEF IndInv
  <1>2. QED
    BY <1>1, IndInvAlways, PTL

\* A stopped server listens nowhere, also after a Start that failed halfway.
THEOREM Quiet == SafeSpec => []QuietWhenStopped
  <1>1. IndInv => QuietWhenStopped
    BY DEF IndInv, FlagsKnown, ListenersKnown, QuietWhenStopped
  <1>2. QED
    BY <1>1, IndInvAlways, PTL

\* Once Stop has reached the sessions, no step opens a socket.
LEMMA OpensNothing ==
    ASSUME IndInv, [Next]_vars, control \in {"closeSessions", "wait", "stopContext", "stopped"}
    PROVE  open' \subseteq open
  <1>1. \A l \in Loops : loop[l] # "accepting"
    BY DEF IndInv, ListenersKnown
  <1>2. CASE AcceptLoop \/ AcceptFails
    BY <1>1, <1>2 DEF AcceptLoop, LoopBegins, AcceptCompletes, RegisterAndSpawn, LoopEnds,
       AcceptFails, sessionVars
  <1>3. CASE Start \/ BeginStop \/ Stop
    BY <1>3 DEF Start, BeginStart, ListenHttp, ConfigureTls, ListenHttps, Launch, BeginStop,
       Stop, CloseHttp, CloseHttps, CloseSessions, WaitForSessions, StopContext, sessionVars
  <1>4. ASSUME NEW c \in Conns, Session(c) \/ Connect(c) PROVE open' \subseteq open
    BY <1>4 DEF Session, SessionStep, MoveSocket, InstallClose, Handshake, ReadDone,
       ReadTimesOut, LimitExceeded, Handled, WriteDone, EndLimit, Becomes, UnregisterAndEnd,
       Connect
  <1>5. CASE UNCHANGED vars
    BY <1>5 DEF vars
  <1>6. QED
    BY <1>2, <1>3, <1>4, <1>5 DEF Next

\* The server opens no socket from there on until it is started again.
THEOREM NothingOpens == SafeSpec => NothingOpensAfterStop
  <1>1. IndInv /\ [Next]_vars =>
            (control \in {"closeSessions", "wait", "stopContext", "stopped"} => open' \subseteq open)
    BY OpensNothing
  <1>2. QED
    BY <1>1, IndInvAlways, PTL DEF SafeSpec, NothingOpensAfterStop
=============================================================================
