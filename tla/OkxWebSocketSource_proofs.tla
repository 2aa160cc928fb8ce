---------------------- MODULE OkxWebSocketSource_proofs ----------------------
(***************************************************************************)
(* The threads of OkxWebSocketSource, for any number of host threads: the  *)
(* joins and the two locks keep every socket alive while it is used, every *)
(* worker joined before the next is spawned, and nothing of a session      *)
(* behind once disconnect() has returned.                                  *)
(***************************************************************************)
EXTENDS OkxWebSocketSource, TLAPS

ActiveLabels ==
    {"loop", "wait", "ping", "pinging", "kill", "killing", "teardown", "stopping"}

\* Each lock is held by the thread that is where the code holds it.
LocksHeld ==
    /\ \A c \in Caller :
        lifecycle = c <=>
            pc[c] \in {"guard", "reap", "reset", "announce", "spawn", "halt", "join"}
    /\ \A t \in Thread : mutex = t <=> Sending(t)

\* handle_ is there exactly while the worker owns a socket, a request is being
\* written only while it is there, and the callback thread lives only between
\* start() and the end of the final stop().
HandleHeld ==
    /\ handle <=> pc[Worker] \in ActiveLabels \cup {"start", "cleanup"}
    /\ mutex # Nobody => handle
    /\ pc[Callback] # "none" => pc[Worker] \in ActiveLabels

\* Between joining the old worker and spawning the next, there is none; and
\* stopRequested_ is cleared before the next one is spawned.
SlotHeld ==
    \A c \in Caller :
        /\ pc[c] \in {"reset", "announce", "spawn"} => pc[Worker] = "none"
        /\ pc[c] \in {"announce", "spawn"} => ~flags.stopRequested

\* A worker that was asked to stop is being joined.
StopHeld ==
    flags.stopRequested =>
        \/ pc[Worker] = "none"
        \/ \E c \in Caller : lifecycle = c /\ pc[c] = "join"

IInv == TypeOK /\ LocksHeld /\ HandleHeld /\ SlotHeld /\ StopHeld

USE ThreadAssumption

-----------------------------------------------------------------------------

LEMMA TypeInit == Init => TypeOK
<1> USE TimeoutAssumption
<1> SUFFICES ASSUME Init PROVE TypeOK
  OBVIOUS
<1>1. 0 \in 0..Deadline
  BY SMT DEF Deadline
<1> QED
  BY <1>1 DEF Init, TypeOK, NoFlags, Thread, CallerLabels, WorkerLabels, CallbackLabels

LEMMA TypeStep == TypeOK /\ [Next]_vars => TypeOK'
<1> SUFFICES ASSUME TypeOK, [Next]_vars PROVE TypeOK'
  OBVIOUS
<1>0. 0 \in 0..Deadline /\ Deadline \in Nat
  BY TimeoutAssumption, SMT DEF Deadline
<1> USE DEF TypeOK, Thread, CallerLabels, WorkerLabels, CallbackLabels, Goto, At, Locked
<1>1. ASSUME NEW c \in Caller, Call(c) PROVE TypeOK'
  BY <1>1 DEF Call
<1>2. ASSUME NEW c \in Caller, LockLifecycle(c) PROVE TypeOK'
  BY <1>2 DEF LockLifecycle
<1>3. ASSUME NEW c \in Caller, AlreadyConnected(c) PROVE TypeOK'
  BY <1>3 DEF AlreadyConnected
<1>4. ASSUME NEW c \in Caller, NeedsSession(c) PROVE TypeOK'
  BY <1>4 DEF NeedsSession
<1>5. ASSUME NEW c \in Caller, Reap(c) PROVE TypeOK'
  BY <1>5 DEF Reap, WorkerDone
<1>6. ASSUME NEW c \in Caller, Reset(c) PROVE TypeOK'
  BY <1>6 DEF Reset, NoFlags
<1>7. ASSUME NEW c \in Caller, Announce(c) PROVE TypeOK'
  BY <1>7 DEF Announce
<1>8. ASSUME NEW c \in Caller, Spawn(c) PROVE TypeOK'
  BY <1>8 DEF Spawn
<1>9. ASSUME NEW c \in Caller, Halt(c) PROVE TypeOK'
  BY <1>9 DEF Halt
<1>10. ASSUME NEW c \in Caller, Join(c) PROVE TypeOK'
  BY <1>10 DEF Join, WorkerDone
<1>11. ASSUME NEW t \in Thread, Resubscribe(t) PROVE TypeOK'
  BY <1>11 DEF Resubscribe, Returned
<1>12. ASSUME NEW t \in Thread, Send(t) PROVE TypeOK'
  BY <1>12 DEF Send, WantsToSend, During
<1>13. ASSUME NEW t \in Thread, NothingToSendOn(t) PROVE TypeOK'
  BY <1>13 DEF NothingToSendOn, WantsToSend, AfterSend, Returned
<1>14. ASSUME NEW t \in Thread, Sent(t) PROVE TypeOK'
  BY <1>14 DEF Sent, Sending, AfterSend, Returned
<1>15. CASE Install
  BY <1>15 DEF Install
<1>16. CASE StartSocket
  BY <1>16 DEF StartSocket
<1>17. CASE TestLoop
  BY <1>17 DEF TestLoop
<1>18. CASE WakeToRetire
  BY <1>18 DEF WakeToRetire
<1>19. CASE WakeToPing
  BY <1>19 DEF WakeToPing, Supervising
<1>20. CASE WakeToKill
  BY <1>20 DEF WakeToKill, Supervising
<1>21. CASE Stop
  BY <1>21 DEF Stop
<1>22. CASE Stopped
  BY <1>22 DEF Stopped, Stopping
<1>23. CASE Cleanup
  BY <1>23 DEF Cleanup
<1>24. CASE Opened
  BY <1>24 DEF Opened
<1>25. CASE EmitConnected
  BY <1>25 DEF EmitConnected
<1>26. CASE Pong
  BY <1>26 DEF Pong
<1>27. CASE Notice
  BY <1>27 DEF Notice
<1>28. CASE Closed
  BY <1>28 DEF Closed
<1>29. CASE EmitDisconnected
  BY <1>29 DEF EmitDisconnected
<1>30. CASE HandlerReturns
  BY <1>30 DEF HandlerReturns, Returned
<1>31. CASE Handshake
  BY <1>0, <1>31 DEF Handshake
<1>32. CASE Receive
  BY <1>0, <1>32 DEF Receive
<1>33. CASE Close
  BY <1>33 DEF Close
<1>34. CASE Abandon
  BY <1>34 DEF Abandon, Stopping
<1>35. CASE Elapse
  BY <1>0, <1>35 DEF Elapse, Deadline
<1>36. CASE UNCHANGED vars
  BY <1>36 DEF vars
<1> QED
  BY <1>1, <1>2, <1>3, <1>4, <1>5, <1>6, <1>7, <1>8, <1>9, <1>10,
     <1>11, <1>12, <1>13, <1>14, <1>15, <1>16, <1>17, <1>18, <1>19,
     <1>20, <1>21, <1>22, <1>23, <1>24, <1>25, <1>26, <1>27, <1>28,
     <1>29, <1>30, <1>31, <1>32, <1>33, <1>34, <1>35, <1>36
  DEF Next, CallerStep, WorkerStep, CallbackStep, SocketStep, RequestStep

LEMMA IInvInit == Init => IInv
<1> SUFFICES ASSUME Init PROVE IInv
  OBVIOUS
<1>1. TypeOK
  BY TypeInit
<1>2. LocksHeld /\ HandleHeld /\ SlotHeld /\ StopHeld
  BY DEF Init, LocksHeld, HandleHeld, SlotHeld, StopHeld, Sending, ActiveLabels, NoFlags, Thread
<1> QED
  BY <1>1, <1>2 DEF IInv

LEMMA IInvStep == IInv /\ [Next]_vars => IInv'
<1> SUFFICES ASSUME IInv, [Next]_vars PROVE (LocksHeld /\ HandleHeld /\ SlotHeld /\ StopHeld)'
  BY TypeStep DEF IInv
<1> USE DEF IInv, TypeOK, CallerLabels, WorkerLabels, CallbackLabels, Thread, Goto, At,
         Locked, LocksHeld, HandleHeld, SlotHeld, StopHeld, Sending, ActiveLabels
<1>1. ASSUME NEW c \in Caller, Call(c) PROVE (LocksHeld /\ HandleHeld /\ SlotHeld /\ StopHeld)'
  BY <1>1 DEF Call
<1>2. ASSUME NEW c \in Caller, LockLifecycle(c) PROVE (LocksHeld /\ HandleHeld /\ SlotHeld /\ StopHeld)'
  BY <1>2 DEF LockLifecycle
<1>3. ASSUME NEW c \in Caller, AlreadyConnected(c) PROVE (LocksHeld /\ HandleHeld /\ SlotHeld /\ StopHeld)'
  BY <1>3 DEF AlreadyConnected
<1>4. ASSUME NEW c \in Caller, NeedsSession(c) PROVE (LocksHeld /\ HandleHeld /\ SlotHeld /\ StopHeld)'
  BY <1>4 DEF NeedsSession
<1>5. ASSUME NEW c \in Caller, Reap(c) PROVE (LocksHeld /\ HandleHeld /\ SlotHeld /\ StopHeld)'
  BY <1>5 DEF Reap, WorkerDone
<1>6. ASSUME NEW c \in Caller, Reset(c) PROVE (LocksHeld /\ HandleHeld /\ SlotHeld /\ StopHeld)'
  BY <1>6 DEF Reset, NoFlags
<1>7. ASSUME NEW c \in Caller, Announce(c) PROVE (LocksHeld /\ HandleHeld /\ SlotHeld /\ StopHeld)'
  BY <1>7 DEF Announce
<1>8. ASSUME NEW c \in Caller, Spawn(c) PROVE (LocksHeld /\ HandleHeld /\ SlotHeld /\ StopHeld)'
  BY <1>8 DEF Spawn
<1>9. ASSUME NEW c \in Caller, Halt(c) PROVE (LocksHeld /\ HandleHeld /\ SlotHeld /\ StopHeld)'
  BY <1>9 DEF Halt
<1>10. ASSUME NEW c \in Caller, Join(c) PROVE (LocksHeld /\ HandleHeld /\ SlotHeld /\ StopHeld)'
  BY <1>10 DEF Join, WorkerDone
<1>11. ASSUME NEW t \in Thread, Resubscribe(t) PROVE (LocksHeld /\ HandleHeld /\ SlotHeld /\ StopHeld)'
  BY <1>11 DEF Resubscribe, Returned
<1>12. ASSUME NEW t \in Thread, Send(t) PROVE (LocksHeld /\ HandleHeld /\ SlotHeld /\ StopHeld)'
  BY <1>12 DEF Send, WantsToSend, During
<1>13. ASSUME NEW t \in Thread, NothingToSendOn(t) PROVE (LocksHeld /\ HandleHeld /\ SlotHeld /\ StopHeld)'
  BY <1>13 DEF NothingToSendOn, WantsToSend, AfterSend, Returned
<1>14. ASSUME NEW t \in Thread, Sent(t) PROVE (LocksHeld /\ HandleHeld /\ SlotHeld /\ StopHeld)'
  BY <1>14 DEF Sent, Sending, AfterSend, Returned
<1>15. CASE Install
  BY <1>15 DEF Install
<1>16. CASE StartSocket
  BY <1>16 DEF StartSocket
<1>17. CASE TestLoop
  BY <1>17 DEF TestLoop
<1>18. CASE WakeToRetire
  BY <1>18 DEF WakeToRetire
<1>19. CASE WakeToPing
  BY <1>19 DEF WakeToPing, Supervising
<1>20. CASE WakeToKill
  BY <1>20 DEF WakeToKill, Supervising
<1>21. CASE Stop
  BY <1>21 DEF Stop
<1>22. CASE Stopped
  BY <1>22 DEF Stopped, Stopping
<1>23. CASE Cleanup
  BY <1>23 DEF Cleanup
<1>24. CASE Opened
  BY <1>24 DEF Opened
<1>25. CASE EmitConnected
  BY <1>25 DEF EmitConnected
<1>26. CASE Pong
  BY <1>26 DEF Pong
<1>27. CASE Notice
  BY <1>27 DEF Notice
<1>28. CASE Closed
  BY <1>28 DEF Closed
<1>29. CASE EmitDisconnected
  BY <1>29 DEF EmitDisconnected
<1>30. CASE HandlerReturns
  BY <1>30 DEF HandlerReturns, Returned
<1>31. CASE Handshake
  BY <1>31 DEF Handshake
<1>32. CASE Receive
  BY <1>32 DEF Receive
<1>33. CASE Close
  BY <1>33 DEF Close
<1>34. CASE Abandon
  BY <1>34 DEF Abandon, Stopping
<1>35. CASE Elapse
  BY <1>35 DEF Elapse, Deadline
<1>36. CASE UNCHANGED vars
  BY <1>36 DEF vars
<1> QED
  BY <1>1, <1>2, <1>3, <1>4, <1>5, <1>6, <1>7, <1>8, <1>9, <1>10,
     <1>11, <1>12, <1>13, <1>14, <1>15, <1>16, <1>17, <1>18, <1>19,
     <1>20, <1>21, <1>22, <1>23, <1>24, <1>25, <1>26, <1>27, <1>28,
     <1>29, <1>30, <1>31, <1>32, <1>33, <1>34, <1>35, <1>36
  DEF Next, CallerStep, WorkerStep, CallbackStep, SocketStep, RequestStep

-----------------------------------------------------------------------------

\* Type correctness of the source's threads, for any number of host threads and
\* any timeouts.
THEOREM SourceTypeCorrect == Spec => []TypeOK
<1> QED
  BY TypeInit, TypeStep, PTL DEF Spec

LEMMA IInvImplies ==
    IInv => SocketOutlivesItsUsers /\ ReapingIsExclusive /\ QuietAfterDisconnect
<1> SUFFICES ASSUME IInv
             PROVE SocketOutlivesItsUsers /\ ReapingIsExclusive /\ QuietAfterDisconnect
  OBVIOUS
<1> USE DEF IInv, ActiveLabels
<1>1. SocketOutlivesItsUsers
  BY DEF HandleHeld, SocketOutlivesItsUsers
<1>2. ReapingIsExclusive
  BY DEF LocksHeld, SlotHeld, ReapingIsExclusive
<1>3. QuietAfterDisconnect
  BY DEF StopHeld, HandleHeld, QuietAfterDisconnect, Thread
<1> QED
  BY <1>1, <1>2, <1>3

LEMMA IInvHolds == Spec => []IInv
<1> QED
  BY IInvInit, IInvStep, PTL DEF Spec

\* A socket is destroyed only when no request is being written to it and its
\* callback thread is gone, however many host threads call at once.
THEOREM SocketSafe == Spec => []SocketOutlivesItsUsers
<1> QED
  BY IInvHolds, IInvImplies, PTL

\* No two threads reap the same worker, and none is spawned over a worker that
\* was not joined, however many host threads call at once.
THEOREM ReapingSafe == Spec => []ReapingIsExclusive
<1> QED
  BY IInvHolds, IInvImplies, PTL

\* Nothing of a session is left when disconnect() has returned.
THEOREM DisconnectIsQuiet == Spec => []QuietAfterDisconnect
<1> QED
  BY IInvHolds, IInvImplies, PTL

-----------------------------------------------------------------------------
(***************************************************************************)
(* The promise of FeedSource.                                              *)
(***************************************************************************)

\* What the client was last told fits where the callback thread is, and it is
\* never left with a session established that has no callback thread.
ReportedFits ==
    /\ pc[Worker] \in {"setup", "start"} => reported = "Connecting"
    /\ \A c \in Caller : pc[c] = "spawn" => reported = "Connecting"
    /\ pc[Callback] = "none" => reported # "Connected"
    /\ pc[Callback] = "idle" =>
        \/ socket = "connecting" /\ reported = "Connecting"
        \/ socket = "open" /\ reported = "Connected"
    /\ pc[Callback] \in {"open", "subscribe", "subscribing", "opened"} =>
        socket = "open" /\ reported = "Connecting"
    /\ pc[Callback] \in {"pong", "notice"} =>
        socket = "open" /\ reported = "Connected"
    /\ pc[Callback] \in {"closed", "terminal"} =>
        socket = "closed" /\ reported # "Disconnected"
    /\ InHandler =>
        \/ socket = "open" /\ reported = "Connected"
        \/ socket = "closed" /\ reported = "Disconnected"

CInv == IInv /\ ReportedFits

LEMMA ReportedInit == Init => ReportedFits
  BY DEF Init, ReportedFits, InHandler, Thread

LEMMA ReportedStep == CInv /\ [Next]_vars => ReportedFits'
<1> SUFFICES ASSUME CInv, [Next]_vars PROVE ReportedFits'
  OBVIOUS
<1> USE DEF CInv, IInv, TypeOK, CallerLabels, WorkerLabels, CallbackLabels, Thread, Goto, At,
         Locked, LocksHeld, HandleHeld, SlotHeld, Sending, ActiveLabels, ReportedFits, InHandler
<1>1. ASSUME NEW c \in Caller, Call(c) PROVE ReportedFits'
  BY <1>1 DEF Call
<1>2. ASSUME NEW c \in Caller, LockLifecycle(c) PROVE ReportedFits'
  BY <1>2 DEF LockLifecycle
<1>3. ASSUME NEW c \in Caller, AlreadyConnected(c) PROVE ReportedFits'
  BY <1>3 DEF AlreadyConnected
<1>4. ASSUME NEW c \in Caller, NeedsSession(c) PROVE ReportedFits'
  BY <1>4 DEF NeedsSession
<1>5. ASSUME NEW c \in Caller, Reap(c) PROVE ReportedFits'
  BY <1>5 DEF Reap, WorkerDone
<1>6. ASSUME NEW c \in Caller, Reset(c) PROVE ReportedFits'
  BY <1>6 DEF Reset, NoFlags
<1>7. ASSUME NEW c \in Caller, Announce(c) PROVE ReportedFits'
  BY <1>7 DEF Announce
<1>8. ASSUME NEW c \in Caller, Spawn(c) PROVE ReportedFits'
  BY <1>8 DEF Spawn
<1>9. ASSUME NEW c \in Caller, Halt(c) PROVE ReportedFits'
  BY <1>9 DEF Halt
<1>10. ASSUME NEW c \in Caller, Join(c) PROVE ReportedFits'
  BY <1>10 DEF Join, WorkerDone
<1>11. ASSUME NEW t \in Thread, Resubscribe(t) PROVE ReportedFits'
  BY <1>11 DEF Resubscribe, Returned
<1>12. ASSUME NEW t \in Thread, Send(t) PROVE ReportedFits'
  BY <1>12 DEF Send, WantsToSend, During
<1>13. ASSUME NEW t \in Thread, NothingToSendOn(t) PROVE ReportedFits'
  BY <1>13 DEF NothingToSendOn, WantsToSend, AfterSend, Returned
<1>14. ASSUME NEW t \in Thread, Sent(t) PROVE ReportedFits'
  BY <1>14 DEF Sent, Sending, AfterSend, Returned
<1>15. CASE Install
  BY <1>15 DEF Install
<1>16. CASE StartSocket
  BY <1>16 DEF StartSocket
<1>17. CASE TestLoop
  BY <1>17 DEF TestLoop
<1>18. CASE WakeToRetire
  BY <1>18 DEF WakeToRetire
<1>19. CASE WakeToPing
  BY <1>19 DEF WakeToPing, Supervising
<1>20. CASE WakeToKill
  BY <1>20 DEF WakeToKill, Supervising
<1>21. CASE Stop
  BY <1>21 DEF Stop
<1>22. CASE Stopped
  BY <1>22 DEF Stopped, Stopping
<1>23. CASE Cleanup
  BY <1>23 DEF Cleanup
<1>24. CASE Opened
  BY <1>24 DEF Opened
<1>25. CASE EmitConnected
  BY <1>25 DEF EmitConnected
<1>26. CASE Pong
  BY <1>26 DEF Pong
<1>27. CASE Notice
  BY <1>27 DEF Notice
<1>28. CASE Closed
  BY <1>28 DEF Closed
<1>29. CASE EmitDisconnected
  BY <1>29 DEF EmitDisconnected
<1>30. CASE HandlerReturns
  BY <1>30 DEF HandlerReturns, Returned
<1>31. CASE Handshake
  BY <1>31 DEF Handshake
<1>32. CASE Receive
  BY <1>32 DEF Receive
<1>33. CASE Close
  BY <1>33 DEF Close
<1>34. CASE Abandon
  BY <1>34 DEF Abandon, Stopping
<1>35. CASE Elapse
  BY <1>35 DEF Elapse, Deadline
<1>36. CASE UNCHANGED vars
  BY <1>36 DEF vars
<1> QED
  BY <1>1, <1>2, <1>3, <1>4, <1>5, <1>6, <1>7, <1>8, <1>9, <1>10,
     <1>11, <1>12, <1>13, <1>14, <1>15, <1>16, <1>17, <1>18, <1>19,
     <1>20, <1>21, <1>22, <1>23, <1>24, <1>25, <1>26, <1>27, <1>28,
     <1>29, <1>30, <1>31, <1>32, <1>33, <1>34, <1>35, <1>36
  DEF Next, CallerStep, WorkerStep, CallbackStep, SocketStep, RequestStep

LEMMA ContractStep == CInv /\ [Next]_vars => [Promised!Next]_(Promised!sourceVars)
<1> SUFFICES ASSUME CInv, [Next]_vars PROVE Promised!Next \/ UNCHANGED <<Session, InHandler>>
  BY DEF Promised!sourceVars
<1> USE DEF CInv, IInv, TypeOK, CallerLabels, WorkerLabels, CallbackLabels, Thread, Goto, At,
         Locked, LocksHeld, HandleHeld, SlotHeld, Sending, ActiveLabels, ReportedFits, InHandler,
         Session, WorkerDone, Promised!Next, Promised!Connecting, Promised!Connected,
         Promised!Frame, Promised!Disconnected, Promised!Abandon, Promised!HandlerReturns
<1>1. ASSUME NEW c \in Caller, Call(c) PROVE Promised!Next \/ UNCHANGED <<Session, InHandler>>
  BY <1>1 DEF Call
<1>2. ASSUME NEW c \in Caller, LockLifecycle(c) PROVE Promised!Next \/ UNCHANGED <<Session, InHandler>>
  BY <1>2 DEF LockLifecycle
<1>3. ASSUME NEW c \in Caller, AlreadyConnected(c) PROVE Promised!Next \/ UNCHANGED <<Session, InHandler>>
  BY <1>3 DEF AlreadyConnected
<1>4. ASSUME NEW c \in Caller, NeedsSession(c) PROVE Promised!Next \/ UNCHANGED <<Session, InHandler>>
  BY <1>4 DEF NeedsSession
<1>5. ASSUME NEW c \in Caller, Reap(c) PROVE Promised!Next \/ UNCHANGED <<Session, InHandler>>
  BY <1>5 DEF Reap, WorkerDone
<1>6. ASSUME NEW c \in Caller, Reset(c) PROVE Promised!Next \/ UNCHANGED <<Session, InHandler>>
  BY <1>6 DEF Reset, NoFlags
<1>7. ASSUME NEW c \in Caller, Announce(c) PROVE Promised!Next \/ UNCHANGED <<Session, InHandler>>
  BY <1>7 DEF Announce
<1>8. ASSUME NEW c \in Caller, Spawn(c) PROVE Promised!Next \/ UNCHANGED <<Session, InHandler>>
  BY <1>8 DEF Spawn
<1>9. ASSUME NEW c \in Caller, Halt(c) PROVE Promised!Next \/ UNCHANGED <<Session, InHandler>>
  BY <1>9 DEF Halt
<1>10. ASSUME NEW c \in Caller, Join(c) PROVE Promised!Next \/ UNCHANGED <<Session, InHandler>>
  BY <1>10 DEF Join, WorkerDone
<1>11. ASSUME NEW t \in Thread, Resubscribe(t) PROVE Promised!Next \/ UNCHANGED <<Session, InHandler>>
  BY <1>11 DEF Resubscribe, Returned
<1>12. ASSUME NEW t \in Thread, Send(t) PROVE Promised!Next \/ UNCHANGED <<Session, InHandler>>
  BY <1>12 DEF Send, WantsToSend, During
<1>13. ASSUME NEW t \in Thread, NothingToSendOn(t) PROVE Promised!Next \/ UNCHANGED <<Session, InHandler>>
  BY <1>13 DEF NothingToSendOn, WantsToSend, AfterSend, Returned
<1>14. ASSUME NEW t \in Thread, Sent(t) PROVE Promised!Next \/ UNCHANGED <<Session, InHandler>>
  BY <1>14 DEF Sent, Sending, AfterSend, Returned
<1>15. CASE Install
  BY <1>15 DEF Install
<1>16. CASE StartSocket
  BY <1>16 DEF StartSocket
<1>17. CASE TestLoop
  BY <1>17 DEF TestLoop
<1>18. CASE WakeToRetire
  BY <1>18 DEF WakeToRetire
<1>19. CASE WakeToPing
  BY <1>19 DEF WakeToPing, Supervising
<1>20. CASE WakeToKill
  BY <1>20 DEF WakeToKill, Supervising
<1>21. CASE Stop
  BY <1>21 DEF Stop
<1>22. CASE Stopped
  BY <1>22 DEF Stopped, Stopping
<1>23. CASE Cleanup
  BY <1>23 DEF Cleanup
<1>24. CASE Opened
  BY <1>24 DEF Opened
<1>25. CASE EmitConnected
  BY <1>25 DEF EmitConnected
<1>26. CASE Pong
  BY <1>26 DEF Pong
<1>27. CASE Notice
  BY <1>27 DEF Notice
<1>28. CASE Closed
  BY <1>28 DEF Closed
<1>29. CASE EmitDisconnected
  BY <1>29 DEF EmitDisconnected
<1>30. CASE HandlerReturns
  BY <1>30 DEF HandlerReturns, Returned
<1>31. CASE Handshake
  BY <1>31 DEF Handshake
<1>32. CASE Receive
  BY <1>32 DEF Receive
<1>33. CASE Close
  BY <1>33 DEF Close
<1>34. CASE Abandon
  BY <1>34 DEF Abandon, Stopping
<1>35. CASE Elapse
  BY <1>35 DEF Elapse, Deadline
<1>36. CASE UNCHANGED vars
  BY <1>36 DEF vars
<1> QED
  BY <1>1, <1>2, <1>3, <1>4, <1>5, <1>6, <1>7, <1>8, <1>9, <1>10,
     <1>11, <1>12, <1>13, <1>14, <1>15, <1>16, <1>17, <1>18, <1>19,
     <1>20, <1>21, <1>22, <1>23, <1>24, <1>25, <1>26, <1>27, <1>28,
     <1>29, <1>30, <1>31, <1>32, <1>33, <1>34, <1>35, <1>36
  DEF Next, CallerStep, WorkerStep, CallbackStep, SocketStep, RequestStep

\* The threads and locks of OkxWebSocketSource implement the promise of
\* FeedSource, however many host threads call at once.
THEOREM SourceImplementsContract == Spec => Contract
<1>1. Init => Promised!Init
  BY DEF Init, Promised!Init, Session, InHandler, Thread
<1>2. CInv /\ [Next]_vars => CInv'
  BY IInvStep, ReportedStep DEF CInv
<1>3. Init => CInv
  BY IInvInit, ReportedInit DEF CInv
<1> QED
  BY <1>1, <1>2, <1>3, ContractStep, PTL DEF Spec, Contract, Promised!Spec
=============================================================================
