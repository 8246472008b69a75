-------------------------- MODULE ApplicationProofs --------------------------
(***************************************************************************)
(* Consistent is an inductive invariant of Application for any sets of      *)
(* processes and names and any misbehaviour of containers and backend.      *)
(* Working, for processes that at most crash, is built on it; Counted, for  *)
(* processes that send no ProcessClosure, is about the counters.            *)
(* One lemma per action; under it one step for the conjuncts the action     *)
(* leaves alone and one for each conjunct it can disturb.                   *)
(***************************************************************************)
EXTENDS Application, FiniteSetTheorems, TLAPS

\* The object is fresh: nothing refers to it yet.
LEMMA AddProcessPreserves ==
  ASSUME NEW n \in Names, NEW p \in Procs, Consistent, AddProcess(n, p)
  PROVE  Consistent'
<1> USE ApplicationAssumption DEF Consistent, AddProcess, procVars, appVars, tcpVars, envVars, wVars, ioVars
<1>1. TypeOK'
  BY DEF TypeOK, PtrOf, Status, WorkerPc, IoPc, PeerState
<1>2. Named'
  BY DEF Named, TypeOK, PtrOf, Status, WorkerPc, IoPc, PeerState
<1>3. WaitingOnce'
  <2>1. \A i \in 1..Len(loopTasks) : loopTasks[i] # p
    BY DEF TypeOK, PendingIsFresh
  <2>2. Len(loopTasks') = Len(loopTasks) + 1
    BY DEF TypeOK
  <2>3. \A i \in 1..Len(loopTasks') :
          loopTasks'[i] = IF i = Len(loopTasks) + 1 THEN p ELSE loopTasks[i]
    BY DEF TypeOK
  <2>4. \A m \in Names : pendingProcs[m] # p
    BY DEF TypeOK, PendingIsFresh
  <2> QED BY <2>1, <2>2, <2>3, <2>4 DEF TypeOK, PtrOf, WaitingOnce
<1>4. Linked'
  BY DEF Linked, TypeOK, PtrOf, Status, WorkerPc, IoPc, PeerState, Named
<1>5. ThreadsAgree'
  BY DEF ThreadsAgree, TypeOK, PtrOf, Status, WorkerPc, IoPc, PeerState, Named,
    ActiveFree, ActiveReader, ActiveWriter, ProcLocked
<1>6. SwappedHasLocation'
  BY DEF SwappedHasLocation, TypeOK, PtrOf, Status, WorkerPc, IoPc, PeerState, Named
<1>7. PendingIsFresh'
  BY DEF PendingIsFresh, TypeOK, PtrOf, Status, WorkerPc, IoPc, PeerState, Named, Linked
<1>8. OneConnection' /\ LocksExclude'
  BY DEF OneConnection, LocksExclude, ActiveFree, ActiveReader, ActiveWriter, ProcLocked
<1> QED BY <1>1, <1>2, <1>3, <1>4, <1>5, <1>6, <1>7, <1>8

\* The object moves from the queue to the pending map.
LEMMA PollerAddProcessPreserves ==
  ASSUME Consistent, PollerAddProcess
  PROVE  Consistent'
<1> USE ApplicationAssumption DEF Consistent, PollerAddProcess, procVars, appVars, tcpVars, envVars, wVars, ioVars
<1>1. TypeOK'
  <2>1. Head(loopTasks) \in Procs /\ Tail(loopTasks) \in Seq(Procs)
    BY DEF TypeOK
  <2> QED BY <2>1 DEF TypeOK, PtrOf
<1>2. Named'
  BY DEF Named
<1>3. WaitingOnce'
  BY DEF WaitingOnce, TypeOK, PtrOf, Status, WorkerPc, IoPc, PeerState, PendingIsFresh,
    Named
<1>4. Linked' /\ ThreadsAgree' /\ SwappedHasLocation'
  BY DEF Linked, ThreadsAgree, SwappedHasLocation
<1>5. PendingIsFresh'
  BY DEF PendingIsFresh, TypeOK, PtrOf, Status, WorkerPc, IoPc, PeerState, WaitingOnce
<1>6. OneConnection' /\ LocksExclude'
  BY DEF OneConnection, LocksExclude, ActiveFree, ActiveReader, ActiveWriter, ProcLocked
<1> QED BY <1>1, <1>2, <1>3, <1>4, <1>5, <1>6

\* Only the answer changes.
LEMMA BackendCreatedPreserves ==
  ASSUME NEW p \in Procs, Consistent, BackendCreated(p)
  PROVE  Consistent'
<1> USE ApplicationAssumption DEF Consistent, BackendCreated, procVars, appVars, tcpVars, envVars, wVars, ioVars
<1>1. TypeOK'
  BY DEF TypeOK, PtrOf, Status, WorkerPc, IoPc, PeerState
<1>2. Named'
  BY DEF Named
<1>3. WaitingOnce' /\ Linked' /\ ThreadsAgree' /\ SwappedHasLocation' /\ PendingIsFresh' /\ OneConnection' /\ LocksExclude'
  BY DEF WaitingOnce, Linked, ThreadsAgree, SwappedHasLocation, PendingIsFresh,
    OneConnection, LocksExclude, TypeOK, PtrOf, Status, WorkerPc, IoPc, PeerState,
    ActiveFree, ActiveReader, ActiveWriter, ProcLocked
<1> QED BY <1>1, <1>2, <1>3

\* An entry leaves the active collection while no thread reads it.
LEMMA BackendFailedPreserves ==
  ASSUME NEW p \in Procs, Consistent, BackendFailed(p)
  PROVE  Consistent'
<1> USE ApplicationAssumption DEF Consistent, BackendFailed, EraseStored, procVars, appVars, tcpVars, envVars, wVars, ioVars
<1>1. TypeOK'
  BY DEF TypeOK, PtrOf, Status, WorkerPc, IoPc, PeerState
<1>2. Named'
  BY DEF Named, TypeOK, PtrOf, Status, WorkerPc, IoPc, PeerState
<1>3. WaitingOnce'
  BY DEF WaitingOnce
<1>4. Linked'
  <2>1. \A n \in Names : active'[n] # NoProc => active'[n] = active[n]
    BY DEF TypeOK
  <2> QED BY <2>1 DEF TypeOK, Linked
<1>5. ThreadsAgree'
  BY DEF ThreadsAgree, TypeOK, PtrOf, Status, WorkerPc, IoPc, PeerState, ActiveFree,
    ActiveReader, ActiveWriter, ProcLocked
<1>6. SwappedHasLocation'
  BY DEF SwappedHasLocation, TypeOK, PtrOf, Status, WorkerPc, IoPc, PeerState
<1>7. PendingIsFresh' /\ OneConnection' /\ LocksExclude'
  BY DEF PendingIsFresh, OneConnection, LocksExclude, ActiveFree, ActiveReader,
    ActiveWriter, ProcLocked
<1> QED BY <1>1, <1>2, <1>3, <1>4, <1>5, <1>6, <1>7

\* Only the peer changes.
LEMMA ContainerStartPreserves ==
  ASSUME NEW c \in Procs, Consistent, ContainerStart(c)
  PROVE  Consistent'
<1> USE ApplicationAssumption DEF Consistent, ContainerStart, procVars, appVars, tcpVars, envVars, wVars, ioVars
<1>1. TypeOK'
  BY DEF TypeOK, PtrOf, Status, WorkerPc, IoPc, PeerState
<1>2. Named'
  BY DEF Named, TypeOK, PtrOf, Status, WorkerPc, IoPc, PeerState
<1>3. WaitingOnce' /\ Linked' /\ ThreadsAgree' /\ SwappedHasLocation' /\ PendingIsFresh' /\ OneConnection' /\ LocksExclude'
  BY DEF WaitingOnce, Linked, ThreadsAgree, SwappedHasLocation, PendingIsFresh,
    OneConnection, LocksExclude, TypeOK, PtrOf, Status, WorkerPc, IoPc, PeerState,
    ActiveFree, ActiveReader, ActiveWriter, ProcLocked
<1> QED BY <1>1, <1>2, <1>3

\* Only the peer and a counter change.
LEMMA AcceptPreserves ==
  ASSUME NEW c \in Procs, Consistent, Accept(c)
  PROVE  Consistent'
<1> USE ApplicationAssumption DEF Consistent, Accept, procVars, appVars, tcpVars, envVars, wVars, ioVars
<1>1. TypeOK'
  BY DEF TypeOK, PtrOf, Status, WorkerPc, IoPc, PeerState
<1>2. Named'
  BY DEF Named, TypeOK, PtrOf, Status, WorkerPc, IoPc, PeerState
<1>3. WaitingOnce' /\ Linked' /\ ThreadsAgree' /\ SwappedHasLocation' /\ PendingIsFresh' /\ OneConnection' /\ LocksExclude'
  BY DEF WaitingOnce, Linked, ThreadsAgree, SwappedHasLocation, PendingIsFresh,
    OneConnection, LocksExclude, TypeOK, PtrOf, Status, WorkerPc, IoPc, PeerState,
    ActiveFree, ActiveReader, ActiveWriter, ProcLocked
<1> QED BY <1>1, <1>2, <1>3

\* A pending object becomes the context of the connection that asks for its name.
LEMMA HandleConnectionPreserves ==
  ASSUME NEW c \in Procs, Consistent, HandleConnection(c)
  PROVE  Consistent'
<1> USE ApplicationAssumption DEF Consistent, HandleConnection, Connect, procVars, appVars, tcpVars, envVars, wVars, ioVars
<1>1. name[c] \in Names /\ pendingProcs[name[c]] \in PtrOf(Procs)
  BY DEF TypeOK, Named, PtrOf
<1>2. CASE pendingProcs[name[c]] = NoProc
  <2>1. TypeOK'
    BY <1>1, <1>2 DEF TypeOK, PeerState
  <2>2. Named'
    BY <1>1, <1>2 DEF TypeOK, Named
  <2> QED
    BY <1>1, <1>2, <2>1, <2>2 DEF WaitingOnce, Linked, ThreadsAgree, SwappedHasLocation,
       PendingIsFresh, OneConnection, LocksExclude, ActiveReader, ActiveWriter
<1>3. CASE pendingProcs[name[c]] # NoProc
  <2> DEFINE p == pendingProcs[name[c]]
  <2>1. p \in Procs /\ status[p] = "ALLOCATING" /\ \A d \in Procs : context[d] # p
    BY <1>1, <1>3 DEF PtrOf, PendingIsFresh
  <2>2. /\ pendingProcs' = [pendingProcs EXCEPT ![name[c]] = NoProc]
        /\ context' = [context EXCEPT ![c] = p]
        /\ connection' = [connection EXCEPT ![p] = c]
        /\ status' = [status EXCEPT ![p] = "ALLOCATED"]
        /\ numRegistered' = numRegistered + 1
        /\ peer' = [peer EXCEPT ![c] = "announced"]
        /\ UNCHANGED <<name, swapLoc, appVars, loopTasks, numConnected, answer,
                       swapAsked, wVars, ioVars, fault>>
    BY <2>1, <1>3
  <2> HIDE DEF p
  <2> USE <1>1, <2>1, <2>2
  <2>3. TypeOK'
    BY DEF TypeOK, PtrOf, Status, PeerState
  <2>4. Named'
    BY DEF TypeOK, Named
  <2>5. WaitingOnce'
    BY DEF TypeOK, WaitingOnce
  <2>6. Linked'
    BY DEF TypeOK, Named, Linked
  <2>7. ThreadsAgree'
    BY DEF TypeOK, ThreadsAgree
  <2>8. SwappedHasLocation'
    BY DEF SwappedHasLocation
  <2>9. PendingIsFresh'
    BY DEF TypeOK, PendingIsFresh, WaitingOnce, p
  <2>10. OneConnection'
    BY DEF TypeOK, OneConnection
  <2>11. LocksExclude'
    BY DEF LocksExclude, ActiveReader, ActiveWriter
  <2> QED
    BY <2>3, <2>4, <2>5, <2>6, <2>7, <2>8, <2>9, <2>10, <2>11
<1> QED BY <1>1, <1>2, <1>3

\* Thread c, which was idle, enters closed_process with the context of its connection.
LEMMA DisconnectPreserves ==
  ASSUME NEW c \in Procs, Consistent, Disconnect(c)
  PROVE  Consistent'
<1> USE ApplicationAssumption DEF Consistent, Disconnect, HandleDisconnection, IoAt, procVars, appVars, tcpVars, envVars, wVars, ioVars
<1>1. ioPc' \in [Procs -> IoPc] /\ ioProc' \in [Procs -> PtrOf(Procs)]
  BY SMTT(30) DEF TypeOK, IoPc, PtrOf
<1>2. /\ \A d \in Procs \ {c} : ioPc'[d] = ioPc[d] /\ ioProc'[d] = ioProc[d]
      /\ ioPc'[c] \in {"idle", "closed_lock"}
      /\ ioPc'[c] = "closed_lock" => ioProc'[c] = context[c] /\ context[c] # NoProc
  BY DEF TypeOK
<1>3. TypeOK'
  <2>1. numConnected' \in Int /\ numRegistered' \in Int
    BY DEF TypeOK
  <2> QED BY <1>1, <2>1 DEF TypeOK, PeerState
<1>4. Named'
  BY DEF Named, TypeOK, PtrOf, Status, WorkerPc, IoPc, PeerState
<1>5. Linked'
  BY DEF Linked, TypeOK, PtrOf, Status, WorkerPc, IoPc, PeerState
<1>6. WaitingOnce' /\ SwappedHasLocation' /\ PendingIsFresh' /\ OneConnection'
  BY DEF WaitingOnce, SwappedHasLocation, PendingIsFresh, OneConnection
<1>7. ThreadsAgree'
  BY <1>1, <1>2 DEF ThreadsAgree, TypeOK, Linked, PtrOf
<1>8. LocksExclude'
  BY <1>1, <1>2 DEF LocksExclude, ActiveReader, ActiveWriter
<1> QED BY <1>1, <1>2, <1>3, <1>4, <1>5, <1>6, <1>7, <1>8

\* As Disconnect, with the connection still open.
LEMMA HandleClosurePreserves ==
  ASSUME NEW c \in Procs, Consistent, HandleClosure(c)
  PROVE  Consistent'
<1> USE ApplicationAssumption DEF Consistent, HandleClosure, HandleDisconnection, IoAt, procVars, appVars, tcpVars, envVars, wVars, ioVars
<1>1. ioPc' \in [Procs -> IoPc] /\ ioProc' \in [Procs -> PtrOf(Procs)]
  BY DEF TypeOK, IoPc, PtrOf
<1>2. /\ \A d \in Procs \ {c} : ioPc'[d] = ioPc[d] /\ ioProc'[d] = ioProc[d]
      /\ ioPc'[c] \in {"idle", "closed_lock"}
      /\ ioPc'[c] = "closed_lock" => ioProc'[c] = context[c] /\ context[c] # NoProc
  BY DEF TypeOK
<1>3. TypeOK'
  <2>1. numConnected' \in Int /\ numRegistered' \in Int
    BY DEF TypeOK
  <2> QED BY <1>1, <2>1 DEF TypeOK, PeerState
<1>4. Named'
  BY DEF Named, TypeOK, PtrOf, Status, WorkerPc, IoPc, PeerState
<1>5. Linked'
  BY DEF Linked, TypeOK, PtrOf, Status, WorkerPc, IoPc, PeerState
<1>6. WaitingOnce' /\ SwappedHasLocation' /\ PendingIsFresh' /\ OneConnection'
  BY DEF WaitingOnce, SwappedHasLocation, PendingIsFresh, OneConnection
<1>7. ThreadsAgree'
  BY <1>1, <1>2 DEF ThreadsAgree, TypeOK, Linked, PtrOf
<1>8. LocksExclude'
  BY <1>1, <1>2 DEF LocksExclude, ActiveReader, ActiveWriter
<1> QED BY <1>1, <1>2, <1>3, <1>4, <1>5, <1>6, <1>7, <1>8

\* The status of a registered object changes while no other thread has its mutex.
LEMMA ClosedLockPreserves ==
  ASSUME NEW c \in Procs, Consistent, ClosedLock(c)
  PROVE  Consistent'
<1> USE ApplicationAssumption DEF Consistent, ClosedLock, IoDone, IoAt, procVars, appVars, tcpVars, envVars, wVars, ioVars
<1>1. ioProc[c] \in Procs /\ context[c] = ioProc[c]
  BY DEF TypeOK, ThreadsAgree, PtrOf
<1>2. TypeOK'
  <2>1. CASE status[ioProc[c]] = "SWAPPED_OUT"
    BY <1>1, <2>1 DEF TypeOK, PtrOf, Status, IoPc
  <2>2. CASE status[ioProc[c]] # "SWAPPED_OUT"
    BY <1>1, <2>2 DEF TypeOK, PtrOf, Status, IoPc
  <2> QED BY <2>1, <2>2
<1>3. Named'
  BY <1>1 DEF TypeOK, Named, ThreadsAgree
<1>4. WaitingOnce' /\ SwappedHasLocation' /\ OneConnection'
  BY DEF WaitingOnce, SwappedHasLocation, OneConnection
<1>5. Linked'
  BY <1>1, SMTT(30) DEF TypeOK, Linked
<1>6. ThreadsAgree'
  <2>1. \A d \in Procs \ {c} : ioPc'[d] = ioPc[d] /\ ioProc'[d] = ioProc[d]
    BY <1>1 DEF TypeOK
  <2>2. /\ ioPc'[c] \in {"idle", "closed_erase"}
        /\ ioPc'[c] = "closed_erase" => ioProc'[c] = ioProc[c]
    BY <1>1 DEF TypeOK
  <2>3. wPc = "swap_set" => wProc \in Procs /\ wProc # ioProc[c]
    BY DEF TypeOK, PtrOf, ThreadsAgree, ProcLocked
  <2>4. wPc = "swap_set" => status'[wProc] = status[wProc]
    BY <1>1, <2>3 DEF TypeOK
  <2> QED BY <1>1, <2>1, <2>2, <2>4 DEF ThreadsAgree
<1>7. PendingIsFresh'
  BY <1>1 DEF TypeOK, PendingIsFresh
<1>8. LocksExclude'
  <2>1. \A d \in Procs \ {c} : ioPc'[d] = ioPc[d] /\ ioProc'[d] = ioProc[d]
    BY <1>1 DEF TypeOK
  <2>2. ioPc'[c] # "swapped_lock"
    BY <1>1 DEF TypeOK
  <2>3. ioPc'[c] \in {"swapped_insert", "closed_erase"} => ioProc'[c] = ioProc[c]
    BY <1>1 DEF TypeOK
  <2> QED BY <2>1, <2>2, <2>3 DEF LocksExclude, ActiveReader, ActiveWriter, ProcLocked
<1> QED BY <1>1, <1>2, <1>3, <1>4, <1>5, <1>6, <1>7, <1>8

\* An entry leaves a collection while no thread is between lookup and use.
LEMMA ClosedErasePreserves ==
  ASSUME NEW c \in Procs, Consistent, ClosedErase(c)
  PROVE  Consistent'
<1> USE ApplicationAssumption DEF Consistent, ClosedErase, IoDone, procVars, appVars, tcpVars, envVars, wVars, ioVars
<1>1. ioProc[c] \in Procs /\ name[ioProc[c]] \in Names
  BY DEF TypeOK, ThreadsAgree, PtrOf
<1>2. TypeOK'
  <2>1. CASE active[name[ioProc[c]]] # NoProc
    BY <1>1, <2>1 DEF TypeOK, PtrOf, IoPc
  <2>2. CASE active[name[ioProc[c]]] = NoProc
    BY <1>1, <2>2 DEF TypeOK, PtrOf, IoPc
  <2> QED BY <2>1, <2>2
<1>3. Named' /\ WaitingOnce'
  BY DEF Named, WaitingOnce
<1>4. Linked'
  BY <1>1 DEF TypeOK, Linked
<1>5. ThreadsAgree'
  BY <1>1 DEF TypeOK, ThreadsAgree, ActiveFree, ActiveWriter
<1>6. SwappedHasLocation'
  BY <1>1 DEF TypeOK, SwappedHasLocation
<1>7. PendingIsFresh' /\ OneConnection'
  BY DEF PendingIsFresh, OneConnection
<1>8. LocksExclude'
  BY DEF LocksExclude, TypeOK, PtrOf, Status, WorkerPc, IoPc, PeerState, ActiveFree,
    ActiveReader, ActiveWriter, ProcLocked
<1> QED BY <1>1, <1>2, <1>3, <1>4, <1>5, <1>6, <1>7, <1>8

\* The worker takes a reference to an active process.
LEMMA SwapFindPreserves ==
  ASSUME NEW n \in Names, Consistent, SwapFind(n)
  PROVE  Consistent'
<1> USE ApplicationAssumption DEF Consistent, SwapFind, procVars, appVars, tcpVars, envVars, wVars, ioVars
<1>1. TypeOK'
  BY DEF TypeOK, PtrOf, Status, WorkerPc, IoPc, PeerState
<1>2. Named' /\ WaitingOnce' /\ Linked' /\ SwappedHasLocation' /\ PendingIsFresh' /\ OneConnection'
  BY DEF Named, WaitingOnce, Linked, SwappedHasLocation, PendingIsFresh, OneConnection
<1>3. ThreadsAgree'
  BY DEF ThreadsAgree, TypeOK, PtrOf, Status, WorkerPc, IoPc, PeerState, Linked
<1>4. LocksExclude'
  BY DEF LocksExclude, ActiveFree, ActiveReader, ActiveWriter, ProcLocked
<1> QED BY <1>1, <1>2, <1>3, <1>4

\* The worker takes the mutex of an allocated process.
LEMMA SwapCheckPreserves ==
  ASSUME Consistent, SwapCheck
  PROVE  Consistent'
<1> USE ApplicationAssumption DEF Consistent, SwapCheck, WorkerDone, procVars, appVars, tcpVars, envVars, wVars, ioVars
<1>1. TypeOK'
  BY DEF TypeOK, PtrOf, Status, WorkerPc, IoPc, PeerState
<1>2. Named' /\ WaitingOnce' /\ Linked' /\ SwappedHasLocation' /\ PendingIsFresh' /\ OneConnection'
  BY DEF Named, WaitingOnce, Linked, SwappedHasLocation, PendingIsFresh, OneConnection
<1>3. ThreadsAgree'
  BY DEF ThreadsAgree, TypeOK, PtrOf, Status, WorkerPc, IoPc, PeerState
<1>4. LocksExclude'
  BY DEF LocksExclude, ActiveFree, ActiveReader, ActiveWriter, ProcLocked
<1> QED BY <1>1, <1>2, <1>3, <1>4

\* An allocated process gets a swap location together with its new status.
LEMMA SwapSetPreserves ==
  ASSUME Consistent, SwapSet
  PROVE  Consistent'
<1> USE ApplicationAssumption DEF Consistent, SwapSet, WorkerDone, procVars, appVars, tcpVars, envVars, wVars, ioVars
<1>1. TypeOK'
  BY DEF TypeOK, PtrOf, Status, WorkerPc, IoPc, PeerState, ThreadsAgree
<1>2. Named'
  BY DEF Named, TypeOK, PtrOf, Status, WorkerPc, IoPc, PeerState, ThreadsAgree
<1>3. WaitingOnce' /\ OneConnection'
  BY DEF WaitingOnce, OneConnection
<1>4. Linked'
  BY DEF Linked, TypeOK, PtrOf, Status, WorkerPc, IoPc, PeerState, ThreadsAgree
<1>5. ThreadsAgree'
  BY DEF ThreadsAgree, TypeOK, PtrOf, Status, WorkerPc, IoPc, PeerState, LocksExclude
<1>6. SwappedHasLocation'
  BY DEF SwappedHasLocation, TypeOK, PtrOf, Status, WorkerPc, IoPc, PeerState,
    ThreadsAgree
<1>7. PendingIsFresh'
  BY DEF PendingIsFresh, TypeOK, PtrOf, Status, WorkerPc, IoPc, PeerState, ThreadsAgree
<1>8. LocksExclude'
  BY DEF LocksExclude, ActiveFree, ActiveReader, ActiveWriter, ProcLocked
<1> QED BY <1>1, <1>2, <1>3, <1>4, <1>5, <1>6, <1>7, <1>8

\* Thread c locks the collection and finds the process of the name of its context.
LEMMA HandleSwapPreserves ==
  ASSUME NEW c \in Procs, Consistent, HandleSwap(c)
  PROVE  Consistent'
<1> USE ApplicationAssumption DEF Consistent, HandleSwap, IoAt, procVars, appVars, tcpVars, envVars, wVars, ioVars
<1>1. context[c] \in Procs /\ name[context[c]] \in Names
  BY DEF TypeOK, Linked, PtrOf
<1>2. active[name[context[c]]] \in PtrOf(Procs)
  BY <1>1 DEF TypeOK
<1>3. /\ \A d \in Procs \ {c} : ioPc'[d] = ioPc[d] /\ ioProc'[d] = ioProc[d]
      /\ \/ ioPc'[c] = "idle"
         \/ /\ ioPc'[c] = "swapped_lock"
            /\ ioProc'[c] = active[name[context[c]]]
            /\ ioProc'[c] # NoProc
  BY <1>2 DEF TypeOK
<1>4. TypeOK'
  <2>1. CASE active[name[context[c]]] = NoProc
    BY <2>1 DEF TypeOK
  <2>2. CASE active[name[context[c]]] # NoProc
    BY <1>2, <2>2 DEF TypeOK, PtrOf, IoPc
  <2> QED BY <2>1, <2>2
<1>5. Named' /\ WaitingOnce' /\ SwappedHasLocation' /\ PendingIsFresh' /\ OneConnection'
  BY DEF Named, WaitingOnce, SwappedHasLocation, PendingIsFresh, OneConnection
<1>6. Linked'
  BY DEF Linked
<1>7. ThreadsAgree'
  BY <1>1, <1>2, <1>3 DEF ThreadsAgree, TypeOK, Linked, PtrOf
<1>8. LocksExclude'
  BY <1>3 DEF LocksExclude, ActiveFree, ActiveReader, ActiveWriter
<1> QED BY <1>1, <1>2, <1>3, <1>4, <1>5, <1>6, <1>7, <1>8

\* The only thread that holds the collection extracts a process that has a swap location.
LEMMA SwappedCheckPreserves ==
  ASSUME NEW c \in Procs, Consistent, SwappedCheck(c)
  PROVE  Consistent'
<1> USE ApplicationAssumption DEF Consistent, SwappedCheck, IoAt, procVars, appVars, tcpVars, envVars, wVars, ioVars
<1>1. /\ ioProc[c] \in Procs
      /\ name[ioProc[c]] \in Names
      /\ active[name[ioProc[c]]] = ioProc[c]
  BY DEF TypeOK, ThreadsAgree, PtrOf
<1>2. TypeOK'
  <2>1. CASE status[ioProc[c]] = "SWAPPING_OUT"
    BY <1>1, <2>1 DEF TypeOK, PtrOf, Status, IoPc
  <2>2. CASE status[ioProc[c]] # "SWAPPING_OUT"
    BY <1>1, <2>2 DEF TypeOK
  <2> QED BY <2>1, <2>2
<1>3. Named'
  BY <1>1 DEF TypeOK, Named
<1>4. WaitingOnce' /\ OneConnection'
  BY DEF WaitingOnce, OneConnection
<1>5. Linked'
  BY <1>1 DEF TypeOK, Linked
<1>6. ThreadsAgree'
  <2>1. \A d \in Procs \ {c} :
          ioPc'[d] = ioPc[d] /\ ioProc'[d] = ioProc[d] /\ ioPc[d] # "swapped_lock"
    BY DEF TypeOK, LocksExclude
  <2>2. CASE status[ioProc[c]] = "SWAPPING_OUT"
    <3>1. /\ \A n \in Names : active'[n] # ioProc[c]
          /\ \A n \in Names : active'[n] # NoProc => active'[n] = active[n]
      BY <1>1, <2>2 DEF TypeOK, Linked
    <3>2. swapLoc[ioProc[c]]
      BY <1>1, <2>2 DEF Linked
    <3>3. ioPc'[c] = "swapped_insert" /\ ioProc'[c] = ioProc[c]
      BY <2>2 DEF TypeOK
    <3>4. wPc = "swap_set" => wProc # ioProc[c]
      BY <2>2 DEF ThreadsAgree
    <3>5. wPc = "swap_set" => status'[wProc] = "ALLOCATED"
      BY <1>1, <2>2, <3>4 DEF TypeOK, ThreadsAgree, PtrOf
    <3> QED BY <1>1, <2>1, <3>1, <3>2, <3>3, <3>5 DEF ThreadsAgree, TypeOK, PtrOf
  <2>3. CASE status[ioProc[c]] # "SWAPPING_OUT"
    BY <2>3 DEF ThreadsAgree
  <2> QED BY <2>2, <2>3
<1>7. SwappedHasLocation'
  BY <1>1 DEF TypeOK, SwappedHasLocation
<1>8. PendingIsFresh'
  BY <1>1 DEF TypeOK, PendingIsFresh
<1>9. LocksExclude'
  BY DEF LocksExclude, TypeOK, PtrOf, Status, WorkerPc, IoPc, PeerState, ActiveFree,
    ActiveReader, ActiveWriter, ProcLocked
<1> QED BY <1>1, <1>2, <1>3, <1>4, <1>5, <1>6, <1>7, <1>8, <1>9

\* What goes into the swapped collection has a location and has left the active one.
LEMMA SwappedInsertPreserves ==
  ASSUME NEW c \in Procs, Consistent, SwappedInsert(c)
  PROVE  Consistent'
<1> USE ApplicationAssumption DEF Consistent, SwappedInsert, IoDone, procVars, appVars, tcpVars, envVars, wVars, ioVars
<1>1. ioProc[c] \in Procs /\ name[ioProc[c]] \in Names
  BY DEF TypeOK, ThreadsAgree, PtrOf
<1>2. TypeOK'
  BY <1>1 DEF TypeOK, PtrOf, IoPc
<1>3. Named' /\ WaitingOnce' /\ Linked' /\ PendingIsFresh' /\ OneConnection'
  BY DEF Named, WaitingOnce, Linked, PendingIsFresh, OneConnection
<1>4. ThreadsAgree'
  BY <1>1 DEF TypeOK, ThreadsAgree
<1>5. SwappedHasLocation'
  BY <1>1 DEF TypeOK, SwappedHasLocation, ThreadsAgree
<1>6. LocksExclude'
  BY DEF LocksExclude, TypeOK, PtrOf, Status, WorkerPc, IoPc, PeerState, ActiveFree,
    ActiveReader, ActiveWriter, ProcLocked
<1> QED BY <1>1, <1>2, <1>3, <1>4, <1>5, <1>6

\* Only the swapped collection shrinks.
LEMMA DeleteProcessPreserves ==
  ASSUME NEW n \in Names, Consistent, DeleteProcess(n)
  PROVE  Consistent'
<1> USE ApplicationAssumption DEF Consistent, DeleteProcess, procVars, appVars, tcpVars, envVars, wVars, ioVars
<1>1. TypeOK'
  BY DEF TypeOK, PtrOf, Status, WorkerPc, IoPc, PeerState
<1>2. Named' /\ WaitingOnce' /\ Linked' /\ PendingIsFresh' /\ OneConnection'
  BY DEF Named, WaitingOnce, Linked, PendingIsFresh, OneConnection
<1>3. ThreadsAgree'
  BY DEF ThreadsAgree
<1>4. SwappedHasLocation'
  BY DEF SwappedHasLocation, TypeOK, PtrOf, Status, WorkerPc, IoPc, PeerState
<1>5. LocksExclude'
  BY DEF LocksExclude, ActiveFree, ActiveReader, ActiveWriter, ProcLocked
<1> QED BY <1>1, <1>2, <1>3, <1>4, <1>5

-----------------------------------------------------------------------------
\* Nothing exists in the initial state.
LEMMA InitConsistent == Init => Consistent
<1> SUFFICES ASSUME Init PROVE Consistent
  OBVIOUS
<1> USE ApplicationAssumption DEF Init
<1>1. TypeOK
  BY DEF TypeOK, PtrOf, WorkerPc, IoPc, PeerState
<1>2. Named /\ WaitingOnce /\ Linked /\ ThreadsAgree
  BY DEF Named, WaitingOnce, Linked, ThreadsAgree
<1>3. SwappedHasLocation /\ PendingIsFresh /\ OneConnection /\ LocksExclude
  BY DEF SwappedHasLocation, PendingIsFresh, OneConnection, LocksExclude, ActiveReader,
     ActiveWriter
<1> QED BY <1>1, <1>2, <1>3 DEF Consistent

\* Every step of every thread, and every step of the world outside, keeps it.
LEMMA NextConsistent == Consistent /\ [Next]_vars => Consistent'
<1> SUFFICES ASSUME Consistent, [Next]_vars PROVE Consistent'
  OBVIOUS
<1>1. CASE Request
  BY <1>1, AddProcessPreserves, SwapFindPreserves, DeleteProcessPreserves DEF Request
<1>2. CASE WorkerStep
  BY <1>2, SwapCheckPreserves, SwapSetPreserves DEF WorkerStep
<1>3. CASE PollerAddProcess
  BY <1>3, PollerAddProcessPreserves
<1>4. ASSUME NEW c \in Procs, Event(c) PROVE Consistent'
  BY <1>4, ContainerStartPreserves, AcceptPreserves, BackendCreatedPreserves,
     BackendFailedPreserves, HandleConnectionPreserves, DisconnectPreserves,
     HandleClosurePreserves, HandleSwapPreserves DEF Event
<1>5. ASSUME NEW c \in Procs, IoStep(c) PROVE Consistent'
  BY <1>5, ClosedLockPreserves, ClosedErasePreserves, SwappedCheckPreserves,
     SwappedInsertPreserves DEF IoStep
<1>6. CASE UNCHANGED vars
  BY <1>6 DEF Consistent, vars, procVars, appVars, tcpVars, envVars, wVars, ioVars,
     TypeOK, Named, WaitingOnce, Linked, ThreadsAgree, SwappedHasLocation,
     PendingIsFresh, OneConnection, LocksExclude, ActiveReader, ActiveWriter
<1> QED BY <1>1, <1>2, <1>3, <1>4, <1>5, <1>6 DEF Next

\* The maps of the application, the waiting list of the TCP server and the
\* threads inside swap_process, swapped_process and closed_process agree.
THEOREM ConsistentAlways == Spec => []Consistent
BY InitConsistent, NextConsistent, PTL DEF Spec

\* All variables of the control plane keep their types.
THEOREM TypeCorrect == Spec => []TypeOK
<1>1. Consistent => TypeOK
  BY DEF Consistent
<1> QED BY <1>1, ConsistentAlways, PTL

\* delete_process never dereferences an empty swap location, whatever crashes,
\* failure reports and closure messages came before.
THEOREM SwappedHasLocationAlways == Spec => []SwappedHasLocation
<1>1. Consistent => SwappedHasLocation
  BY DEF Consistent
<1> QED BY <1>1, ConsistentAlways, PTL

\* Process::connect is only ever called on a process that is being allocated.
THEOREM PendingIsFreshAlways == Spec => []PendingIsFresh
<1>1. Consistent => PendingIsFresh
  BY DEF Consistent
<1> QED BY <1>1, ConsistentAlways, PTL

\* Two connections never act on one process object.
THEOREM OneConnectionAlways == Spec => []OneConnection
<1>1. Consistent => OneConnection
  BY DEF Consistent
<1> QED BY <1>1, ConsistentAlways, PTL

\* The mutexes exclude: no two threads in the critical section of one process.
THEOREM LocksExcludeAlways == Spec => []LocksExclude
<1>1. Consistent => LocksExclude
  BY DEF Consistent
<1> QED BY <1>1, ConsistentAlways, PTL

-----------------------------------------------------------------------------
(* When the backend works and processes do nothing worse than to crash.     *)

\* The world outside at most ends connections: the backend reports no failure
\* for a container it launches, and no process sends ProcessClosure.
OnlyCrashes == Env \subseteq {"crash"}

\* A connection acts on the object its container was launched for, and on no
\* other although both are matched by name; an object leaves ALLOCATING with its
\* connection; an object that ended has no connection.
Own(c) ==
  /\ context[c] \in {NoProc, c}
  /\ context[c] = c <=> status[c] \notin {"unused", "ALLOCATING"}
  /\ peer[c] # "closing"
  /\ status[c] \in {"FAILURE", "CLOSED"} =>
       peer[c] = "gone" /\ ioPc[c] \in {"idle", "closed_erase"}

\* What the thread of connection c relies on: the names it will look up are in
\* the active collection, for its own object, and the status is the one it
\* expects.
Thread(c) ==
  /\ ioPc[c] # "idle" => ioProc[c] = c
  /\ ioPc[c] \in {"closed_lock", "closed_erase"} => peer[c] = "gone"
  /\ ioPc[c] = "closed_erase" => status[c] = "FAILURE" /\ active[name[c]] = c
  /\ ioPc[c] = "swapped_lock" => status[c] = "SWAPPING_OUT" /\ c \notin swapAsked
  /\ ioPc[c] = "swapped_insert" => status[c] = "SWAPPED_OUT"
  /\ c \in swapAsked /\ peer[c] = "announced" => status[c] = "SWAPPING_OUT"
  /\ status[c] \in {"ALLOCATING", "ALLOCATED", "SWAPPING_OUT"} => active[name[c]] = c

\* The inductive invariant behind NoFault, LiveIsActive, ActiveIsUsable and
\* ClosedRemovesItself.
Working ==
  /\ Consistent
  /\ \A c \in Procs : Own(c) /\ Thread(c)
  /\ ActiveIsUsable
  /\ NoFault

\* A new object takes a name that is free, so it hides no live process.
LEMMA AddProcessWorks ==
  ASSUME NEW n \in Names, NEW p \in Procs, Working, AddProcess(n, p)
  PROVE  Working'
<1> USE ApplicationAssumption DEF Working, Consistent, NoFault, AddProcess, procVars,
    appVars, tcpVars, envVars, wVars, ioVars
<1>1. NoFault'
  OBVIOUS
<1>2. \A d \in Procs : Own(d)'
  BY DEF Own
<1>3. \A d \in Procs : Thread(d)'
  BY DEF TypeOK, ThreadsAgree, Own, Thread
<1>4. ActiveIsUsable'
  BY DEF TypeOK, ActiveIsUsable
<1> QED BY <1>1, <1>2, <1>3, <1>4, AddProcessPreserves

\* Two objects that wait are both active, so they have two names, and add_process
\* of the TCP server does not throw.
LEMMA PollerAddProcessWorks ==
  ASSUME Working, PollerAddProcess
  PROVE  Working'
<1> USE ApplicationAssumption DEF Working, Consistent, NoFault, PollerAddProcess,
    procVars, appVars, tcpVars, envVars, wVars, ioVars
<1>1. NoFault'
  BY DEF TypeOK, PtrOf, PendingIsFresh, WaitingOnce, Named, Thread
<1>2. \A d \in Procs : Own(d)'
  BY DEF Own
<1>3. \A d \in Procs : Thread(d)'
  BY DEF Thread
<1>4. ActiveIsUsable'
  BY DEF ActiveIsUsable
<1> QED BY <1>1, <1>2, <1>3, <1>4, PollerAddProcessPreserves

\* The answer of the backend changes nothing here.
LEMMA BackendCreatedWorks ==
  ASSUME NEW c \in Procs, Working, BackendCreated(c)
  PROVE  Working'
<1> USE ApplicationAssumption DEF Working, Consistent, NoFault, BackendCreated,
    procVars, appVars, tcpVars, envVars, wVars, ioVars
<1>1. NoFault'
  OBVIOUS
<1>2. \A d \in Procs : Own(d)'
  BY DEF Own
<1>3. \A d \in Procs : Thread(d)'
  BY DEF Thread
<1>4. ActiveIsUsable'
  BY DEF ActiveIsUsable
<1> QED BY <1>1, <1>2, <1>3, <1>4, BackendCreatedPreserves

\* Nor does the start of the container.
LEMMA ContainerStartWorks ==
  ASSUME NEW c \in Procs, Working, ContainerStart(c)
  PROVE  Working'
<1> USE ApplicationAssumption DEF Working, Consistent, NoFault, ContainerStart,
    procVars, appVars, tcpVars, envVars, wVars, ioVars
<1>1. NoFault'
  OBVIOUS
<1>2. \A d \in Procs : Own(d)'
  BY DEF Own
<1>3. \A d \in Procs : Thread(d)'
  BY DEF Thread
<1>4. ActiveIsUsable'
  BY DEF ActiveIsUsable
<1> QED BY <1>1, <1>2, <1>3, <1>4, ContainerStartPreserves

\* Nor does the connection before it is announced.
LEMMA AcceptWorks ==
  ASSUME NEW c \in Procs, Working, Accept(c)
  PROVE  Working'
<1> USE ApplicationAssumption DEF Working, Consistent, NoFault, Accept, procVars,
    appVars, tcpVars, envVars, wVars, ioVars
<1>1. NoFault'
  OBVIOUS
<1>2. \A d \in Procs : Own(d)'
  BY DEF Own
<1>3. \A d \in Procs : Thread(d)'
  BY DEF Thread
<1>4. ActiveIsUsable'
  BY DEF ActiveIsUsable
<1> QED BY <1>1, <1>2, <1>3, <1>4, AcceptPreserves

\* The process that waits under the name of a container is the one the container
\* was launched for: it has no connection yet, so it is ALLOCATING, so it has the
\* name.
LEMMA HandleConnectionWorks ==
  ASSUME NEW c \in Procs, Working, HandleConnection(c)
  PROVE  Working'
<1> USE ApplicationAssumption DEF Working, Consistent, NoFault, HandleConnection,
    procVars, appVars, tcpVars, envVars, wVars, ioVars
<1>1. NoFault'
  BY DEF Connect, TypeOK, PtrOf, PendingIsFresh, Named
<1>2. \A d \in Procs : Own(d)'
  BY DEF Connect, TypeOK, PtrOf, PendingIsFresh, WaitingOnce, Linked, Named, Own, Thread
<1>3. \A d \in Procs : Thread(d)'
  BY DEF Connect, TypeOK, Linked, Thread
<1>4. ActiveIsUsable'
  BY DEF Connect, TypeOK, PtrOf, ActiveIsUsable
<1> QED BY <1>1, <1>2, <1>3, <1>4, HandleConnectionPreserves

\* The connection ends while its thread does nothing else.
LEMMA DisconnectWorks ==
  ASSUME NEW c \in Procs, Working, Disconnect(c)
  PROVE  Working'
<1> USE ApplicationAssumption DEF Working, Consistent, NoFault, Disconnect, procVars,
    appVars, tcpVars, envVars, wVars, ioVars
<1>1. NoFault'
  OBVIOUS
<1>2. \A d \in Procs : Own(d)'
  BY DEF IoAt, TypeOK, Own, HandleDisconnection
<1>3. \A d \in Procs : Thread(d)'
  BY DEF IoAt, TypeOK, Own, Thread, HandleDisconnection
<1>4. ActiveIsUsable'
  BY DEF IoAt, TypeOK, ActiveIsUsable, HandleDisconnection
<1> QED BY <1>1, <1>2, <1>3, <1>4, DisconnectPreserves

\* The process that is marked FAILURE is still active under its name.
LEMMA ClosedLockWorks ==
  ASSUME NEW c \in Procs, Working, ClosedLock(c)
  PROVE  Working'
<1> USE ApplicationAssumption DEF Working, Consistent, NoFault, ClosedLock, procVars,
    appVars, tcpVars, envVars, wVars, ioVars
<1>1. NoFault'
  OBVIOUS
<1>2. \A d \in Procs : Own(d)'
  BY DEF IoAt, IoDone, TypeOK, ThreadsAgree, Own, Thread
<1>3. \A d \in Procs : Thread(d)'
  BY DEF IoAt, IoDone, TypeOK, Status, ThreadsAgree, Own, Thread
<1>4. ActiveIsUsable'
  BY DEF IoAt, IoDone, TypeOK, PtrOf, ActiveIsUsable, Thread
<1> QED BY <1>1, <1>2, <1>3, <1>4, ClosedLockPreserves

\* It is the entry that is erased.
LEMMA ClosedEraseWorks ==
  ASSUME NEW c \in Procs, Working, ClosedErase(c)
  PROVE  Working'
<1> USE ApplicationAssumption DEF Working, Consistent, NoFault, ClosedErase, procVars,
    appVars, tcpVars, envVars, wVars, ioVars
<1>1. NoFault'
  OBVIOUS
<1>2. \A d \in Procs : Own(d)'
  BY DEF IoDone, Own
<1>3. \A d \in Procs : Thread(d)'
  BY DEF IoDone, TypeOK, PtrOf, Named, Thread
<1>4. ActiveIsUsable'
  BY DEF IoDone, TypeOK, IoPc, ActiveIsUsable
<1> QED BY <1>1, <1>2, <1>3, <1>4, ClosedErasePreserves

\* The worker takes a reference.
LEMMA SwapFindWorks ==
  ASSUME NEW n \in Names, Working, SwapFind(n)
  PROVE  Working'
<1> USE ApplicationAssumption DEF Working, Consistent, NoFault, SwapFind, procVars,
    appVars, tcpVars, envVars, wVars, ioVars
<1>1. NoFault'
  OBVIOUS
<1>2. \A d \in Procs : Own(d)'
  BY DEF Own
<1>3. \A d \in Procs : Thread(d)'
  BY DEF Thread
<1>4. ActiveIsUsable'
  BY DEF ActiveIsUsable
<1> QED BY <1>1, <1>2, <1>3, <1>4, SwapFindPreserves

\* And the mutex of the process.
LEMMA SwapCheckWorks ==
  ASSUME Working, SwapCheck
  PROVE  Working'
<1> USE ApplicationAssumption DEF Working, Consistent, NoFault, SwapCheck, procVars,
    appVars, tcpVars, envVars, wVars, ioVars
<1>1. NoFault'
  OBVIOUS
<1>2. \A d \in Procs : Own(d)'
  BY DEF Own
<1>3. \A d \in Procs : Thread(d)'
  BY DEF Thread
<1>4. ActiveIsUsable'
  BY DEF ActiveIsUsable
<1> QED BY <1>1, <1>2, <1>3, <1>4, SwapCheckPreserves

\* Only an ALLOCATED process is asked to swap.
LEMMA SwapSetWorks ==
  ASSUME Working, SwapSet
  PROVE  Working'
<1> USE ApplicationAssumption DEF Working, Consistent, NoFault, SwapSet, procVars,
    appVars, tcpVars, envVars, wVars, ioVars
<1>1. NoFault'
  OBVIOUS
<1>2. \A d \in Procs : Own(d)'
  BY DEF ThreadsAgree, Own
<1>3. \A d \in Procs : Thread(d)'
  BY DEF TypeOK, PtrOf, Linked, ThreadsAgree, Own, Thread
<1>4. ActiveIsUsable'
  BY DEF ActiveIsUsable
<1> QED BY <1>1, <1>2, <1>3, <1>4, SwapSetPreserves

\* A container that was asked finds its process by name.
LEMMA HandleSwapWorks ==
  ASSUME NEW c \in Procs, Working, HandleSwap(c)
  PROVE  Working'
<1> USE ApplicationAssumption DEF Working, Consistent, NoFault, HandleSwap, procVars,
    appVars, tcpVars, envVars, wVars, ioVars
<1>1. NoFault'
  BY DEF Own, Thread
<1>2. \A d \in Procs : Own(d)'
  BY DEF IoAt, TypeOK, Own
<1>3. \A d \in Procs : Thread(d)'
  BY DEF IoAt, TypeOK, Own, Thread
<1>4. ActiveIsUsable'
  BY DEF IoAt, TypeOK, ActiveIsUsable
<1> QED BY <1>1, <1>2, <1>3, <1>4, HandleSwapPreserves

\* It is SWAPPING_OUT still: only its own thread could have changed that.
LEMMA SwappedCheckWorks ==
  ASSUME NEW c \in Procs, Working, SwappedCheck(c)
  PROVE  Working'
<1> USE ApplicationAssumption DEF Working, Consistent, NoFault, SwappedCheck, procVars,
    appVars, tcpVars, envVars, wVars, ioVars
<1>1. NoFault'
  BY DEF Thread
<1>2. \A d \in Procs : Own(d)'
  BY DEF IoAt, TypeOK, Own
<1>3. \A d \in Procs : Thread(d)'
  BY DEF IoAt, TypeOK, PtrOf, Named, Thread
<1>4. ActiveIsUsable'
  BY SMTT(30) DEF IoAt, TypeOK, PtrOf, ActiveIsUsable
<1> QED BY <1>1, <1>2, <1>3, <1>4, SwappedCheckPreserves

\* The process has left the active collection before.
LEMMA SwappedInsertWorks ==
  ASSUME NEW c \in Procs, Working, SwappedInsert(c)
  PROVE  Working'
<1> USE ApplicationAssumption DEF Working, Consistent, NoFault, SwappedInsert, procVars,
    appVars, tcpVars, envVars, wVars, ioVars
<1>1. NoFault'
  OBVIOUS
<1>2. \A d \in Procs : Own(d)'
  BY DEF IoDone, Own
<1>3. \A d \in Procs : Thread(d)'
  BY DEF IoDone, TypeOK, Thread
<1>4. ActiveIsUsable'
  BY DEF IoDone, ActiveIsUsable
<1> QED BY <1>1, <1>2, <1>3, <1>4, SwappedInsertPreserves

\* What is deleted has a swap location.
LEMMA DeleteProcessWorks ==
  ASSUME NEW n \in Names, Working, DeleteProcess(n)
  PROVE  Working'
<1> USE ApplicationAssumption DEF Working, Consistent, NoFault, DeleteProcess, procVars,
    appVars, tcpVars, envVars, wVars, ioVars
<1>1. NoFault'
  BY DEF SwappedHasLocation
<1>2. \A d \in Procs : Own(d)'
  BY DEF Own
<1>3. \A d \in Procs : Thread(d)'
  BY DEF Thread
<1>4. ActiveIsUsable'
  BY DEF ActiveIsUsable
<1> QED BY <1>1, <1>2, <1>3, <1>4, DeleteProcessPreserves

-----------------------------------------------------------------------------
\* Nothing exists in the initial state.
LEMMA InitWorking == Init => Working
<1> SUFFICES ASSUME Init PROVE Working
  OBVIOUS
<1>1. \A c \in Procs : Own(c) /\ Thread(c)
  BY ApplicationAssumption DEF Init, Own, Thread
<1>2. ActiveIsUsable /\ NoFault
  BY DEF Init, ActiveIsUsable, NoFault
<1> QED BY <1>1, <1>2, InitConsistent DEF Working

\* Every step keeps it; a backend that works does not report failures, and nobody
\* sends ProcessClosure.
LEMMA NextWorking ==
  ASSUME OnlyCrashes
  PROVE  Working /\ [Next]_vars => Working'
<1> SUFFICES ASSUME Working, [Next]_vars PROVE Working'
  OBVIOUS
<1>1. CASE Request
  BY <1>1, AddProcessWorks, SwapFindWorks, DeleteProcessWorks DEF Request
<1>2. CASE WorkerStep
  BY <1>2, SwapCheckWorks, SwapSetWorks DEF WorkerStep
<1>3. CASE PollerAddProcess
  BY <1>3, PollerAddProcessWorks
<1>4. ASSUME NEW c \in Procs, Event(c) PROVE Working'
  <2>1. ~BackendFailed(c) /\ ~HandleClosure(c)
    BY DEF OnlyCrashes, BackendFailed, HandleClosure
  <2> QED BY <1>4, <2>1, ContainerStartWorks, AcceptWorks, BackendCreatedWorks,
             HandleConnectionWorks, DisconnectWorks, HandleSwapWorks DEF Event
<1>5. ASSUME NEW c \in Procs, IoStep(c) PROVE Working'
  BY <1>5, ClosedLockWorks, ClosedEraseWorks, SwappedCheckWorks, SwappedInsertWorks
     DEF IoStep
<1>6. CASE UNCHANGED vars
  <2>1. Consistent'
    BY <1>6, NextConsistent DEF Working
  <2>2. (\A c \in Procs : Own(c) /\ Thread(c))' /\ ActiveIsUsable' /\ NoFault'
    BY <1>6 DEF Working, Own, Thread, ActiveIsUsable, NoFault, vars, procVars, appVars,
       tcpVars, envVars, wVars, ioVars
  <2> QED BY <2>1, <2>2 DEF Working
<1> QED BY <1>1, <1>2, <1>3, <1>4, <1>5, <1>6 DEF Next

\* While processes at most crash, the collections, the connections and the threads
\* of the control plane agree object by object.
THEOREM WorkingAlways == OnlyCrashes => (Spec => []Working)
<1> SUFFICES ASSUME OnlyCrashes PROVE Spec => []Working
  OBVIOUS
<1>1. Working /\ [Next]_vars => Working'
  BY NextWorking
<1> QED BY <1>1, InitWorking, PTL DEF Spec

\* While processes at most crash, no exception leaves an event loop and no invalid
\* iterator or empty swap location is used.
THEOREM NoFaultAlways == OnlyCrashes => (Spec => []NoFault)
<1> SUFFICES ASSUME OnlyCrashes PROVE Spec => []NoFault
  OBVIOUS
<1>1. Working => NoFault
  BY DEF Working
<1>2. Spec => []Working
  BY WorkingAlways
<1> QED BY <1>1, <1>2, PTL

\* While processes at most crash, an entry of the active collection is usable or
\* about to be erased by the thread that found it closed.
THEOREM ActiveIsUsableAlways == OnlyCrashes => (Spec => []ActiveIsUsable)
<1> SUFFICES ASSUME OnlyCrashes PROVE Spec => []ActiveIsUsable
  OBVIOUS
<1>1. Working => ActiveIsUsable
  BY DEF Working
<1>2. Spec => []Working
  BY WorkingAlways
<1> QED BY <1>1, <1>2, PTL

\* While processes at most crash, a connected process can be found by its name.
THEOREM LiveIsActiveAlways == OnlyCrashes => (Spec => []LiveIsActive)
<1> SUFFICES ASSUME OnlyCrashes PROVE Spec => []LiveIsActive
  OBVIOUS
<1>1. Working => LiveIsActive
  BY DEF Working, Thread, LiveIsActive
<1>2. Spec => []Working
  BY WorkingAlways
<1> QED BY <1>1, <1>2, PTL

\* The erasure of closed_process, the only step of a thread that waits for it.
LEMMA EraseRemovesItself ==
  ASSUME Working, [Next]_vars, NEW c \in Procs, NEW n \in Names,
         ioPc[c] = "closed_erase", ioPc'[c] = "idle"
  PROVE  /\ active'[n] # active[n] => active[n] = ioProc[c]
         /\ swapped'[n] # swapped[n] => swapped[n] = ioProc[c]
<1> USE ApplicationAssumption
<1>1. ioPc \in [Procs -> IoPc]
  BY DEF Working, Consistent, TypeOK
<1>2. ~UNCHANGED ioPc
  OBVIOUS
<1>3. ~Request /\ ~WorkerStep /\ ~PollerAddProcess
  BY <1>2 DEF Request, AddProcess, SwapFind, DeleteProcess, WorkerStep, SwapCheck, SwapSet,
     PollerAddProcess, ioVars
<1>4. ASSUME NEW d \in Procs, Event(d) PROVE FALSE
  <2>1. ~ContainerStart(d) /\ ~Accept(d) /\ ~BackendCreated(d) /\ ~BackendFailed(d)
        /\ ~HandleConnection(d)
    BY <1>2 DEF ContainerStart, Accept, BackendCreated, BackendFailed, HandleConnection, ioVars
  <2>2. ~Disconnect(d) /\ ~HandleClosure(d) /\ ~HandleSwap(d)
    BY <1>1, <1>2 DEF Disconnect, HandleClosure, HandleDisconnection, HandleSwap, IoAt, ioVars
  <2> QED BY <1>4, <2>1, <2>2 DEF Event
<1>5. ASSUME NEW d \in Procs, IoStep(d) PROVE ClosedErase(c)
  <2>1. ClosedLock(d) \/ SwappedCheck(d) \/ SwappedInsert(d) => ioPc[d] # "closed_erase"
    BY DEF ClosedLock, SwappedCheck, SwappedInsert
  <2>2. \A e \in Procs : e # d => ioPc'[e] = ioPc[e]
    BY <1>1, <1>5 DEF IoStep, ClosedLock, ClosedErase, SwappedCheck, SwappedInsert, IoDone,
       IoAt, ioVars
  <2> QED BY <1>5, <2>1, <2>2 DEF IoStep
<1>6. ClosedErase(c)
  BY <1>2, <1>3, <1>4, <1>5 DEF Next, vars, ioVars
<1>7. ioProc[c] = c /\ name[c] \in Names /\ active[name[c]] = c
  BY DEF Working, Thread, Consistent, TypeOK, ThreadsAgree, PtrOf
<1> QED BY <1>6, <1>7 DEF ClosedErase, Working, Consistent, TypeOK

\* While processes at most crash, closed_process erases the process whose connection
\* was closed and never a successor of the same name.
THEOREM ClosedRemovesItselfAlways == OnlyCrashes => (Spec => ClosedRemovesItself)
<1> SUFFICES ASSUME OnlyCrashes PROVE Spec => ClosedRemovesItself
  OBVIOUS
<1> DEFINE Removes ==
      \A c \in Procs, n \in Names :
        ioPc[c] = "closed_erase" /\ ioPc'[c] = "idle" =>
          /\ active'[n] # active[n] => active[n] = ioProc[c]
          /\ swapped'[n] # swapped[n] => swapped[n] = ioProc[c]
<1>1. Working /\ [Next]_vars => [Removes]_vars
  BY EraseRemovesItself
<1>2. Spec => []Working
  BY WorkingAlways
<1> QED BY <1>1, <1>2, PTL DEF Spec, ClosedRemovesItself

-----------------------------------------------------------------------------
(* The counters of the TCP server.                                          *)

Open == {c \in Procs : peer[c] \in {"connected", "announced", "closing"}}
Registered == {c \in Open : context[c] # NoProc}

\* Both sets are finite although there may be any number of processes; nobody
\* closes a connection twice.
Counted ==
  /\ Consistent
  /\ \A c \in Procs : peer[c] # "closing"
  /\ IsFiniteSet(Open)
  /\ IsFiniteSet(Registered)
  /\ numConnected = Cardinality(Open)
  /\ numRegistered = Cardinality(Registered)

\* A step that opens and closes no connection.
LEMMA CountsKept ==
  ASSUME Counted, Consistent', Open' = Open, Registered' = Registered,
         \A c \in Procs : peer'[c] # "closing", UNCHANGED <<numConnected, numRegistered>>
  PROVE  Counted'
BY DEF Counted

\* A connection is accepted, without a process.
LEMMA AcceptCounts ==
  ASSUME NEW c \in Procs, Counted, Accept(c)
  PROVE  Counted'
<1> USE DEF Accept, procVars, appVars, wVars, ioVars
<1>1. Consistent' /\ peer \in [Procs -> PeerState] /\ context[c] = NoProc
  BY AcceptPreserves DEF Counted, Consistent, TypeOK, Linked
<1>2. Open' = Open \cup {c} /\ c \notin Open
  BY <1>1 DEF Open
<1>3. Registered' = Registered
  BY <1>1, <1>2 DEF Registered
<1>4. IsFiniteSet(Open') /\ Cardinality(Open') = Cardinality(Open) + 1
  BY <1>2, FS_AddElement DEF Counted
<1>5. \A d \in Procs : peer'[d] # "closing"
  BY <1>1 DEF Counted
<1> QED BY <1>1, <1>3, <1>4, <1>5 DEF Counted

\* A connection gets its process, which no thread throws about.
LEMMA HandleConnectionCounts ==
  ASSUME NEW c \in Procs, Counted, HandleConnection(c)
  PROVE  Counted'
<1> USE ApplicationAssumption DEF HandleConnection, appVars, wVars, ioVars
<1>1. Consistent' /\ peer \in [Procs -> PeerState] /\ context[c] = NoProc
  BY HandleConnectionPreserves DEF Counted, Consistent, TypeOK, Linked
<1>2. Open' = Open /\ c \in Open /\ c \notin Registered
  BY <1>1 DEF Open, Registered
<1>3. \A d \in Procs : peer'[d] # "closing"
  BY <1>1 DEF Counted
<1>4. CASE pendingProcs[name[c]] = NoProc
  <2>1. UNCHANGED <<context, numConnected, numRegistered>>
    BY <1>4
  <2>2. Registered' = Registered
    BY <1>2, <2>1 DEF Registered
  <2> QED BY <1>1, <1>2, <1>3, <2>1, <2>2, CountsKept
<1>5. CASE pendingProcs[name[c]] # NoProc
  <2>1. name[c] \in Names /\ pendingProcs[name[c]] \in Procs
    BY <1>5 DEF Counted, Consistent, TypeOK, Named, PtrOf
  <2>2. status[pendingProcs[name[c]]] = "ALLOCATING"
    BY <2>1 DEF Counted, Consistent, PendingIsFresh
  <2>3. /\ context' = [context EXCEPT ![c] = pendingProcs[name[c]]]
        /\ numRegistered' = numRegistered + 1
        /\ numConnected' = numConnected
    BY <1>5, <2>2 DEF Connect
  <2>4. Registered' = Registered \cup {c}
    BY <1>2, <1>5, <2>3 DEF Registered, Open, Counted, Consistent, TypeOK
  <2>5. IsFiniteSet(Registered') /\ Cardinality(Registered') = Cardinality(Registered) + 1
    BY <1>2, <2>4, FS_AddElement DEF Counted
  <2> QED BY <1>1, <1>2, <1>3, <2>3, <2>5 DEF Counted
<1> QED BY <1>4, <1>5

\* A connection ends, with its process if it has one.
LEMMA DisconnectCounts ==
  ASSUME NEW c \in Procs, Counted, Disconnect(c)
  PROVE  Counted'
<1> USE ApplicationAssumption DEF Disconnect, HandleDisconnection, procVars, appVars, ioVars
<1>1. Consistent' /\ peer \in [Procs -> PeerState]
  BY DisconnectPreserves DEF Counted, Consistent, TypeOK
<1>2. Open' = Open \ {c} /\ c \in Open
  BY <1>1 DEF Open
<1>3. Registered' = Registered \ {c} /\ (c \in Registered <=> context[c] # NoProc)
  BY <1>1, <1>2 DEF Registered
<1>4. /\ IsFiniteSet(Open') /\ Cardinality(Open') = Cardinality(Open) - 1
      /\ IsFiniteSet(Registered')
      /\ Cardinality(Registered') =
           IF c \in Registered THEN Cardinality(Registered) - 1 ELSE Cardinality(Registered)
  BY <1>2, <1>3, FS_RemoveElement DEF Counted
<1>5. \A d \in Procs : peer'[d] # "closing"
  BY <1>1 DEF Counted
<1>6. numConnected' = numConnected - 1
  OBVIOUS
<1>7. numRegistered' = IF c \in Registered THEN numRegistered - 1 ELSE numRegistered
  BY <1>3
<1> QED BY <1>1, <1>4, <1>5, <1>6, <1>7 DEF Counted

\* No other step opens or closes a connection.
LEMMA NextCounts ==
  ASSUME "closure" \notin Env
  PROVE  Counted /\ [Next]_vars => Counted'
<1> SUFFICES ASSUME Counted, [Next]_vars PROVE Counted'
  OBVIOUS
<1> USE ApplicationAssumption DEF procVars, appVars, tcpVars, envVars, wVars, ioVars
<1>1. Consistent'
  BY NextConsistent DEF Counted
<1>2. peer \in [Procs -> PeerState]
  BY DEF Counted, Consistent, TypeOK
<1> DEFINE Still == /\ UNCHANGED <<context, numConnected, numRegistered>>
                    /\ \A c \in Procs : peer'[c] = peer[c]
                         \/ {peer[c], peer'[c]} \subseteq {"none", "requested", "running", "gone"}
<1>3. Still => Counted'
  <2> SUFFICES ASSUME Still PROVE Counted'
    OBVIOUS
  <2>1. Open' = Open
    BY DEF Open
  <2>2. Registered' = Registered
    BY <2>1 DEF Registered
  <2> QED BY <1>1, <2>1, <2>2, CountsKept DEF Counted
<1>4. CASE Request
  <2>1. ASSUME NEW n \in Names, NEW p \in Procs, AddProcess(n, p)
        PROVE  Still
    <3>1. peer[p] = "none"
      BY <2>1 DEF AddProcess, Counted, Consistent, Named
    <3> QED BY <1>2, <2>1, <3>1 DEF AddProcess
  <2>2. ASSUME NEW n \in Names, SwapFind(n) \/ DeleteProcess(n)
        PROVE  Still
    BY <2>2 DEF SwapFind, DeleteProcess
  <2> QED BY <1>3, <1>4, <2>1, <2>2 DEF Request
<1>5. CASE WorkerStep \/ PollerAddProcess \/ UNCHANGED vars
  BY <1>3, <1>5 DEF WorkerStep, SwapCheck, SwapSet, PollerAddProcess, vars
<1>6. ASSUME NEW c \in Procs, Event(c) PROVE Counted'
  <2>1. ContainerStart(c) \/ BackendCreated(c) \/ HandleSwap(c) => Still
    BY <1>2 DEF ContainerStart, BackendCreated, HandleSwap
  <2>2. BackendFailed(c) => Still
    BY <1>2 DEF BackendFailed
  <2>3. ~HandleClosure(c)
    BY DEF HandleClosure
  <2> QED BY <1>3, <1>6, <2>1, <2>2, <2>3, AcceptCounts, HandleConnectionCounts,
             DisconnectCounts DEF Event
<1>7. ASSUME NEW c \in Procs, IoStep(c) PROVE Counted'
  <2>1. Still
    BY <1>7 DEF IoStep, ClosedLock, ClosedErase, SwappedCheck, SwappedInsert
  <2> QED BY <1>3, <2>1
<1> QED BY <1>4, <1>5, <1>6, <1>7 DEF Next

\* As long as no process sends ProcessClosure, whatever else fails, the counters of
\* the TCP server are the open connections and the registered ones.
THEOREM CountersExactAlways == "closure" \notin Env => (Spec => []CountersExact)
<1> SUFFICES ASSUME "closure" \notin Env PROVE Spec => []CountersExact
  OBVIOUS
<1>1. Init => Counted
  <2> SUFFICES ASSUME Init PROVE Counted
    OBVIOUS
  <2>1. Open = {} /\ Registered = {}
    BY DEF Init, Open, Registered
  <2> QED BY <2>1, InitConsistent, FS_EmptySet DEF Init, Counted
<1>2. Counted /\ [Next]_vars => Counted'
  BY NextCounts
<1>3. Counted => CountersExact
  BY DEF Counted, CountersExact, Open, Registered
<1> QED BY <1>1, <1>2, <1>3, PTL DEF Spec
==============================================================================
