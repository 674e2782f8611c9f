------------------------ MODULE TcpExperimentProofs ------------------------
(***************************************************************************)
(* The TCP experiment for any number of senders, blocks, interrupts and    *)
(* faults: types, the wait for the children, what an interrupt stops, and  *)
(* the count of the connections.                                           *)
(***************************************************************************)
EXTENDS TcpExperiment, FiniteSetTheorems, TLAPS

\* main holds a connection exactly between accept() and fork().
HoldsOne ==
  /\ mainPc = "fork" => \E c \in Conns : accepted = {c}
  /\ mainPc # "fork" => accepted = {}

\* accept() is called only while another connection is wanted.
RoomLeft == mainPc = "accept" /\ clientsMax # 0 => nClients < clientsMax

\* A sender that has not connected has no connection.
Fresh ==
  \A c \in Conns : sndPc[c] \in {"off", "connect"} =>
    conn[c] = "closed" /\ child[c] = "none" /\ c \notin accepted

\* The listen queue holds what nobody serves.
QueueUnserved == \A c \in Queue : child[c] = "none" /\ c \notin accepted

\* The inductive invariant behind the count of connections.
CountInv ==
  TypeOK /\ HoldsOne /\ RoomLeft /\ Fresh /\ QueueUnserved /\ ServesWhatItCounts

-----------------------------------------------------------------------------
(* Types *)

LEMMA BoundsAreNat == MaxBlocks \in Nat /\ Interrupts \in Nat /\ Faults \in Nat
BY ReceiverAssumption

LEMMA TypeOKInit == Init => TypeOK
<1> SUFFICES ASSUME Init  PROVE TypeOK
  OBVIOUS
<1>1. ReceiverTypeOK
  <2>1. ints \in 0 .. Interrupts /\ faults \in 0 .. Faults
    BY BoundsAreNat DEF Init, ReceiverInit
  <2>2. /\ child \in [Conns -> {"none", "running", "zombie", "reaped"}]
        /\ conn \in [Conns -> {"closed", "queued", "queuedClosed", "open", "openClosed", "reset"}]
        /\ unread \in [Conns -> Nat]
    BY DEF Init, ReceiverInit
  <2>3. QED  BY <2>1, <2>2 DEF Init, ReceiverInit, ReceiverTypeOK
<1>2. toSend \in [Conns -> 0 .. MaxBlocks]  BY BoundsAreNat DEF Init
<1>3. QED  BY <1>1, <1>2 DEF Init, TypeOK

LEMMA TypeOKStep == TypeOK /\ [Next]_vars => TypeOK'
<1> SUFFICES ASSUME TypeOK, [Next]_vars  PROVE TypeOK'
  OBVIOUS
<1> USE BoundsAreNat DEF TypeOK, ReceiverTypeOK
<1>1. CASE Lift(MainNext)
  <2>1. CASE Lift(Listen)  BY <2>1 DEF Lift, Listen, procVars, connVars, senderVars
  <2>2. CASE Lift(TestLoop)  BY <2>2 DEF Lift, TestLoop, procVars, connVars, senderVars
  <2>3. CASE Lift(Accept)  BY <2>3 DEF Lift, Accept, Queue, procVars, senderVars
  <2>4. CASE Lift(AcceptError)  BY <2>4 DEF Lift, AcceptError, procVars, connVars, senderVars
  <2>5. CASE Lift(Fork)  BY <2>5 DEF Lift, Fork, connVars, senderVars
  <2>6. CASE Lift(ForkError)  BY <2>6 DEF Lift, ForkError, procVars, senderVars
  <2>7. CASE Lift(WaitOne)  BY <2>7 DEF Lift, WaitOne, Zombies, mainVars, connVars, senderVars
  <2>8. CASE Lift(WaitNone)  BY <2>8 DEF Lift, WaitNone, Exit, procVars, senderVars
  <2>9. QED  BY <1>1, <2>1, <2>2, <2>3, <2>4, <2>5, <2>6, <2>7, <2>8 DEF MainNext, Lift
<1>2. CASE Lift(HandleSigchld)
  BY <1>2 DEF Lift, HandleSigchld, mainVars, connVars, senderVars
<1>3. CASE Lift(ChildNext)
  <2>1. CASE Lift(ChildRead)
    BY <2>1 DEF Lift, ChildRead, Running, mainVars, procVars, senderVars
  <2>2. CASE Lift(ChildExit)  BY <2>2 DEF Lift, ChildExit, Running, mainVars, senderVars
  <2>3. QED  BY <1>3, <2>1, <2>2 DEF ChildNext, Lift
<1>4. CASE Lift(ChildEintr)  BY <1>4 DEF Lift, ChildEintr, Running, mainVars, senderVars
<1>5. ASSUME NEW c \in Conns, SenderNext(c)  PROVE TypeOK'
  <2>1. CASE SndConnect(c)  BY <2>1 DEF SndConnect, mainVars, procVars
  <2>2. CASE SndSend(c)  BY <2>2 DEF SndSend, mainVars, procVars
  <2>3. CASE SndFail(c)
    <3>1. UNCHANGED <<receiverVars, scriptPc>>  BY <2>3 DEF SndFail
    <3>2. toSend[c] - 1 \in 0 .. MaxBlocks  BY <2>3 DEF SndFail
    <3>3. /\ sndPc' \in [Conns -> {"off", "connect", "send", "done", "refused", "killed"}]
          /\ toSend' \in [Conns -> 0 .. MaxBlocks]
          /\ failed' \in [Conns -> BOOLEAN]
      BY <2>3, <3>2 DEF SndFail
    <3>4. QED  BY <3>1, <3>3 DEF receiverVars, mainVars, procVars, connVars
  <2>4. CASE SndClose(c)  BY <2>4 DEF SndClose, mainVars, procVars
  <2>5. QED  BY <1>5, <2>1, <2>2, <2>3, <2>4 DEF SenderNext
<1>6. CASE ScriptNext
  BY <1>6 DEF ScriptNext, ScriptSettle, ScriptStart, ScriptStarted, ScriptSendersEnded,
              ScriptReceiverEnded, Start, receiverVars, mainVars, procVars, connVars, senderVars
<1>7. CASE UserStart
  BY <1>7 DEF UserStart, Start, receiverVars, mainVars, procVars, connVars
<1>8. CASE UserInterrupt
  BY <1>8 DEF UserInterrupt, HandleSigint, Exit, procVars, connVars, senderVars
<1>9. CASE Stopped \/ UNCHANGED vars
  BY <1>9 DEF Stopped, vars, receiverVars, mainVars, procVars, connVars, senderVars
<1>10. QED  BY <1>1, <1>2, <1>3, <1>4, <1>5, <1>6, <1>7, <1>8, <1>9 DEF Next

\* Every variable keeps its type.
THEOREM TypeCorrect == Spec => []TypeOK
BY TypeOKInit, TypeOKStep, PTL DEF Spec

-----------------------------------------------------------------------------
(* The end of main, and interrupts *)

\* An uninterrupted main ends after its children: the wait is left only when
\* there is none, and none is born after that.
THEOREM MainOutlivesChildren == Spec => []WaitsForChildren
<1>1. Init => WaitsForChildren  BY DEF Init, ReceiverInit, WaitsForChildren
<1>2. TypeOK /\ WaitsForChildren /\ [Next]_vars => WaitsForChildren'
  <2> SUFFICES ASSUME TypeOK, WaitsForChildren, [Next]_vars  PROVE WaitsForChildren'
    OBVIOUS
  <2> USE DEF WaitsForChildren, Running, Zombies, TypeOK, ReceiverTypeOK
  <2>1. CASE Lift(MainNext)
    BY <2>1 DEF Lift, MainNext, Listen, TestLoop, Accept, AcceptError, Fork, ForkError,
                WaitOne, WaitNone, Exit, mainVars, procVars, connVars
  <2>2. CASE Lift(HandleSigchld) \/ Lift(ChildNext) \/ Lift(ChildEintr)
    BY <2>2 DEF Lift, HandleSigchld, ChildNext, ChildRead, ChildExit, ChildEintr,
                mainVars, procVars, connVars
  <2>3. CASE UserInterrupt
    BY <2>3 DEF UserInterrupt, HandleSigint, procVars
  <2>4. ASSUME UNCHANGED <<mainVars, child>>  PROVE WaitsForChildren'
    BY <2>4 DEF mainVars
  <2>5. ASSUME NEW c \in Conns, SenderNext(c)  PROVE UNCHANGED <<mainVars, child>>
    BY <2>5 DEF SenderNext, SndConnect, SndSend, SndFail, SndClose, receiverVars, procVars
  <2>6. CASE ScriptNext \/ UserStart \/ Stopped \/ UNCHANGED vars
    <3>1. UNCHANGED <<mainVars, child>>
      BY <2>6 DEF ScriptNext, ScriptSettle, ScriptStart, ScriptStarted, ScriptSendersEnded,
                  ScriptReceiverEnded, UserStart, Start, Stopped, vars, receiverVars, procVars
    <3>2. QED  BY <2>4, <3>1
  <2>7. QED  BY <2>1, <2>2, <2>3, <2>4, <2>5, <2>6 DEF Next
<1>3. QED  BY <1>1, <1>2, TypeCorrect, PTL DEF Spec

\* Once quit is set main takes no further connection, but for an accept() it
\* is already in.
THEOREM QuitEndsService == Spec => NoneAfterQuit
<1>1. [Next]_vars => [quit /\ mainPc # "accept" => nClients' = nClients /\ mainPc' # "accept"]_vars
  <2> SUFFICES ASSUME Next, quit, mainPc # "accept"
               PROVE  nClients' = nClients /\ mainPc' # "accept"
    OBVIOUS
  <2>1. CASE Lift(MainNext)
    BY <2>1 DEF Lift, MainNext, Listen, TestLoop, WantsMore, Accept, AcceptError, Fork,
                ForkError, WaitOne, WaitNone, Exit, mainVars
  <2>2. CASE Lift(HandleSigchld) \/ Lift(ChildNext) \/ Lift(ChildEintr)
    BY <2>2 DEF Lift, HandleSigchld, ChildNext, ChildRead, ChildExit, ChildEintr, mainVars
  <2>3. CASE UserInterrupt
    BY <2>3 DEF UserInterrupt, HandleSigint, Exit, mainVars
  <2>4. ASSUME NEW c \in Conns, SenderNext(c)  PROVE UNCHANGED mainVars
    BY <2>4 DEF SenderNext, SndConnect, SndSend, SndFail, SndClose, receiverVars
  <2>5. CASE ScriptNext \/ UserStart \/ Stopped
    BY <2>5 DEF ScriptNext, ScriptSettle, ScriptStart, ScriptStarted, ScriptSendersEnded,
                ScriptReceiverEnded, UserStart, Start, Stopped, vars, receiverVars, mainVars
  <2>6. QED  BY <2>1, <2>2, <2>3, <2>4, <2>5 DEF Next, mainVars
<1>2. QED  BY <1>1, PTL DEF Spec, NoneAfterQuit

-----------------------------------------------------------------------------
(* The count of connections *)

LEMMA CountInit == Init => CountInv
<1> SUFFICES ASSUME Init  PROVE CountInv
  OBVIOUS
<1>1. TypeOK  BY TypeOKInit
<1>2. Served \union accepted = {}  BY DEF Init, ReceiverInit, Served
<1>3. ServesWhatItCounts
  <2>1. Cardinality({}) = 0  BY FS_EmptySet
  <2>2. clientsMax \in Nat /\ nClients = 0 /\ faults = 0
    BY ReceiverAssumption DEF Init, ReceiverInit
  <2>3. QED  BY <1>2, <2>1, <2>2 DEF ServesWhatItCounts
<1>4. HoldsOne /\ RoomLeft /\ Fresh /\ QueueUnserved
  BY DEF Init, ReceiverInit, HoldsOne, RoomLeft, Fresh, QueueUnserved, Queue
<1>5. QED  BY <1>1, <1>3, <1>4 DEF CountInv

\* The set that is counted is finite.
LEMMA ServedFinite ==
  ASSUME TypeOK
  PROVE  /\ IsFiniteSet(Served \union accepted)
         /\ Cardinality(Served \union accepted) \in Nat
<1>1. Served \union accepted \subseteq Conns  BY DEF Served, TypeOK, ReceiverTypeOK
<1>2. IsFiniteSet(Conns)  BY ReceiverAssumption
<1>3. QED  BY <1>1, <1>2, FS_Subset, FS_CardinalityType

\* A step that keeps the numbers and the counted set keeps the count.
LEMMA CountKept ==
  ASSUME ServesWhatItCounts, UNCHANGED <<nClients, clientsMax, faults>>,
         Served' \union accepted' = Served \union accepted
  PROVE  ServesWhatItCounts'
BY DEF ServesWhatItCounts

LEMMA CountAccept == CountInv /\ Lift(Accept) => CountInv'
<1> SUFFICES ASSUME CountInv, Lift(Accept)  PROVE CountInv'
  OBVIOUS
<1> USE DEF CountInv
<1>1. TypeOK'  BY TypeOKStep DEF Next, MainNext, Lift
<1>2. PICK c \in Queue : /\ accepted' = {c}
                         /\ conn' = [conn EXCEPT ![c] = IF @ = "queued" THEN "open" ELSE "openClosed"]
  BY DEF Lift, Accept
<1>3. /\ mainPc = "accept" /\ mainPc' = "fork" /\ nClients' = nClients + 1
      /\ UNCHANGED <<clientsMax, faults, child, sndPc>>
  BY DEF Lift, Accept, procVars, senderVars
<1>4. accepted = {} /\ c \in Conns /\ child[c] = "none" /\ conn[c] # "closed"
  BY <1>3 DEF HoldsOne, QueueUnserved, Queue
<1>5. Served' = Served  BY <1>3 DEF Served
<1>6. Cardinality(Served \union {c}) = Cardinality(Served) + 1
  <2>1. IsFiniteSet(Served)  BY <1>4, ServedFinite, FS_Subset
  <2>2. c \notin Served  BY <1>4 DEF Served
  <2>3. QED  BY <2>1, <2>2, FS_AddElement
<1>7. ServesWhatItCounts'
  <2>1. clientsMax' # 0 => nClients' <= clientsMax'
    BY <1>3, ReceiverAssumption DEF RoomLeft, TypeOK, ReceiverTypeOK
  <2>2. Served' \union accepted' = Served \union {c} /\ Served \union accepted = Served
    BY <1>2, <1>4, <1>5
  <2>3. Cardinality(Served) \in Nat /\ faults \in Nat /\ nClients \in Nat
    BY <2>2, ServedFinite DEF TypeOK, ReceiverTypeOK
  <2>4. nClients \in Cardinality(Served) .. Cardinality(Served) + faults
    BY <2>2 DEF ServesWhatItCounts
  <2>5. nClients' \in Cardinality(Served) + 1 .. Cardinality(Served) + 1 + faults'
    BY <1>3, <2>3, <2>4
  <2>6. QED  BY <1>6, <2>1, <2>2, <2>5 DEF ServesWhatItCounts
<1>8. HoldsOne' /\ RoomLeft'  BY <1>2, <1>3, <1>4 DEF HoldsOne, RoomLeft
<1>9. Fresh'  BY <1>2, <1>3, <1>4 DEF Fresh, TypeOK, ReceiverTypeOK
<1>10. QueueUnserved'
  BY <1>2, <1>3, <1>4 DEF QueueUnserved, Queue, TypeOK, ReceiverTypeOK
<1>11. QED  BY <1>1, <1>7, <1>8, <1>9, <1>10

LEMMA CountFork == CountInv /\ (Lift(Fork) \/ Lift(ForkError)) => CountInv'
<1> SUFFICES ASSUME CountInv, Lift(Fork) \/ Lift(ForkError)  PROVE CountInv'
  OBVIOUS
<1> USE DEF CountInv
<1>1. TypeOK'  BY TypeOKStep DEF Next, MainNext, Lift
<1>2. mainPc = "fork" /\ mainPc' = "test" /\ accepted' = {}
      /\ UNCHANGED <<nClients, clientsMax, sndPc>>
  BY DEF Lift, Fork, ForkError, senderVars
<1>3. PICK c \in Conns : accepted = {c}  BY <1>2 DEF HoldsOne
<1>4. c \notin Queue /\ sndPc[c] \notin {"off", "connect"}
  BY <1>3 DEF QueueUnserved, Fresh
<1>5. HoldsOne' /\ RoomLeft'  BY <1>2 DEF HoldsOne, RoomLeft
<1>6. CASE Lift(Fork)
  <2>1. /\ child' = [x \in Conns |-> IF x \in accepted THEN "running" ELSE child[x]]
        /\ UNCHANGED <<conn, faults>>
    BY <1>6 DEF Lift, Fork, connVars
  <2>2. Served' \union accepted' = Served \union accepted
    BY <1>2, <1>3, <2>1 DEF Served
  <2>3. ServesWhatItCounts'  BY <1>2, <2>1, <2>2, CountKept
  <2>4. Fresh' /\ QueueUnserved'
    BY <1>2, <1>3, <1>4, <2>1 DEF Fresh, QueueUnserved, Queue
  <2>5. QED  BY <1>1, <1>5, <2>3, <2>4
<1>7. CASE Lift(ForkError)
  <2>1. /\ conn' = [x \in Conns |-> IF x \in accepted THEN "reset" ELSE conn[x]]
        /\ faults' = faults + 1 /\ UNCHANGED child
    BY <1>7 DEF Lift, ForkError, procVars
  <2>2. Fresh' /\ QueueUnserved'
    BY <1>2, <1>3, <1>4, <2>1 DEF Fresh, QueueUnserved, Queue
  <2>3. ServesWhatItCounts'
    <3>1. Served' \union accepted' = Served  BY <1>2, <2>1 DEF Served
    <3>2. IsFiniteSet(Served) /\ Cardinality(Served) \in Nat
      BY ServedFinite, FS_Subset, FS_CardinalityType
    <3>3. Cardinality(Served \union accepted) \in {Cardinality(Served), Cardinality(Served) + 1}
      BY <1>3, <3>2, FS_AddElement
    <3>4. nClients \in Nat /\ faults \in Nat  BY DEF TypeOK, ReceiverTypeOK
    <3>5. nClients \in Cardinality(Served) .. Cardinality(Served) + faults'
      BY <2>1, <3>2, <3>3, <3>4 DEF ServesWhatItCounts
    <3>6. QED  BY <1>2, <3>1, <3>5 DEF ServesWhatItCounts
  <2>4. QED  BY <1>1, <1>5, <2>2, <2>3
<1>8. QED  BY <1>6, <1>7

\* What every other step keeps: the numbers and the children; connections
\* appear in the queue only when a sender connects, and main enters accept()
\* only if it wants more.
Quiet ==
  /\ UNCHANGED <<nClients, clientsMax, accepted>>
  /\ faults' >= faults
  /\ Served' = Served
  /\ mainPc' = "fork" <=> mainPc = "fork"
  /\ mainPc' = "accept" => mainPc = "accept" \/ WantsMore
  /\ \A c \in Conns : sndPc'[c] \in {"off", "connect"} =>
       sndPc[c] \in {"off", "connect"} /\ conn'[c] = "closed"
  /\ \A c \in Queue' : c \in Queue \/ sndPc[c] = "connect"

LEMMA RangeGrows ==
  ASSUME NEW n \in Nat, NEW f \in Nat, NEW g \in Nat, f <= g, NEW k \in n .. n + f
  PROVE  k \in n .. n + g
OBVIOUS

LEMMA CountQuiet == CountInv /\ TypeOK' /\ Quiet => CountInv'
<1> SUFFICES ASSUME CountInv, TypeOK', Quiet  PROVE CountInv'
  OBVIOUS
<1> USE DEF CountInv, Quiet
<1>1. \A c \in Conns : child'[c] = "none" <=> child[c] = "none"  BY DEF Served
<1>2. HoldsOne'  BY DEF HoldsOne
<1>3. RoomLeft'  BY DEF RoomLeft, WantsMore
<1>4. Fresh'  BY <1>1 DEF Fresh
<1>5. QueueUnserved'
  <2>1. \A c \in Queue' : c \in Conns  BY DEF Queue
  <2>2. QED  BY <1>1, <2>1 DEF QueueUnserved, Fresh, Queue
<1>6. ServesWhatItCounts'
  <2> HIDE DEF Quiet, CountInv
  <2>1. /\ Cardinality(Served \union accepted) \in Nat
        /\ faults \in Nat /\ faults' \in Nat /\ faults' >= faults
    BY ServedFinite DEF Quiet, CountInv, TypeOK, ReceiverTypeOK
  <2>2. nClients \in Cardinality(Served \union accepted) .. Cardinality(Served \union accepted) + faults
    BY DEF ServesWhatItCounts, CountInv
  <2>3. nClients \in Cardinality(Served \union accepted) .. Cardinality(Served \union accepted) + faults'
    BY <2>1, <2>2, RangeGrows
  <2>4. QED  BY <2>3 DEF Quiet, CountInv, ServesWhatItCounts
<1>7. QED  BY <1>2, <1>3, <1>4, <1>5, <1>6

LEMMA MainQuiet ==
  ASSUME CountInv, \/ Lift(Listen) \/ Lift(TestLoop) \/ Lift(AcceptError)
                   \/ Lift(WaitOne) \/ Lift(WaitNone) \/ UserInterrupt
  PROVE  Quiet
<1> USE DEF CountInv, TypeOK, ReceiverTypeOK, Quiet
<1>1. CASE Lift(Listen) \/ Lift(TestLoop) \/ Lift(AcceptError)
  BY <1>1 DEF Lift, Listen, TestLoop, AcceptError, Fresh, Queue, Served, procVars, connVars,
              senderVars
<1>2. CASE Lift(WaitOne)
  <2>1. PICK z \in Zombies : child' = [child EXCEPT ![z] = "reaped"]
    BY <1>2 DEF Lift, WaitOne
  <2>2. Served' = Served  BY <2>1 DEF Served, Zombies
  <2>3. QED  BY <1>2, <2>2 DEF Lift, WaitOne, Fresh, Queue, mainVars, connVars, senderVars
<1>3. CASE Lift(WaitNone)
  BY <1>3 DEF Lift, WaitNone, Exit, Fresh, Queue, Served, procVars, senderVars
<1>4. CASE UserInterrupt
  BY <1>4 DEF UserInterrupt, HandleSigint, Exit, Fresh, Queue, Served, procVars, connVars,
              senderVars
<1>5. QED  BY <1>1, <1>2, <1>3, <1>4

LEMMA ChildrenQuiet ==
  ASSUME CountInv, Lift(HandleSigchld) \/ Lift(ChildNext) \/ Lift(ChildEintr)
  PROVE  Quiet
<1> USE DEF CountInv, TypeOK, ReceiverTypeOK, Quiet
<1>1. CASE Lift(HandleSigchld)
  BY <1>1 DEF Lift, HandleSigchld, Fresh, Queue, Served, mainVars, connVars, senderVars
<1>2. CASE Lift(ChildRead)
  BY <1>2 DEF Lift, ChildRead, Fresh, Queue, Served, mainVars, procVars, senderVars
<1>3. ASSUME NEW r \in Running, NEW s \in {"reset", "closed"},
             conn' = [conn EXCEPT ![r] = s], child' = [child EXCEPT ![r] = "zombie"],
             UNCHANGED <<mainVars, faults, senderVars>>
      PROVE  Quiet
  <2>1. Served' = Served  BY <1>3 DEF Served, Running
  <2>2. \A c \in Queue' : c \in Queue  BY <1>3 DEF Queue
  <2>3. \A c \in Conns : sndPc[c] \in {"off", "connect"} => conn'[c] = "closed"
    BY <1>3 DEF Fresh, Running
  <2>4. QED  BY <1>3, <2>1, <2>2, <2>3 DEF mainVars, senderVars
<1>4. CASE Lift(ChildExit)  BY <1>3, <1>4 DEF Lift, ChildExit
<1>5. CASE Lift(ChildEintr)  BY <1>3, <1>5 DEF Lift, ChildEintr
<1>6. QED  BY <1>1, <1>2, <1>4, <1>5 DEF ChildNext, Lift

LEMMA SendersQuiet ==
  ASSUME CountInv, NEW c \in Conns, SenderNext(c)
  PROVE  Quiet
<1> USE DEF CountInv, TypeOK, ReceiverTypeOK, Quiet
<1>1. CASE SndConnect(c)
  BY <1>1 DEF SndConnect, Fresh, Queue, Served, mainVars, procVars
<1>2. CASE SndSend(c)  BY <1>2 DEF SndSend, Fresh, Queue, Served, mainVars, procVars
<1>3. CASE SndFail(c)
  BY <1>3 DEF SndFail, Fresh, Queue, Served, receiverVars, mainVars, procVars, connVars
<1>4. CASE SndClose(c)
  <2>1. Served' = Served  BY <1>4 DEF SndClose, Served, procVars
  <2>2. \A x \in Queue' : x \in Queue  BY <1>4 DEF SndClose, Queue
  <2>3. \A x \in Conns : sndPc'[x] \in {"off", "connect"} =>
          sndPc[x] \in {"off", "connect"} /\ conn'[x] = "closed"
    BY <1>4 DEF SndClose, Fresh
  <2>4. QED  BY <1>4, <2>1, <2>2, <2>3 DEF SndClose, mainVars
<1>5. QED  BY <1>1, <1>2, <1>3, <1>4 DEF SenderNext

LEMMA StartersQuiet ==
  ASSUME CountInv, ScriptNext \/ UserStart \/ Stopped \/ UNCHANGED vars
  PROVE  Quiet
<1>1. UNCHANGED receiverVars
  BY DEF ScriptNext, ScriptSettle, ScriptStart, ScriptStarted, ScriptSendersEnded,
         ScriptReceiverEnded, UserStart, Start, Stopped, vars
<1>2. \A c \in Conns : sndPc'[c] \in {"off", "connect"} => sndPc[c] \in {"off", "connect"}
  BY DEF ScriptNext, ScriptSettle, ScriptStart, ScriptStarted, ScriptSendersEnded,
         ScriptReceiverEnded, UserStart, Start, Stopped, vars, senderVars, CountInv, TypeOK
<1>3. QED
  BY <1>1, <1>2 DEF Quiet, CountInv, TypeOK, ReceiverTypeOK, Fresh, Queue, Served,
                    receiverVars, mainVars, procVars, connVars

\* main serves what it counts, one child each, and never more than asked for.
THEOREM ServiceIsCounted == Spec => []ServesWhatItCounts
<1>1. CountInv /\ [Next]_vars => CountInv'
  <2> SUFFICES ASSUME CountInv, [Next]_vars  PROVE CountInv'
    OBVIOUS
  <2>1. TypeOK'  BY TypeOKStep DEF CountInv
  <2>2. CASE Lift(Accept)  BY <2>2, CountAccept
  <2>3. CASE Lift(Fork) \/ Lift(ForkError)  BY <2>3, CountFork
  <2>4. CASE \/ Lift(Listen) \/ Lift(TestLoop) \/ Lift(AcceptError)
             \/ Lift(WaitOne) \/ Lift(WaitNone) \/ UserInterrupt
    BY <2>1, <2>4, MainQuiet, CountQuiet
  <2>5. CASE Lift(HandleSigchld) \/ Lift(ChildNext) \/ Lift(ChildEintr)
    BY <2>1, <2>5, ChildrenQuiet, CountQuiet
  <2>6. ASSUME NEW c \in Conns, SenderNext(c)  PROVE CountInv'
    BY <2>1, <2>6, SendersQuiet, CountQuiet
  <2>7. CASE ScriptNext \/ UserStart \/ Stopped \/ UNCHANGED vars
    BY <2>1, <2>7, StartersQuiet, CountQuiet
  <2>8. QED  BY <2>2, <2>3, <2>4, <2>5, <2>6, <2>7 DEF Next, MainNext, Lift
<1>2. QED  BY CountInit, <1>1, PTL DEF Spec, CountInv
=============================================================================
