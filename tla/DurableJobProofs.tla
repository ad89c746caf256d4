--------------------------- MODULE DurableJobProofs ---------------------------
(***************************************************************************)
(* Theorems about the durable job, for every set of callers, of kids and   *)
(* of faults: that its calls follow their protocol, what its processes     *)
(* have to do with each other (whom signals reach, what a verdict says of  *)
(* the command, and that it stands) and that it implements its contract    *)
(* where nothing fails but the server (once, anywhere) and the system      *)
(* gives numbers of ended groups away.                                     *)
(***************************************************************************)
EXTENDS DurableJob, TLAPS

\* The initial state is well typed.
LEMMA InitIsTyped == Init => TypeOK
<1> SUFFICES ASSUME Init PROVE TypeOK
  OBVIOUS
<1> USE DEF Init
<1>1. RecordType BY DEF RecordType, Statuses
<1>2. StarterType BY DEF StarterType, StarterPCs
<1>3. BootType /\ SupType BY DEF BootType, SupType, Codes
<1>4. GroupType BY DEF GroupType, Codes
<1>5. CallType BY DEF CallType, CallPCs
<1> QED BY <1>1, <1>2, <1>3, <1>4, <1>5 DEF TypeOK

\* A step that leaves a component alone leaves its types alone.
LEMMA IdleParts ==
    /\ RecordType /\ UNCHANGED recordVars => RecordType'
    /\ StarterType /\ UNCHANGED starterVars => StarterType'
    /\ BootType /\ UNCHANGED bootVars => BootType'
    /\ SupType /\ UNCHANGED supVars => SupType'
    /\ GroupType /\ UNCHANGED groupVars => GroupType'
    /\ CallType /\ UNCHANGED callVars => CallType'
<1>1. RecordType /\ UNCHANGED recordVars => RecordType'
  BY DEF RecordType, recordVars
<1>2. StarterType /\ UNCHANGED starterVars => StarterType'
  BY DEF StarterType, starterVars
<1>3. BootType /\ UNCHANGED bootVars => BootType'
  BY DEF BootType, bootVars
<1>4. SupType /\ UNCHANGED supVars => SupType'
  BY DEF SupType, supVars
<1>5. GroupType /\ UNCHANGED groupVars => GroupType'
  BY DEF GroupType, groupVars
<1>6. CallType /\ UNCHANGED callVars => CallType'
  BY DEF CallType, callVars
<1> QED BY <1>1, <1>2, <1>3, <1>4, <1>5, <1>6

\* The operators that act on another process keep its types.
LEMMA SignalsAreTyped ==
    /\ GroupType /\ (\E sig \in Signals : SignalGroup(sig)) => GroupType'
    /\ SupType /\ TermSupervisor => SupType'
    /\ \A how \in {"done", "dead"} :
          SupType /\ GroupType /\ SupEnds(how) => SupType' /\ GroupType'
    /\ \A st \in Statuses :
          RecordType /\ Put([meta EXCEPT !.status = st]) => RecordType'
    /\ Alive \in SUBSET Members
<1>1. GroupType /\ (\E sig \in Signals : SignalGroup(sig)) => GroupType'
  BY DEF GroupType, SignalGroup, Codes
<1>2. SupType /\ TermSupervisor => SupType'
  BY DEF SupType, TermSupervisor, SupLive
<1>3. \A how \in {"done", "dead"} :
          SupType /\ GroupType /\ SupEnds(how) => SupType' /\ GroupType'
  BY DEF SupType, GroupType, SupEnds
<1>4. \A st \in Statuses :
          RecordType /\ Put([meta EXCEPT !.status = st]) => RecordType'
  BY DEF RecordType, Put
<1>5. Alive \in SUBSET Members
  BY DEF Alive
<1> QED BY <1>1, <1>2, <1>3, <1>4, <1>5

\* start_job keeps the types.
LEMMA StarterIsTyped == TypeOK /\ Starter => TypeOK'
<1> SUFFICES ASSUME TypeOK, Starter PROVE TypeOK'
  OBVIOUS
<1>t. /\ RecordType /\ StarterType /\ BootType /\ SupType /\ GroupType
      /\ CallType /\ crashed \in BOOLEAN
  BY DEF TypeOK
<1>s. /\ {"starting", "running", "failed", "interrupted", "killed", "succeeded"}
           \subseteq Statuses
      /\ "TERM" \in Signals /\ "KILL" \in Signals
  BY DEF Statuses, Terminal, Signals
<1> USE IdleParts, SignalsAreTyped, <1>t, <1>s DEF TypeOK
<1>1. CASE StarterWrite
  <2>1. StarterType' BY <1>1 DEF StarterWrite, StarterType, StarterPCs
  <2> QED BY <1>1, <2>1 DEF StarterWrite
<1>2. CASE StarterSpawn
  <2>1. StarterType' BY <1>2 DEF StarterSpawn, StarterType, StarterPCs
  <2>2. BootType' BY <1>2 DEF StarterSpawn, BootType, BootLive
  <2> QED BY <1>2, <2>1, <2>2 DEF StarterSpawn
<1>3. CASE StarterSpawnFails
  <2>1. StarterType' BY <1>3 DEF StarterSpawnFails, StarterType, StarterPCs
  <2> QED BY <1>3, <2>1 DEF StarterSpawnFails
<1>4. CASE StarterPollBoot
  <2>1. StarterType' BY <1>4 DEF StarterPollBoot, StarterType, StarterPCs
  <2> QED BY <1>4, <2>1 DEF StarterPollBoot
<1>5. CASE StarterRead
  <2>1. StarterType' BY <1>5 DEF StarterRead, StarterType, StarterPCs
  <2> QED BY <1>5, <2>1 DEF StarterRead
<1>6. CASE StarterReady
  <2>1. StarterType' BY <1>6 DEF StarterReady, StarterType, StarterPCs
  <2> QED BY <1>6, <2>1 DEF StarterReady
<1>7. CASE StarterTermBoot
  <2>1. StarterType' BY <1>7 DEF StarterTermBoot, StarterType, StarterPCs
  <2>2. BootType' BY <1>7 DEF StarterTermBoot, BootType, BootLive
  <2> QED BY <1>7, <2>1, <2>2 DEF StarterTermBoot
<1>8. CASE StarterWaitBoot
  <2>1. StarterType' BY <1>8 DEF StarterWaitBoot, StarterType, StarterPCs
  <2>2. BootType' BY <1>8 DEF StarterWaitBoot, BootType, BootLive
  <2> QED BY <1>8, <2>1, <2>2 DEF StarterWaitBoot
<1>9. CASE StarterTermGroup
  <2>1. StarterType' BY <1>9 DEF StarterTermGroup, StarterType, StarterPCs, RecordType
  <2> QED BY <1>9, <2>1 DEF StarterTermGroup
<1>10. CASE StarterGroupGrace
  <2>1. StarterType' BY <1>10 DEF StarterGroupGrace, StarterType, StarterPCs
  <2> QED BY <1>10, <2>1 DEF StarterGroupGrace
<1>11. CASE StarterTermSup
  <2>1. StarterType' BY <1>11 DEF StarterTermSup, StarterType, StarterPCs
  <2> QED BY <1>11, <2>1 DEF StarterTermSup
<1>12. CASE StarterSupGrace
  <2>1. StarterType' BY <1>12 DEF StarterSupGrace, StarterType, StarterPCs
  <2> QED BY <1>12, <2>1 DEF StarterSupGrace
<1>13. CASE StarterFail
  <2>1. StarterType' BY <1>13 DEF StarterFail, StarterType, StarterPCs
  <2> QED BY <1>13, <2>1 DEF StarterFail
<1> QED BY <1>1, <1>2, <1>3, <1>4, <1>5, <1>6, <1>7, <1>8, <1>9, <1>10, <1>11, <1>12, <1>13 DEF Starter

\* The bootstrap keeps the types.
LEMMA BootIsTyped == TypeOK /\ Boot => TypeOK'
<1> SUFFICES ASSUME TypeOK, Boot PROVE TypeOK'
  OBVIOUS
<1>t. /\ RecordType /\ StarterType /\ BootType /\ SupType /\ GroupType
      /\ CallType /\ crashed \in BOOLEAN
  BY DEF TypeOK
<1>s. /\ {"starting", "running", "failed", "interrupted", "killed", "succeeded"}
           \subseteq Statuses
      /\ "TERM" \in Signals /\ "KILL" \in Signals
  BY DEF Statuses, Terminal, Signals
<1> USE IdleParts, SignalsAreTyped, <1>t, <1>s DEF TypeOK
<1>1. CASE BootGuard
  <2>1. BootType' BY <1>1 DEF BootGuard, BootType, BootLive
  <2> QED BY <1>1, <2>1 DEF BootGuard
<1>2. CASE BootFork
  <2>1. BootType' BY <1>2 DEF BootFork, BootType, BootLive
  <2>2. SupType' BY <1>2 DEF BootFork, SupType, SupLive
  <2> QED BY <1>2, <2>1, <2>2 DEF BootFork
<1>3. CASE BootBind
  <2>1. BootType' BY <1>3 DEF BootBind, BootType, BootLive
  <2> QED BY <1>3, <2>1 DEF BootBind
<1>4. CASE BootExit
  <2>1. BootType' BY <1>4 DEF BootExit, BootType, BootLive
  <2> QED BY <1>4, <2>1 DEF BootExit
<1>5. CASE BootShutdown
  <2>1. BootType' BY <1>5 DEF BootShutdown, BootType, BootLive
  <2> QED BY <1>5, <2>1 DEF BootShutdown
<1>6. CASE BootReap
  <2>1. BootType' BY <1>6 DEF BootReap, BootType, BootLive
  <2> QED BY <1>6, <2>1 DEF BootReap
<1> QED BY <1>1, <1>2, <1>3, <1>4, <1>5, <1>6 DEF Boot

\* The supervisor keeps the types.
LEMMA SupIsTyped == TypeOK /\ Sup => TypeOK'
<1> SUFFICES ASSUME TypeOK, Sup PROVE TypeOK'
  OBVIOUS
<1>t. /\ RecordType /\ StarterType /\ BootType /\ SupType /\ GroupType
      /\ CallType /\ crashed \in BOOLEAN
  BY DEF TypeOK
<1>s. /\ {"starting", "running", "failed", "interrupted", "killed", "succeeded"}
           \subseteq Statuses
      /\ "TERM" \in Signals /\ "KILL" \in Signals
  BY DEF Statuses, Terminal, Signals
<1> USE IdleParts, SignalsAreTyped, <1>t, <1>s DEF TypeOK
<1>1. CASE SupGuard
  <2>1. SupType' BY <1>1 DEF SupGuard, SupType, SupLive
  <2> QED BY <1>1, <2>1 DEF SupGuard
<1>2. CASE SupPublish
  <2>1. RecordType' BY <1>2 DEF SupPublish, RecordType, Put
  <2>2. SupType' BY <1>2 DEF SupPublish, SupType, SupLive
  <2> QED BY <1>2, <2>1, <2>2 DEF SupPublish
<1>3. CASE SupFork
  <2>1. SupType' BY <1>3 DEF SupFork, SupType, SupLive
  <2>2. GroupType' BY <1>3 DEF SupFork, GroupType
  <2> QED BY <1>3, <2>1, <2>2 DEF SupFork
<1>4. CASE SupBind
  <2>1. SupType' BY <1>4 DEF SupBind, SupType, SupLive
  <2> QED BY <1>4, <2>1 DEF SupBind
<1>5. CASE SupRunning
  <2>1. RecordType' BY <1>5 DEF SupRunning, RecordType, Put
  <2>2. SupType' BY <1>5 DEF SupRunning, SupType, SupLive
  <2> QED BY <1>5, <2>1, <2>2 DEF SupRunning
<1>6. CASE SupReap
  <2>1. SupType' BY <1>6 DEF SupReap, SupType, SupLive, GroupType
  <2>2. GroupType' BY <1>6 DEF SupReap, GroupType
  <2> QED BY <1>6, <2>1, <2>2 DEF SupReap
<1>7. CASE SupShutdown
  <2>1. SupType' BY <1>7 DEF SupShutdown, SupType, SupLive, Unwind, GroupType, Codes
  <2>2. GroupType' BY <1>7 DEF SupShutdown, GroupType, Unwind
  <2> QED BY <1>7, <2>1, <2>2 DEF SupShutdown
<1>8. CASE SupRaises
  <2>1. SupType' BY <1>8 DEF SupRaises, SupType, SupLive, Unwind, GroupType, Codes
  <2>2. GroupType' BY <1>8 DEF SupRaises, GroupType, Unwind
  <2> QED BY <1>8, <2>1, <2>2 DEF SupRaises
<1>9. CASE SupEscalate
  <2>1. SupType' BY <1>9 DEF SupEscalate, SupType, SupLive
  <2> QED BY <1>9, <2>1 DEF SupEscalate
<1>10. CASE SupStopWait
  <2>1. SupType' BY <1>10 DEF SupStopWait, SupType, SupLive, GroupType, Codes
  <2>2. GroupType' BY <1>10 DEF SupStopWait, GroupType
  <2> QED BY <1>10, <2>1, <2>2 DEF SupStopWait
<1>11. CASE SupFinalize
  <2>1. RecordType' BY <1>11 DEF SupFinalize, RecordType, Verdict
  <2> QED BY <1>11, <2>1 DEF SupFinalize
<1>12. CASE SupDies
  <2> QED BY <1>12 DEF SupDies
<1> QED BY <1>1, <1>2, <1>3, <1>4, <1>5, <1>6, <1>7, <1>8, <1>9, <1>10, <1>11, <1>12 DEF Sup

\* A running call, of any tool, keeps the types.
LEMMA CallerIsTyped ==
    ASSUME TypeOK, NEW c \in Callers, Caller(c) PROVE TypeOK'
<1>t. /\ RecordType /\ StarterType /\ BootType /\ SupType /\ GroupType
      /\ CallType /\ crashed \in BOOLEAN
  BY DEF TypeOK
<1>s. /\ {"starting", "running", "failed", "interrupted", "killed", "succeeded"}
           \subseteq Statuses
      /\ "TERM" \in Signals /\ "KILL" \in Signals
  BY DEF Statuses, Terminal, Signals
<1> USE IdleParts, SignalsAreTyped, <1>t, <1>s DEF TypeOK
<1>1. CASE Recheck(c)
  <2>1. CallType' BY <1>1 DEF Recheck, CallType, CallPCs, AfterReconcile
  <2> QED BY <1>1, <2>1 DEF Recheck
<1>2. CASE KillSignal(c)
  <2>1. CallType' BY <1>2 DEF KillSignal, CallType, CallPCs
  <2>2. op[c] \in Signals \cup {"status"} BY DEF CallType
  <2>3. GroupType' BY <1>2 DEF KillSignal, SignalGroup, GroupType, Codes
  <2>4. RecordType' BY <1>2 DEF KillSignal, RecordType
  <2> QED BY <1>2, <2>1, <2>3, <2>4 DEF KillSignal
<1>3. CASE KillTooLate(c) \/ RecheckFails(c)
  <2>1. CallType' BY <1>3 DEF KillTooLate, RecheckFails, CallType, CallPCs
  <2> QED BY <1>3, <2>1 DEF KillTooLate, RecheckFails
<1>4. CASE KillPublish(c)
  <2>1. CallType' BY <1>4 DEF KillPublish, CallType, CallPCs
  <2>2. RecordType' BY <1>4 DEF KillPublish, RecordType, CallType
  <2> QED BY <1>4, <2>1, <2>2 DEF KillPublish
<1>5. CASE KillGrace(c)
  <2>1. CallType' BY <1>5 DEF KillGrace, CallType, CallPCs
  <2> QED BY <1>5, <2>1 DEF KillGrace
<1>6. CASE KillEscalate(c)
  <2>1. CallType' BY <1>6 DEF KillEscalate, CallType, CallPCs
  <2> QED BY <1>6, <2>1 DEF KillEscalate
<1>7. CASE WaitRecord(c)
  <2>1. CallType' BY <1>7 DEF WaitRecord, CallType, CallPCs
  <2> QED BY <1>7, <2>1 DEF WaitRecord
<1>8. CASE WaitExpires(c)
  <2>1. CallType' BY <1>8 DEF WaitExpires, CallType, CallPCs
  <2> QED BY <1>8, <2>1 DEF WaitExpires
<1>9. CASE Return(c)
  <2>1. CallType' BY <1>9 DEF Return, CallType, CallPCs
  <2> QED BY <1>9, <2>1 DEF Return
<1> QED BY <1>1, <1>2, <1>3, <1>4, <1>5, <1>6, <1>7, <1>8, <1>9 DEF Caller

\* A new call keeps the types.
LEMMA CallIsTyped ==
    ASSUME TypeOK, NEW c \in Callers, NEW t \in Signals \cup {"status"},
           Call(c, t)
    PROVE  TypeOK'
<1>t. /\ RecordType /\ StarterType /\ BootType /\ SupType /\ GroupType
      /\ CallType /\ crashed \in BOOLEAN
  BY DEF TypeOK
<1>s. /\ {"starting", "running", "failed", "interrupted", "killed", "succeeded"}
           \subseteq Statuses
      /\ "TERM" \in Signals /\ "KILL" \in Signals
  BY DEF Statuses, Terminal, Signals
<1> USE IdleParts, SignalsAreTyped, <1>t, <1>s DEF TypeOK
<1>1. CallType' BY DEF Call, CallType, CallPCs, AfterReconcile
<1> QED BY <1>1 DEF Call

\* The environment keeps the types.
LEMMA EnvironmentIsTyped == TypeOK /\ Environment => TypeOK'
<1> SUFFICES ASSUME TypeOK, Environment PROVE TypeOK'
  OBVIOUS
<1>t. /\ RecordType /\ StarterType /\ BootType /\ SupType /\ GroupType
      /\ CallType /\ crashed \in BOOLEAN
  BY DEF TypeOK
<1>s. /\ {"starting", "running", "failed", "interrupted", "killed", "succeeded"}
           \subseteq Statuses
      /\ "TERM" \in Signals /\ "KILL" \in Signals
  BY DEF Statuses, Terminal, Signals
<1> USE IdleParts, SignalsAreTyped, <1>t, <1>s DEF TypeOK
<1>1. CASE CommandEnds
  <2>1. GroupType' BY <1>1 DEF CommandEnds, CommandExits, GroupType, Codes
  <2> QED BY <1>1, <2>1 DEF CommandEnds, CommandExits
<1>2. CASE PidReused
  <2>1. GroupType' BY <1>2 DEF PidReused, GroupType
  <2> QED BY <1>2, <2>1 DEF PidReused
<1>3. ASSUME NEW k \in Kids, KidForked(k) \/ KidExits(k) PROVE TypeOK'
  <2>1. GroupType' BY <1>3 DEF KidForked, KidExits, GroupType
  <2> QED BY <1>3, <2>1 DEF KidForked, KidExits
<1>4. CASE StartDeadline
  <2>1. StarterType' BY <1>4 DEF StartDeadline, StarterType
  <2> QED BY <1>4, <2>1 DEF StartDeadline
<1>5. CASE RecordAges
  <2>1. RecordType' BY <1>5 DEF RecordAges, RecordType
  <2> QED BY <1>5, <2>1 DEF RecordAges
<1>6. CASE SupKilled BY <1>6 DEF SupKilled
<1>7. CASE SupTermed BY <1>7 DEF SupTermed
<1>8. CASE ServerCrash
  <2>1. RecordType' BY <1>8 DEF ServerCrash, RecordType
  <2>2. StarterType' BY <1>8 DEF ServerCrash, StarterType, StarterPCs
  <2>3. CallType' BY <1>8 DEF ServerCrash, CallType, CallPCs
  <2> QED BY <1>8, <2>1, <2>2, <2>3 DEF ServerCrash
<1> QED BY <1>1, <1>2, <1>3, <1>4, <1>5, <1>6, <1>7, <1>8 DEF Environment

\* Every step keeps the types.
LEMMA NextIsTyped == TypeOK /\ [Next]_vars => TypeOK'
<1> SUFFICES ASSUME TypeOK, [Next]_vars PROVE TypeOK'
  OBVIOUS
<1>1. CASE Next
  BY <1>1, StarterIsTyped, BootIsTyped, SupIsTyped, CallerIsTyped, CallIsTyped,
     EnvironmentIsTyped DEF Next
<1>2. CASE UNCHANGED vars
  BY <1>2, IdleParts DEF vars, TypeOK
<1> QED BY <1>1, <1>2

\* The record, the processes and the calls keep to their types for every set
\* of callers, kids and faults.
THEOREM JobTyped == Spec => []TypeOK
BY InitIsTyped, NextIsTyped, PTL DEF Spec

-------------------------------------------------------------------------------
\* KillAttributed. Its inductive invariant is TypeOK /\ KillProtocol.

\* No call has signalled before the job exists.
LEMMA KillProtocolInit == Init => KillProtocol
BY CallersAssumption
   DEF Init, KillProtocol, LockedKill, KillRecorded, KillDecides, Settled

\* A step of a process that is no tool call: it takes the lock or leaves the
\* record alone, keeps kill_signal, and lets it decide the verdict.
Bystander ==
    /\ UNCHANGED <<pc, sent, lock>>
    /\ \/ UNCHANGED meta
       \/ /\ lock = Nobody
          /\ meta'.kill = meta.kill
          /\ \/ meta'.status = meta.status
             \/ meta.kill # "none" /\ meta'.status \in {"succeeded", "failed"}
                   => starter' = "failed"
    /\ starter = "failed" => starter' = "failed"

\* A step that touches neither the calls nor kill_signal, and settles no
\* status under the lock, keeps the protocol.
LEMMA BystanderKeepsProtocol == KillProtocol /\ Bystander => KillProtocol'
<1> SUFFICES ASSUME KillProtocol, Bystander PROVE KillProtocol'
  OBVIOUS
<1> USE CallersAssumption DEF KillProtocol, Bystander
<1>1. LockedKill' BY DEF LockedKill, Settled
<1>2. KillRecorded' BY DEF KillRecorded
<1>3. KillDecides' BY DEF KillDecides
<1> QED BY <1>1, <1>2, <1>3

\* Recording a status other than the verdicts of the supervisor.
LEMMA PutsStatus ==
    ASSUME TypeOK, NEW st \in Statuses, Put([meta EXCEPT !.status = st])
    PROVE  /\ lock = Nobody /\ lock' = lock
           /\ meta'.kill = meta.kill /\ meta'.status = st
BY DEF TypeOK, RecordType, Put

\* start_job never writes kill_signal, and its one verdict is the failed start.
LEMMA StarterIsBystander == TypeOK /\ Starter => Bystander
<1> SUFFICES ASSUME TypeOK, Starter PROVE Bystander
  OBVIOUS
<1>s. {"starting", "failed", "interrupted"} \subseteq Statuses
  BY DEF Statuses, Terminal
<1> USE PutsStatus, <1>s DEF Bystander, recordVars, callVars
<1>1. CASE StarterWrite
  <2>1. meta'.status = "starting" /\ meta'.kill = meta.kill /\ lock = Nobody
    BY <1>1 DEF StarterWrite
  <2> QED BY <1>1, <2>1 DEF StarterWrite
<1>2. CASE StarterSpawn BY <1>2 DEF StarterSpawn
<1>3. CASE StarterSpawnFails BY <1>3 DEF StarterSpawnFails
<1>4. CASE StarterPollBoot BY <1>4 DEF StarterPollBoot
<1>5. CASE StarterRead BY <1>5 DEF StarterRead
<1>6. CASE StarterReady BY <1>6 DEF StarterReady
<1>7. CASE StarterTermBoot BY <1>7 DEF StarterTermBoot
<1>8. CASE StarterWaitBoot BY <1>8 DEF StarterWaitBoot
<1>9. CASE StarterTermGroup BY <1>9 DEF StarterTermGroup
<1>10. CASE StarterGroupGrace BY <1>10 DEF StarterGroupGrace
<1>11. CASE StarterTermSup BY <1>11 DEF StarterTermSup
<1>12. CASE StarterSupGrace BY <1>12 DEF StarterSupGrace
<1>13. CASE StarterFail BY <1>13 DEF StarterFail
<1> QED BY <1>1, <1>2, <1>3, <1>4, <1>5, <1>6, <1>7, <1>8, <1>9, <1>10,
           <1>11, <1>12, <1>13 DEF Starter

\* The bootstrap touches neither the record nor the calls.
LEMMA BootIsBystander == Boot => Bystander
BY DEF Boot, BootGuard, BootFork, BootBind, BootExit, BootShutdown, BootReap,
       Bystander, recordVars, starterVars, callVars

\* The supervisor writes only while nobody holds the lock, keeps kill_signal and
\* lets it decide the verdict.
LEMMA SupIsBystander == TypeOK /\ Sup => Bystander
<1> SUFFICES ASSUME TypeOK, Sup PROVE Bystander
  OBVIOUS
<1> USE DEF Bystander, recordVars, starterVars, callVars
<1>1. CASE SupPublish BY <1>1 DEF SupPublish, Put, TypeOK, RecordType
<1>2. CASE SupRunning BY <1>2 DEF SupRunning, Put, TypeOK, RecordType
<1>3. CASE SupFinalize
  <2>1. Verdict \in Statuses /\ (meta.kill # "none" => Verdict = "killed")
    BY DEF Verdict, Statuses, Terminal
  <2> QED BY <1>3, <2>1, PutsStatus DEF SupFinalize
<1>4. CASE \/ SupGuard \/ SupFork \/ SupBind \/ SupReap \/ SupShutdown
           \/ SupRaises \/ SupEscalate \/ SupStopWait \/ SupDies
  BY <1>4 DEF SupGuard, SupFork, SupBind, SupReap, SupShutdown, SupRaises,
              SupEscalate, SupStopWait, SupDies
<1> QED BY <1>1, <1>2, <1>3, <1>4 DEF Sup

\* What happens outside the program leaves the protocol alone; a crash of the
\* server loses the calls, and with them the lock.
LEMMA EnvironmentIsHarmless ==
    TypeOK /\ KillProtocol /\ Environment => KillProtocol'
<1> SUFFICES ASSUME TypeOK, KillProtocol, Environment PROVE KillProtocol'
  OBVIOUS
<1>1. CASE Environment /\ ~ServerCrash
  <2>1. Bystander
    BY <1>1 DEF Environment, CommandEnds, CommandExits, PidReused, KidForked,
       KidExits, StartDeadline, RecordAges, SupKilled, SupTermed, Bystander,
       recordVars, starterVars, callVars
  <2> QED BY <2>1, BystanderKeepsProtocol
<1>2. CASE ServerCrash
  BY <1>2, CallersAssumption
  DEF ServerCrash, KillProtocol, LockedKill, KillRecorded, KillDecides, Settled
<1> QED BY <1>1, <1>2

\* A step of a running call: taking the lock with the signal, publishing
\* kill_signal with its release, and deciding interrupted under it.
LEMMA CallerKeepsProtocol ==
    ASSUME TypeOK, KillProtocol, NEW c \in Callers, Caller(c)
    PROVE  KillProtocol'
<1>t. RecordType /\ CallType BY DEF TypeOK
<1>p. LockedKill /\ KillRecorded /\ KillDecides BY DEF KillProtocol
<1> USE <1>t, <1>p, CallersAssumption DEF CallType
<1>1. CASE Recheck(c)
  <2>1. lock = Nobody /\ lock' = lock /\ meta'.kill = meta.kill /\ UNCHANGED sent
    BY <1>1 DEF Recheck, Put, RecordType, recordVars
  <2>2. meta'.status # meta.status => meta'.status = "interrupted"
    BY <1>1 DEF Recheck, Put, RecordType, recordVars
  <2>3. pc[c] # "lost" /\ pc[c] # "publish" /\ pc'[c] # "publish"
        /\ \A d \in Callers \ {c} : pc'[d] = pc[d]
    BY <1>1 DEF Recheck, AfterReconcile
  <2>4. LockedKill' BY <2>1, <2>3 DEF LockedKill
  <2>5. KillRecorded' BY <2>1, <2>3 DEF KillRecorded
  <2>6. KillDecides' BY <1>1, <2>1, <2>2 DEF KillDecides, Recheck, starterVars
  <2> QED BY <2>4, <2>5, <2>6 DEF KillProtocol
<1>2. CASE KillSignal(c)
  <2>1. LockedKill' BY <1>2 DEF KillSignal, LockedKill, Settled
  <2>2. KillRecorded' BY <1>2 DEF KillSignal, KillRecorded
  <2>3. KillDecides' BY <1>2 DEF KillSignal, KillDecides, starterVars
  <2> QED BY <2>1, <2>2, <2>3 DEF KillProtocol
<1>3. CASE KillPublish(c)
  <2>1. lock = c /\ ~Settled BY <1>3 DEF KillPublish, LockedKill
  <2>2. LockedKill' BY <1>3, <2>1 DEF KillPublish, LockedKill
  <2>3. op[c] # "none" /\ meta'.status = meta.status
    BY <1>3 DEF KillPublish, RecordType, Signals
  <2>4. KillRecorded'
    BY <1>3, <2>3 DEF KillPublish, KillRecorded, RecordType
  <2>5. KillDecides' BY <2>1, <2>3 DEF KillDecides, Settled, Terminal
  <2> QED BY <2>2, <2>4, <2>5 DEF KillProtocol
<1>4. CASE \/ RecheckFails(c) \/ KillTooLate(c) \/ KillGrace(c) \/ KillEscalate(c)
           \/ WaitRecord(c) \/ WaitExpires(c) \/ Return(c)
  <2>1. /\ UNCHANGED <<meta, lock, starter>>
        /\ pc[c] # "publish" /\ pc'[c] # "publish"
        /\ \A d \in Callers \ {c} : pc'[d] = pc[d] /\ sent'[d] = sent[d]
        /\ sent'[c] => sent[c] /\ pc[c] # "lost"
    BY <1>4 DEF RecheckFails, KillTooLate, KillGrace, KillEscalate, WaitRecord, WaitExpires,
                Return, recordVars, starterVars
  <2>2. LockedKill' BY <2>1 DEF LockedKill, Settled
  <2>3. KillRecorded' BY <2>1 DEF KillRecorded
  <2>4. KillDecides' BY <2>1 DEF KillDecides
  <2> QED BY <2>2, <2>3, <2>4 DEF KillProtocol
<1> QED BY <1>1, <1>2, <1>3, <1>4 DEF Caller

\* A new call starts with nothing sent and without the lock.
LEMMA CallKeepsProtocol ==
    ASSUME TypeOK, KillProtocol, NEW c \in Callers,
           NEW t \in Signals \cup {"status"}, Call(c, t)
    PROVE  KillProtocol'
<1>1. /\ UNCHANGED <<meta, lock, starter, sent>>
      /\ pc[c] = "idle" /\ pc'[c] # "publish" /\ pc'[c] # "lost"
      /\ \A d \in Callers \ {c} : pc'[d] = pc[d]
  BY DEF TypeOK, CallType, Call, AfterReconcile, recordVars, starterVars
<1>2. LockedKill' BY <1>1 DEF KillProtocol, LockedKill, Settled
<1>3. KillRecorded' BY <1>1 DEF KillProtocol, KillRecorded
<1>4. KillDecides' BY <1>1 DEF KillProtocol, KillDecides
<1> QED BY <1>2, <1>3, <1>4 DEF KillProtocol

\* Every step keeps the protocol.
LEMMA NextKeepsProtocol == TypeOK /\ KillProtocol /\ [Next]_vars => KillProtocol'
<1> SUFFICES ASSUME TypeOK, KillProtocol, [Next]_vars PROVE KillProtocol'
  OBVIOUS
<1>1. CASE Starter \/ Boot \/ Sup
  BY <1>1, StarterIsBystander, BootIsBystander, SupIsBystander,
     BystanderKeepsProtocol
<1>2. CASE UNCHANGED vars
  BY <1>2 DEF vars, recordVars, starterVars, callVars, KillProtocol, LockedKill,
              KillRecorded, KillDecides, Settled
<1>3. CASE Environment BY <1>3, EnvironmentIsHarmless
<1>4. ASSUME NEW c \in Callers, Caller(c) PROVE KillProtocol'
  BY <1>4, CallerKeepsProtocol
<1>5. ASSUME NEW c \in Callers, NEW t \in Signals \cup {"status"}, Call(c, t)
      PROVE  KillProtocol'
  BY <1>5, CallKeepsProtocol
<1> QED BY <1>1, <1>2, <1>3, <1>4, <1>5 DEF Next

\* What the protocol says of a call that has signalled.
LEMMA ProtocolAttributes == TypeOK /\ KillProtocol => KillAttributed
BY DEF KillProtocol, LockedKill, KillRecorded, KillDecides, KillAttributed,
       Settled, Terminal

\* Whatever fails, and however many callers kill the job at once, a delivered
\* kill is what the record says the job ended by.
THEOREM KillIsAttributed == Spec => []KillAttributed
BY InitIsTyped, NextIsTyped, KillProtocolInit, NextKeepsProtocol,
   ProtocolAttributes, PTL DEF Spec

-----------------------------------------------------------------------------
\* The processes of a job.

\* In which order the processes come: no bootstrap before its spawn, no supervisor
\* before its fork, no command before Popen and no recorded command before that.
Order ==
    /\ starter \in {"write", "spawn"} => boot = "none"
    /\ boot \in {"none", "early", "guarded"} => sup = "none"
    /\ sup \in {"none", "forked", "guarded", "published"} => cmd = "none"
    /\ sup \in {"none", "forked", "guarded", "published", "popen", "spawned"} => ~ meta.pid
    /\ cmd = "none" => cmdExit = "none"

\* The number of a group is given away when nothing of the group is left.
Reuse == reused => cmd = "gone" /\ \A k \in Kids : kids[k] # "alive"

\* A code or a verdict of success is that of a command that has been reaped.
Success ==
    /\ exitCode = "zero" => cmdExit = "zero" /\ cmd = "gone"
    /\ SucceededMeansExitZero

Ended == sup = "done" => Settled

VInv == Order /\ Reuse /\ Success /\ InterruptedMeansRecordedGone /\ Ended /\ StrangersSpared

\* start_job signals only what it still recognises, and reports an interrupted job
\* after another look.
LEMMA StarterKeepsVerdicts ==
    ASSUME TypeOK, VInv, Starter
    PROVE  VInv'
<1> USE DEF VInv, Reuse, Success, Ended, SucceededMeansExitZero, InterruptedMeansRecordedGone,
            StrangersSpared, Order, TypeOK, RecordType, GroupType, SupType, BootType, Settled, Terminal,
            recordVars, starterVars, bootVars, supVars, groupVars, callVars,
            Put, SignalGroup, SupEnds, TermSupervisor, CommandSeen, BothGone, MatchesSnapshot,
            Unwind, Verdict, SupLive, BootLive, Alive, Members
<1>1. CASE StarterWrite
  BY <1>1 DEF StarterWrite
<1>2. CASE StarterSpawn
  BY <1>2 DEF StarterSpawn
<1>3. CASE StarterSpawnFails
  BY <1>3 DEF StarterSpawnFails
<1>4. CASE StarterPollBoot
  BY <1>4 DEF StarterPollBoot
<1>5. CASE StarterRead
  BY <1>5 DEF StarterRead
<1>6. CASE StarterReady
  BY <1>6 DEF StarterReady
<1>7. CASE StarterTermBoot
  BY <1>7 DEF StarterTermBoot
<1>8. CASE StarterWaitBoot
  BY <1>8 DEF StarterWaitBoot
<1>9. CASE StarterTermGroup
  BY <1>9 DEF StarterTermGroup
<1>10. CASE StarterGroupGrace
  BY <1>10 DEF StarterGroupGrace
<1>11. CASE StarterTermSup
  BY <1>11 DEF StarterTermSup
<1>12. CASE StarterSupGrace
  BY <1>12 DEF StarterSupGrace
<1>13. CASE StarterFail
  BY <1>13 DEF StarterFail
<1> QED
  BY <1>1, <1>2, <1>3, <1>4, <1>5, <1>6, <1>7, <1>8, <1>9, <1>10,
     <1>11, <1>12, <1>13 DEF Starter

\* The bootstrap touches no record and no command but through the supervisor's end.
LEMMA BootKeepsVerdicts ==
    ASSUME TypeOK, VInv, Boot
    PROVE  VInv'
<1> USE DEF VInv, Reuse, Success, Ended, SucceededMeansExitZero, InterruptedMeansRecordedGone,
            StrangersSpared, Order, TypeOK, RecordType, GroupType, SupType, BootType, Settled, Terminal,
            recordVars, starterVars, bootVars, supVars, groupVars, callVars,
            Put, SignalGroup, SupEnds, TermSupervisor, CommandSeen, BothGone, MatchesSnapshot,
            Unwind, Verdict, SupLive, BootLive, Alive, Members
<1>1. CASE BootGuard
  BY <1>1 DEF BootGuard
<1>2. CASE BootFork
  BY <1>2 DEF BootFork
<1>3. CASE BootBind
  BY <1>3 DEF BootBind
<1>4. CASE BootExit
  BY <1>4 DEF BootExit
<1>5. CASE BootShutdown
  BY <1>5 DEF BootShutdown
<1>6. CASE BootReap
  BY <1>6 DEF BootReap
<1> QED
  BY <1>1, <1>2, <1>3, <1>4, <1>5, <1>6 DEF Boot

\* The supervisor collects the exit of the command before it writes its verdict.
LEMMA SupKeepsVerdicts ==
    ASSUME TypeOK, VInv, Sup
    PROVE  VInv'
<1> USE DEF VInv, Reuse, Success, Ended, SucceededMeansExitZero, InterruptedMeansRecordedGone,
            StrangersSpared, Order, TypeOK, RecordType, GroupType, SupType, BootType, Settled, Terminal,
            recordVars, starterVars, bootVars, supVars, groupVars, callVars,
            Put, SignalGroup, SupEnds, TermSupervisor, CommandSeen, BothGone, MatchesSnapshot,
            Unwind, Verdict, SupLive, BootLive, Alive, Members
<1>1. CASE SupGuard
  BY <1>1 DEF SupGuard
<1>2. CASE SupPublish
  BY <1>2 DEF SupPublish
<1>3. CASE SupFork
  BY <1>3 DEF SupFork
<1>4. CASE SupBind
  BY <1>4 DEF SupBind
<1>5. CASE SupRunning
  BY <1>5 DEF SupRunning
<1>6. CASE SupReap
  BY <1>6 DEF SupReap
<1>7. CASE SupShutdown
  BY <1>7 DEF SupShutdown
<1>8. CASE SupRaises
  BY <1>8 DEF SupRaises
<1>9. CASE SupEscalate
  BY <1>9 DEF SupEscalate
<1>10. CASE SupStopWait
  BY <1>10 DEF SupStopWait
<1>11. CASE SupFinalize
  BY <1>11 DEF SupFinalize
<1>12. CASE SupDies
  BY <1>12 DEF SupDies
<1> QED
  BY <1>1, <1>2, <1>3, <1>4, <1>5, <1>6, <1>7, <1>8, <1>9, <1>10,
     <1>11, <1>12 DEF Sup

\* A call interrupts a job only under the lock, after a look at its processes.
LEMMA CallerKeepsVerdicts ==
    ASSUME TypeOK, VInv, NEW c \in Callers, Caller(c)
    PROVE  VInv'
<1> USE DEF VInv, Reuse, Success, Ended, SucceededMeansExitZero, InterruptedMeansRecordedGone,
            StrangersSpared, Order, TypeOK, RecordType, GroupType, SupType, BootType, Settled, Terminal,
            recordVars, starterVars, bootVars, supVars, groupVars, callVars,
            Put, SignalGroup, SupEnds, TermSupervisor, CommandSeen, BothGone, MatchesSnapshot,
            Unwind, Verdict, SupLive, BootLive, Alive, Members
<1>1. CASE Recheck(c)
  BY <1>1 DEF Recheck
<1>2. CASE KillSignal(c)
  BY <1>2 DEF KillSignal
<1>3. CASE KillTooLate(c) \/ RecheckFails(c)
  BY <1>3 DEF KillTooLate, RecheckFails
<1>4. CASE KillPublish(c)
  BY <1>4 DEF KillPublish
<1>5. CASE KillGrace(c)
  BY <1>5 DEF KillGrace
<1>6. CASE KillEscalate(c)
  BY <1>6 DEF KillEscalate
<1>7. CASE WaitRecord(c)
  BY <1>7 DEF WaitRecord
<1>8. CASE WaitExpires(c)
  BY <1>8 DEF WaitExpires
<1>9. CASE Return(c)
  BY <1>9 DEF Return
<1> QED
  BY <1>1, <1>2, <1>3, <1>4, <1>5, <1>6, <1>7, <1>8, <1>9 DEF Caller

\* The command, the system and faults.
LEMMA EnvironmentKeepsVerdicts ==
    ASSUME TypeOK, VInv, Environment
    PROVE  VInv'
<1> USE DEF VInv, Reuse, Success, Ended, SucceededMeansExitZero, InterruptedMeansRecordedGone,
            StrangersSpared, Order, TypeOK, RecordType, GroupType, SupType, BootType, Settled, Terminal,
            recordVars, starterVars, bootVars, supVars, groupVars, callVars,
            Put, SignalGroup, SupEnds, TermSupervisor, CommandSeen, BothGone, MatchesSnapshot,
            Unwind, Verdict, SupLive, BootLive, Alive, Members
<1>1. CASE PidReused
  <2>1. \A k \in Kids : k # Leader
    BY KidsAssumption
  <2>2. \A k \in Kids : kids[k] # "alive"
    BY <1>1, <2>1 DEF PidReused
  <2> QED
    BY <1>1, <2>2 DEF PidReused
<1>2. CASE StartDeadline
  BY <1>2 DEF StartDeadline
<1>3. CASE RecordAges
  BY <1>3 DEF RecordAges
<1>4. CASE SupKilled
  BY <1>4 DEF SupKilled
<1>5. CASE SupTermed
  BY <1>5 DEF SupTermed
<1>6. CASE ServerCrash
  BY <1>6 DEF ServerCrash
<1>7. ASSUME NEW code \in {"zero", "nonzero"}, CommandExits(code)
      PROVE  VInv'
  BY <1>7 DEF CommandExits
<1>8. ASSUME NEW k \in Kids, KidForked(k) \/ KidExits(k)
      PROVE  VInv'
  BY <1>8 DEF KidForked, KidExits
<1> QED
  BY <1>1, <1>2, <1>3, <1>4, <1>5, <1>6, <1>7, <1>8 DEF Environment, CommandEnds

LEMMA VerdictsNext ==
    ASSUME TypeOK, VInv, [Next]_vars
    PROVE  VInv'
<1>1. ASSUME NEW c \in Callers, NEW t \in Signals \cup {"status"}, Call(c, t)
      PROVE  VInv'
  BY <1>1 DEF Call, recordVars, starterVars, bootVars, supVars, groupVars, VInv, Order, Reuse,
              Success, Ended, SucceededMeansExitZero, InterruptedMeansRecordedGone,
              StrangersSpared, Settled
<1>2. CASE UNCHANGED vars
  BY <1>2 DEF vars, recordVars, starterVars, bootVars, supVars, groupVars, VInv, Order, Reuse,
              Success, Ended, SucceededMeansExitZero, InterruptedMeansRecordedGone,
              StrangersSpared, Settled
<1> QED
  BY <1>1, <1>2, StarterKeepsVerdicts, BootKeepsVerdicts, SupKeepsVerdicts,
     CallerKeepsVerdicts, EnvironmentKeepsVerdicts DEF Next

LEMMA VerdictsInit == Init => VInv
BY DEF Init, VInv, Order, Reuse, Success, Ended, SucceededMeansExitZero,
       InterruptedMeansRecordedGone, StrangersSpared

\* The order of the processes and what verdicts mean, in every reachable state.
THEOREM VerdictsKept == Spec => [](TypeOK /\ VInv)
BY JobTyped, VerdictsInit, VerdictsNext, PTL DEF Spec

\* _signal_process_group and its callers: whatever fails and however late a signal
\* comes, none reaches a group that got its number after the job's.
THEOREM NoStrangerIsHit == Spec => []StrangersSpared
<1>1. VInv => StrangersSpared
  BY DEF VInv
<1> QED
  BY <1>1, VerdictsKept, PTL

\* supervise_job and _reconcile_metadata: "succeeded" is an exit with 0 that has been
\* collected, and no job is interrupted while its recorded command is there.
THEOREM VerdictsAreTrue == Spec => []VerdictTrue
<1>1. VInv => VerdictTrue
  BY DEF VInv, Success, VerdictTrue
<1> QED
  BY <1>1, VerdictsKept, PTL

\* _interrupt_stale_record and job_kill leave the verdict of the supervisor alone,
\* whatever they have read before.
THEOREM VerdictIsFinal == Spec => VerdictStands
<1>1. TypeOK /\ VInv /\ [Next]_vars =>
        [sup = "done" /\ starter # "fail" => meta'.status = meta.status]_vars
  <2> SUFFICES ASSUME TypeOK, VInv, Next, sup = "done", starter # "fail"
               PROVE  meta'.status = meta.status
    OBVIOUS
  <2> USE DEF TypeOK, RecordType, VInv, Order, Ended, Settled, Terminal, recordVars, BothGone, Put
  <2>1. CASE Starter
    BY <2>1 DEF Starter, StarterWrite, StarterSpawn, StarterSpawnFails, StarterPollBoot,
                StarterRead, StarterReady, StarterTermBoot, StarterWaitBoot, StarterTermGroup,
                StarterGroupGrace, StarterTermSup, StarterSupGrace, StarterFail
  <2>2. CASE Boot
    BY <2>2 DEF Boot, BootGuard, BootFork, BootBind, BootExit, BootShutdown, BootReap
  <2>3. CASE Sup
    BY <2>3 DEF Sup, SupGuard, SupPublish, SupFork, SupBind, SupRunning, SupReap, SupShutdown,
                SupRaises, SupEscalate, SupStopWait, SupFinalize, SupDies
  <2>4. CASE Environment
    BY <2>4 DEF Environment, CommandEnds, CommandExits, PidReused, KidForked, KidExits,
                StartDeadline, RecordAges, SupKilled, SupTermed, ServerCrash
  <2>5. ASSUME NEW c \in Callers, Caller(c)
        PROVE  meta'.status = meta.status
    BY <2>5 DEF Caller, Recheck, RecheckFails, KillSignal, KillTooLate, KillPublish, KillGrace, KillEscalate,
                WaitRecord, WaitExpires, Return
  <2>6. ASSUME NEW c \in Callers, NEW t \in Signals \cup {"status"}, Call(c, t)
        PROVE  meta'.status = meta.status
    BY <2>6 DEF Call
  <2> QED
    BY <2>1, <2>2, <2>3, <2>4, <2>5, <2>6 DEF Next
<1> QED
  BY <1>1, VerdictsKept, PTL DEF Spec, VerdictStands

-------------------------------------------------------------------------------
\* What job_kill leaves behind.

\* Nothing of the group of the command runs any more.
GroupOver == cmd \in {"zombie", "gone"} /\ \A k \in Kids : kids[k] # "alive"

\* A call that has signalled found the command. Once it does not mean to signal
\* again, nothing is left of the group.
KillLeft(c) ==
    /\ pc[c] \in {"idle", "recheck", "signal"} => ~ sent[c]
    /\ sent[c] => cmd # "none"
    /\ sent[c] /\ \/ pc[c] = "publish" /\ op[c] = "KILL"
                  \/ pc[c] \in {"wait", "recheckWait", "recheckLast", "done"}
         => GroupOver

KillsLeft == \A c \in Callers : KillLeft(c)

\* A signal ends processes and begins none.
LEMMA SignalBeginsNothing ==
    ASSUME TypeOK, NEW sig \in Signals, SignalGroup(sig)
    PROVE  /\ cmd # "none" => cmd' # "none"
           /\ cmd = "none" => cmd' = "none"
           /\ GroupOver => GroupOver'
           /\ sig = "KILL" /\ cmd # "none" => GroupOver'
BY DEF TypeOK, GroupType, SignalGroup, GroupOver, Signals

\* The group of a command that is over stays without members: no one of the other
\* processes begins a second command, and only members beget members.
LEMMA OverStaysOver ==
    ASSUME TypeOK, VInv, [Next]_vars
    PROVE  (cmd # "none" => cmd' # "none") /\ (GroupOver => GroupOver')
<1> USE DEF TypeOK, GroupType, VInv, Order, GroupOver, Signals, recordVars, starterVars,
            bootVars, supVars, groupVars, callVars, SupEnds, SignalGroup, TermSupervisor, Unwind
<1>1. CASE Starter
  BY <1>1 DEF Starter, StarterWrite, StarterSpawn, StarterSpawnFails, StarterPollBoot,
              StarterRead, StarterReady, StarterTermBoot, StarterWaitBoot, StarterTermGroup,
              StarterGroupGrace, StarterTermSup, StarterSupGrace, StarterFail
<1>2. CASE Boot
  BY <1>2 DEF Boot, BootGuard, BootFork, BootBind, BootExit, BootShutdown, BootReap
<1>3. CASE Sup
  BY <1>3 DEF Sup, SupGuard, SupPublish, SupFork, SupBind, SupRunning, SupReap, SupShutdown,
              SupRaises, SupEscalate, SupStopWait, SupFinalize, SupDies
<1>4. CASE Environment
  BY <1>4 DEF Environment, CommandEnds, CommandExits, PidReused, KidForked, KidExits,
              StartDeadline, RecordAges, SupKilled, SupTermed, ServerCrash
<1>5. ASSUME NEW c \in Callers, Caller(c)
      PROVE  (cmd # "none" => cmd' # "none") /\ (GroupOver => GroupOver')
  <2>1. pc[c] = "signal" => op[c] \in Signals
    BY DEF CallType
  <2> QED
    BY <1>5, <2>1 DEF Caller, Recheck, RecheckFails, KillSignal, KillTooLate, KillPublish, KillGrace,
                      KillEscalate, WaitRecord, WaitExpires, Return
<1>6. ASSUME NEW c \in Callers, NEW t \in Signals \cup {"status"}, Call(c, t)
      PROVE  (cmd # "none" => cmd' # "none") /\ (GroupOver => GroupOver')
  BY <1>6 DEF Call
<1>7. CASE UNCHANGED vars
  BY <1>7 DEF vars
<1> QED
  BY <1>1, <1>2, <1>3, <1>4, <1>5, <1>6, <1>7 DEF Next

\* A call that takes no step keeps what it left, as nothing begins again.
LEMMA OthersKeepKillLeft ==
    ASSUME TypeOK, VInv, [Next]_vars, NEW d \in Callers, KillLeft(d),
           pc'[d] = pc[d], op'[d] = op[d], sent'[d] = sent[d]
    PROVE  KillLeft(d)'
<1> HIDE DEF VInv
<1> QED
  BY OverStaysOver DEF KillLeft

\* The steps of a call of its own.
LEMMA CallerKeepsKillLeft ==
    ASSUME TypeOK, VInv, NEW c \in Callers, KillLeft(c), Caller(c)
    PROVE  KillLeft(c)'
<1>n. [Next]_vars
  BY DEF Next
<1>1. (cmd # "none" => cmd' # "none") /\ (GroupOver => GroupOver')
  BY <1>n, OverStaysOver
<1>t. /\ pc \in [Callers -> CallPCs] /\ op \in [Callers -> Signals \cup {"status"}]
      /\ sent \in [Callers -> BOOLEAN]
      /\ pc[c] \in {"signal", "publish"} => op[c] \in Signals
  BY DEF TypeOK, CallType
<1>2. CASE KillSignal(c)
  <2>1. SignalGroup(op[c]) /\ op[c] \in Signals /\ cmd # "none"
    BY <1>2, <1>t DEF KillSignal, CommandSeen
  <2>2. cmd' # "none" /\ (op[c] = "KILL" => GroupOver')
    BY <2>1, SignalBeginsNothing
  <2> QED
    BY <1>2, <1>t, <2>2 DEF KillSignal, KillLeft, CallPCs
<1>3. CASE KillGrace(c)
  <2>1. cmd \in {"none", "running", "zombie", "gone"} /\ cmd' = cmd /\ kids' = kids
    BY <1>3 DEF KillGrace, groupVars, TypeOK, GroupType
  <2>2. ~ GroupSeen /\ cmd # "none" => GroupOver
    BY <2>1, KidsAssumption DEF GroupSeen, Alive, Members, GroupOver
  <2> QED
    BY <1>3, <1>t, <1>1, <2>1, <2>2 DEF KillGrace, KillLeft
<1>4. CASE KillEscalate(c)
  <2>1. pc'[c] = "wait" => SignalGroup("KILL")
    BY <1>4, <1>t DEF KillEscalate
  <2>2. pc'[c] = "wait" /\ cmd # "none" => GroupOver'
    BY <2>1, SignalBeginsNothing DEF Signals
  <2> QED
    BY <1>4, <1>t, <1>1, <2>2 DEF KillEscalate, KillLeft
<1>5. CASE KillPublish(c)
  BY <1>5, <1>t, <1>1 DEF KillPublish, KillLeft, Signals
<1>6. CASE Recheck(c)
  BY <1>6, <1>t, <1>1 DEF Recheck, KillLeft, AfterReconcile
<1>7. CASE RecheckFails(c) \/ KillTooLate(c) \/ WaitRecord(c) \/ WaitExpires(c) \/ Return(c)
  BY <1>7, <1>t, <1>1 DEF RecheckFails, KillTooLate, WaitRecord, WaitExpires, Return, KillLeft
<1> QED
  BY <1>2, <1>3, <1>4, <1>5, <1>6, <1>7 DEF Caller

LEMMA KillsLeftNext ==
    ASSUME TypeOK, VInv, KillsLeft, [Next]_vars
    PROVE  KillsLeft'
<1> SUFFICES ASSUME NEW d \in Callers PROVE KillLeft(d)'
  BY DEF KillsLeft
<1>0. KillLeft(d) /\ pc[d] \in CallPCs /\ CallType
  BY DEF KillsLeft, TypeOK, CallType
<1>1. CASE Starter \/ Boot \/ Sup \/ UNCHANGED vars
  <2>1. UNCHANGED callVars
    BY <1>1 DEF vars, callVars, Starter, StarterWrite, StarterSpawn, StarterSpawnFails,
                StarterPollBoot, StarterRead, StarterReady, StarterTermBoot, StarterWaitBoot,
                StarterTermGroup, StarterGroupGrace, StarterTermSup, StarterSupGrace, StarterFail,
                Boot, BootGuard, BootFork, BootBind, BootExit, BootShutdown, BootReap,
                Sup, SupGuard, SupPublish, SupFork, SupBind, SupRunning, SupReap, SupShutdown,
                SupRaises, SupEscalate, SupStopWait, SupFinalize, SupDies
  <2> QED
    BY <1>0, <2>1, OthersKeepKillLeft DEF callVars
<1>2. CASE ServerCrash
  BY <1>2 DEF ServerCrash, KillLeft
<1>3. CASE Environment /\ ~ ServerCrash
  <2>1. UNCHANGED callVars
    BY <1>3 DEF callVars, Environment, CommandEnds, CommandExits, PidReused, KidForked, KidExits,
                StartDeadline, RecordAges, SupKilled, SupTermed
  <2> QED
    BY <1>0, <2>1, OthersKeepKillLeft DEF callVars
<1>4. ASSUME NEW c \in Callers, Caller(c)
      PROVE  KillLeft(d)'
  <2>1. d # c => pc'[d] = pc[d] /\ op'[d] = op[d] /\ sent'[d] = sent[d]
    BY <1>4, <1>0 DEF CallType, Caller, Recheck, RecheckFails, KillSignal, KillTooLate, KillPublish, KillGrace,
                KillEscalate, WaitRecord, WaitExpires, Return
  <2> QED
    BY <1>0, <1>4, <2>1, OthersKeepKillLeft, CallerKeepsKillLeft
<1>5. ASSUME NEW c \in Callers, NEW t \in Signals \cup {"status"}, Call(c, t)
      PROVE  KillLeft(d)'
  <2>1. CASE d = c
    <3>1. ~ sent'[d]
      BY <1>0, <1>5, <2>1 DEF Call, KillLeft
    <3> QED
      BY <3>1 DEF KillLeft
  <2>2. CASE d # c
    <3>1. pc'[d] = pc[d] /\ op'[d] = op[d] /\ sent'[d] = sent[d]
      BY <1>0, <1>5, <2>2 DEF CallType, Call
    <3> QED
      BY <1>0, <3>1, OthersKeepKillLeft
  <2> QED
    BY <2>1, <2>2
<1> QED
  BY <1>1, <1>2, <1>3, <1>4, <1>5 DEF Next

\* What every call has left of the group it signalled, in every reachable state.
THEOREM KillsAreFollowed == Spec => []KillsLeft
<1>1. Init => KillsLeft
  BY DEF Init, KillsLeft, KillLeft
<1> QED
  BY <1>1, JobTyped, VerdictsInit, VerdictsNext, KillsLeftNext, PTL DEF Spec

\* job_kill: a call that has signalled and only waits for the record or has returned
\* has left neither a member that ignores SIGTERM nor one that outlived its leader.
THEOREM KilledGroupIsGone == Spec => []KillLeavesNothing
<1>1. KillsLeft => KillLeavesNothing
  BY DEF KillsLeft, KillLeft, KillLeavesNothing, GroupOver
<1> QED
  BY <1>1, KillsAreFollowed, PTL

-----------------------------------------------------------------------------
\* The contract of a job.

\* The server may die and numbers may be given away. What else may fail (a start
\* slower than its deadline, a supervisor that is killed, a disk that is full) makes
\* the job report things its contract does not have.
CalmFaults == Faults \subseteq {"pid_reuse", "server_crash"}

\* start_job does not come to clean up after itself, and its bootstrap does as it is told.
StartGoesWell ==
    /\ starter \in {"write", "spawn", "poll", "read", "ready", "started", "dead"}
    /\ ~ late /\ (bootSeen => boot = "ok")
    /\ starter = "write" <=> meta.status = "absent"
    /\ starter \in {"write", "spawn"} => boot = "none"
    /\ starter \in {"poll", "read", "ready", "started"} => boot # "none"
    /\ starter = "ready" => bootSeen
    /\ boot \in {"none", "early", "guarded", "forked", "waiting", "ok"} /\ ~ bootTerm

\* The supervisor goes its way to the end, and the record follows it.
SupervisorGoesWell ==
    /\ sup \notin {"stopping", "reaping", "dead"} /\ supTerm = "none"
    /\ sup = "none" <=> boot \in {"none", "early", "guarded"}
    /\ meta.sup <=> sup \notin {"none", "forked", "guarded"}
    /\ boot = "ok" => meta.sup
    /\ cmd \in {"running", "zombie"} <=> sup \in {"popen", "spawned", "running"}
    /\ sup \in {"none", "forked", "guarded", "published"} => cmd = "none"
    /\ sup \in {"none", "forked", "guarded", "published", "popen", "spawned"} =>
           meta.status \in {"absent", "starting", "interrupted"}
    /\ sup = "running" => meta.status = "running"
    /\ sup = "finalizing" => meta.status \in {"starting", "running"}
    /\ sup = "done" => Settled
    /\ exitCode = "zero" => cmd = "gone"

\* Only a job whose server died before it spawned anything grows stale, and is
\* interrupted before its command has begun.
OnlyOrphansAge ==
    /\ stale \/ meta.status = "interrupted" => starter = "dead" /\ boot = "none"
    /\ \A c \in Callers : /\ pc[c] \in {"recheck", "recheckWait", "recheckLast"}
                               => starter = "dead" /\ boot = "none"
                          /\ pc[c] = "publish" => cmd # "none"
                          /\ starter = "write" => pc[c] = "idle"

Calm == StartGoesWell /\ SupervisorGoesWell /\ OnlyOrphansAge

\* start_job finds its bootstrap and the record in order.
LEMMA StarterStaysCalm ==
    ASSUME CalmFaults, TypeOK, VInv, Calm, Starter
    PROVE  Calm'
<1> USE DEF CalmFaults, StartGoesWell, SupervisorGoesWell, OnlyOrphansAge, Calm, TypeOK, RecordType, StarterType, BootType,
            SupType, GroupType, VInv, Order, Ended, Success, Settled, Terminal, recordVars, starterVars, bootVars,
            supVars, groupVars, callVars, Put, SignalGroup, SupEnds, TermSupervisor, CommandSeen, SupSeen,
            BothGone, LooksStale, MatchesSnapshot, Unwind, Verdict, SupLive, BootLive
<1>1. CASE StarterWrite
  BY <1>1 DEF StarterWrite
<1>2. CASE StarterSpawn
  BY <1>2 DEF StarterSpawn
<1>3. CASE StarterSpawnFails
  BY <1>3 DEF StarterSpawnFails
<1>4. CASE StarterPollBoot
  BY <1>4 DEF StarterPollBoot
<1>5. CASE StarterRead
  BY <1>5 DEF StarterRead
<1>6. CASE StarterReady
  BY <1>6 DEF StarterReady
<1>7. CASE StarterTermBoot
  BY <1>7 DEF StarterTermBoot
<1>8. CASE StarterWaitBoot
  BY <1>8 DEF StarterWaitBoot
<1>9. CASE StarterTermGroup
  BY <1>9 DEF StarterTermGroup
<1>10. CASE StarterGroupGrace
  BY <1>10 DEF StarterGroupGrace
<1>11. CASE StarterTermSup
  BY <1>11 DEF StarterTermSup
<1>12. CASE StarterSupGrace
  BY <1>12 DEF StarterSupGrace
<1>13. CASE StarterFail
  BY <1>13 DEF StarterFail
<1> QED
  BY <1>1, <1>2, <1>3, <1>4, <1>5, <1>6, <1>7, <1>8, <1>9, <1>10, <1>11, <1>12, <1>13 DEF Starter

\* The bootstrap ends well once the supervisor is on record.
LEMMA BootStaysCalm ==
    ASSUME CalmFaults, TypeOK, VInv, Calm, Boot
    PROVE  Calm'
<1> USE DEF CalmFaults, StartGoesWell, SupervisorGoesWell, OnlyOrphansAge, Calm, TypeOK, RecordType, StarterType, BootType,
            SupType, GroupType, VInv, Order, Ended, Success, Settled, Terminal, recordVars, starterVars, bootVars,
            supVars, groupVars, callVars, Put, SignalGroup, SupEnds, TermSupervisor, CommandSeen, SupSeen,
            BothGone, LooksStale, MatchesSnapshot, Unwind, Verdict, SupLive, BootLive
<1>1. CASE BootGuard
  BY <1>1 DEF BootGuard
<1>2. CASE BootFork
  BY <1>2 DEF BootFork
<1>3. CASE BootBind
  BY <1>3 DEF BootBind
<1>4. CASE BootExit
  BY <1>4 DEF BootExit
<1>5. CASE BootShutdown
  BY <1>5 DEF BootShutdown
<1>6. CASE BootReap
  BY <1>6 DEF BootReap
<1> QED
  BY <1>1, <1>2, <1>3, <1>4, <1>5, <1>6 DEF Boot

\* The supervisor is not disturbed on its way.
LEMMA SupStaysCalm ==
    ASSUME CalmFaults, TypeOK, VInv, Calm, Sup
    PROVE  Calm'
<1> USE DEF CalmFaults, StartGoesWell, SupervisorGoesWell, OnlyOrphansAge, Calm, TypeOK, RecordType, StarterType, BootType,
            SupType, GroupType, VInv, Order, Ended, Success, Settled, Terminal, recordVars, starterVars, bootVars,
            supVars, groupVars, callVars, Put, SignalGroup, SupEnds, TermSupervisor, CommandSeen, SupSeen,
            BothGone, LooksStale, MatchesSnapshot, Unwind, Verdict, SupLive, BootLive
<1>1. CASE SupGuard
  BY <1>1 DEF SupGuard
<1>2. CASE SupPublish
  BY <1>2 DEF SupPublish
<1>3. CASE SupFork
  BY <1>3 DEF SupFork
<1>4. CASE SupBind
  BY <1>4 DEF SupBind
<1>5. CASE SupRunning
  BY <1>5 DEF SupRunning
<1>6. CASE SupReap
  BY <1>6 DEF SupReap
<1>7. CASE SupShutdown
  BY <1>7 DEF SupShutdown
<1>8. CASE SupRaises
  BY <1>8 DEF SupRaises
<1>9. CASE SupEscalate
  BY <1>9 DEF SupEscalate
<1>10. CASE SupStopWait
  BY <1>10 DEF SupStopWait
<1>11. CASE SupFinalize
  BY <1>11 DEF SupFinalize
<1>12. CASE SupDies
  BY <1>12 DEF SupDies
<1> QED
  BY <1>1, <1>2, <1>3, <1>4, <1>5, <1>6, <1>7, <1>8, <1>9, <1>10, <1>11, <1>12 DEF Sup

\* A call finds the supervisor of a job that goes well, or its verdict, and gives
\* nothing up.
LEMMA CallerStaysCalm ==
    ASSUME CalmFaults, TypeOK, VInv, Calm, NEW c \in Callers, Caller(c)
    PROVE  Calm'
<1> USE DEF CalmFaults, StartGoesWell, SupervisorGoesWell, OnlyOrphansAge, Calm, TypeOK, RecordType, StarterType, BootType,
            SupType, GroupType, VInv, Order, Ended, Success, Settled, Terminal, recordVars, starterVars, bootVars,
            supVars, groupVars, callVars, Put, SignalGroup, SupEnds, TermSupervisor, CommandSeen, SupSeen,
            BothGone, LooksStale, MatchesSnapshot, Unwind, Verdict, SupLive, BootLive
<1>t. pc \in [Callers -> CallPCs]
  BY DEF CallType
<1> USE <1>t
<1>1. CASE Recheck(c)
  BY <1>1 DEF Recheck, AfterReconcile
<1>2. CASE KillSignal(c)
  BY <1>2 DEF KillSignal
<1>3. CASE KillTooLate(c) \/ RecheckFails(c)
  BY <1>3 DEF KillTooLate, RecheckFails
<1>4. CASE KillPublish(c)
  BY <1>4 DEF KillPublish
<1>5. CASE KillGrace(c)
  BY <1>5 DEF KillGrace
<1>6. CASE KillEscalate(c)
  BY <1>6 DEF KillEscalate
<1>7. CASE WaitRecord(c)
  BY <1>7 DEF WaitRecord
<1>8. CASE WaitExpires(c)
  BY <1>8 DEF WaitExpires
<1>9. CASE Return(c)
  BY <1>9 DEF Return
<1> QED
  BY <1>1, <1>2, <1>3, <1>4, <1>5, <1>6, <1>7, <1>8, <1>9 DEF Caller

\* Commands end, the server may die, and time passes only where nothing goes on.
LEMMA EnvironmentStaysCalm ==
    ASSUME CalmFaults, TypeOK, VInv, Calm, Environment
    PROVE  Calm'
<1> USE DEF CalmFaults, StartGoesWell, SupervisorGoesWell, OnlyOrphansAge, Calm, TypeOK, RecordType, StarterType, BootType,
            SupType, GroupType, VInv, Order, Ended, Success, Settled, Terminal, recordVars, starterVars, bootVars,
            supVars, groupVars, callVars, Put, SignalGroup, SupEnds, TermSupervisor, CommandSeen, SupSeen,
            BothGone, LooksStale, MatchesSnapshot, Unwind, Verdict, SupLive, BootLive
<1>1. CASE PidReused
  BY <1>1 DEF PidReused
<1>2. CASE StartDeadline
  BY <1>2 DEF StartDeadline, StartStuck
<1>3. CASE RecordAges
  BY <1>3 DEF RecordAges, StartStuck
<1>4. CASE SupKilled
  BY <1>4 DEF SupKilled
<1>5. CASE SupTermed
  BY <1>5 DEF SupTermed
<1>6. CASE ServerCrash
  BY <1>6 DEF ServerCrash
<1>7. ASSUME NEW code \in {"zero", "nonzero"}, CommandExits(code)
      PROVE  Calm'
  BY <1>7 DEF CommandExits
<1>8. ASSUME NEW k \in Kids, KidForked(k) \/ KidExits(k)
      PROVE  Calm'
  BY <1>8 DEF KidForked, KidExits
<1> QED
  BY <1>1, <1>2, <1>3, <1>4, <1>5, <1>6, <1>7, <1>8 DEF Environment, CommandEnds

LEMMA CallStaysCalm ==
    ASSUME TypeOK, Calm, NEW c \in Callers, NEW t \in Signals \cup {"status"}, Call(c, t)
    PROVE  Calm'
<1>1. /\ UNCHANGED <<recordVars, starterVars, bootVars, supVars, groupVars>>
      /\ \A d \in Callers : d # c => pc'[d] = pc[d]
      /\ pc'[c] \in {"recheck", "done", "signal", "wait"}
      /\ pc'[c] = "recheck" => LooksStale
      /\ starter # "write"
  BY DEF TypeOK, CallType, Call, AfterReconcile, Calm, StartGoesWell
<1>2. StartGoesWell' /\ SupervisorGoesWell'
  BY <1>1 DEF Calm, StartGoesWell, SupervisorGoesWell, Settled, recordVars, starterVars, bootVars,
              supVars, groupVars
<1>3. LooksStale => starter = "dead" /\ boot = "none"
  BY DEF Call, Calm, StartGoesWell, SupervisorGoesWell, OnlyOrphansAge, LooksStale, BothGone, SupSeen,
         SupLive, BootLive, Settled, Terminal, TypeOK, RecordType, SupType
<1>4. OnlyOrphansAge'
  BY <1>1, <1>3 DEF Calm, OnlyOrphansAge, recordVars, starterVars, bootVars, groupVars
<1> QED
  BY <1>2, <1>4 DEF Calm

LEMMA CalmNext ==
    ASSUME CalmFaults, TypeOK, VInv, Calm, [Next]_vars
    PROVE  Calm'
<1>1. CASE UNCHANGED vars
  BY <1>1 DEF vars, recordVars, starterVars, bootVars, supVars, groupVars, callVars, Calm,
              StartGoesWell, SupervisorGoesWell, OnlyOrphansAge, Settled
<1> QED
  BY <1>1, StarterStaysCalm, BootStaysCalm, SupStaysCalm, CallerStaysCalm, EnvironmentStaysCalm,
     CallStaysCalm DEF Next

LEMMA CalmInit == Init => Calm
BY DEF Init, Calm, StartGoesWell, SupervisorGoesWell, OnlyOrphansAge, Settled, Terminal

\* A job whose start is prompt and whose supervisor is spared goes its way.
THEOREM JobGoesWell ==
    ASSUME CalmFaults
    PROVE  Spec => []Calm
BY JobTyped, VerdictsInit, VerdictsNext, CalmInit, CalmNext, PTL DEF Spec

-------------------------------------------------------------------------------
\* Every step is one of the contract's, or none that a client can tell.

\* What the contract sees of the job.
Seen == <<IF meta.status = "starting" THEN "running" ELSE meta.status,
          IF cmd = "none" THEN "not_yet" ELSE IF cmd = "running" THEN "running" ELSE "over",
          meta.kill # "none">>

\* A signal ends the command or changes nothing a client can tell.
LEMMA SignalIsOver ==
    ASSUME TypeOK, NEW sig \in Signals, SignalGroup(sig), UNCHANGED meta
    PROVE  Contract!CommandIsOver \/ UNCHANGED Seen
BY DEF TypeOK, GroupType, SignalGroup, Contract!CommandIsOver, Seen

\* start_job makes the record, and is not seen to do more.
LEMMA StarterKeepsContract ==
    ASSUME CalmFaults, TypeOK, Calm, Starter
    PROVE  Contract!Begin \/ UNCHANGED Seen
<1>1. CASE StarterWrite
  BY <1>1 DEF StarterWrite, Put, Contract!Begin, Calm, StartGoesWell, TypeOK, RecordType, groupVars
<1>2. CASE StarterReady
  <2>1. ~ BothGone
    BY <1>2 DEF StarterReady, Calm, StartGoesWell, SupervisorGoesWell, OnlyOrphansAge, BothGone,
                SupSeen, SupLive, Settled, Terminal, TypeOK, RecordType, SupType
  <2> QED
    BY <1>2, <2>1 DEF StarterReady, recordVars, groupVars, Seen
<1>3. CASE StarterSpawn \/ StarterPollBoot \/ StarterRead
  BY <1>3 DEF StarterSpawn, StarterPollBoot, StarterRead, recordVars, groupVars, Seen
<1>4. ~ \/ StarterSpawnFails \/ StarterTermBoot \/ StarterWaitBoot \/ StarterTermGroup
        \/ StarterGroupGrace \/ StarterTermSup \/ StarterSupGrace \/ StarterFail
  BY DEF CalmFaults, Calm, StartGoesWell, StarterSpawnFails, StarterTermBoot, StarterWaitBoot,
         StarterTermGroup, StarterGroupGrace, StarterTermSup, StarterSupGrace, StarterFail
<1> QED
  BY <1>1, <1>2, <1>3, <1>4 DEF Starter

LEMMA BootKeepsContract ==
    ASSUME Calm, Boot
    PROVE  UNCHANGED Seen
BY DEF Boot, BootGuard, BootFork, BootBind, BootExit, BootShutdown, BootReap, Calm, StartGoesWell,
       recordVars, groupVars, Seen

\* The supervisor begins the command and, once that is over, decides the job.
LEMMA SupKeepsContract ==
    ASSUME CalmFaults, TypeOK, VInv, Calm, Sup
    PROVE  \/ Contract!CommandBegins
           \/ \E v \in {"succeeded", "failed", "killed", "interrupted"} : Contract!Decide(v)
           \/ UNCHANGED Seen
<1>1. CASE SupFork
  BY <1>1 DEF SupFork, Contract!CommandBegins, Calm, StartGoesWell, SupervisorGoesWell,
              OnlyOrphansAge, TypeOK, RecordType, recordVars
<1>2. CASE SupFinalize
  <2>1. /\ meta.status \in {"starting", "running"} /\ cmd \notin {"running", "zombie"}
        /\ exitCode = "zero" => cmd = "gone"
        /\ cmd \in {"none", "running", "zombie", "gone"}
    BY <1>2 DEF SupFinalize, Calm, SupervisorGoesWell, TypeOK, GroupType
  <2>2. meta'.status = Verdict /\ meta'.kill = meta.kill /\ UNCHANGED cmd
    BY <1>2, <2>1 DEF SupFinalize, SupEnds, Put, TypeOK, RecordType
  <2>3. Verdict \in {"succeeded", "failed", "killed"}
    BY DEF Verdict
  <2>4. Contract!Decide(Verdict)
    BY <2>1, <2>2, <2>3 DEF Contract!Decide, Verdict
  <2> QED
    BY <2>3, <2>4
<1>3. CASE SupPublish \/ SupRunning
  BY <1>3 DEF SupPublish, SupRunning, Put, Calm, StartGoesWell, SupervisorGoesWell, OnlyOrphansAge,
              TypeOK, RecordType, groupVars, Seen
<1>4. CASE SupGuard \/ SupBind \/ SupReap
  BY <1>4 DEF SupGuard, SupBind, SupReap, recordVars, groupVars, Seen
<1>5. CASE SupRaises
  BY <1>5 DEF SupRaises, Unwind, CalmFaults, recordVars, Seen
<1>6. ~ (SupShutdown \/ SupEscalate \/ SupStopWait \/ SupDies)
  BY DEF CalmFaults, Calm, SupervisorGoesWell, SupShutdown, SupEscalate, SupStopWait, SupDies
<1> QED
  BY <1>1, <1>2, <1>3, <1>4, <1>5, <1>6 DEF Sup

\* job_kill ends the command and puts its request on record; a call decides a job
\* only that has lost its server before anything began.
LEMMA CallerKeepsContract ==
    ASSUME CalmFaults, TypeOK, KillProtocol, Calm, NEW c \in Callers, Caller(c)
    PROVE  \/ Contract!CommandIsOver \/ Contract!KillRecorded
           \/ Contract!Decide("interrupted") \/ UNCHANGED Seen
<1>1. CASE Recheck(c)
  <2>1. CASE BothGone
    <3>1. starter = "dead" /\ boot = "none" /\ sup = "none" /\ cmd = "none"
      BY <1>1 DEF Recheck, Calm, OnlyOrphansAge, SupervisorGoesWell
    <3>2. meta.status = "starting"
      BY <2>1, <3>1 DEF Calm, StartGoesWell, SupervisorGoesWell, BothGone, Settled, Terminal, TypeOK,
                        RecordType
    <3>3. meta'.status = "interrupted" /\ meta'.kill = meta.kill /\ UNCHANGED cmd
      BY <1>1, <2>1 DEF Recheck, Put, TypeOK, RecordType, groupVars
    <3> QED
      BY <3>1, <3>2, <3>3 DEF Contract!Decide
  <2>2. CASE ~ BothGone
    BY <1>1, <2>2 DEF Recheck, recordVars, groupVars, Seen
  <2> QED
    BY <2>1, <2>2
<1>2. CASE KillSignal(c)
  <2>1. SignalGroup(op[c]) /\ op[c] \in Signals /\ UNCHANGED meta
    BY <1>2 DEF KillSignal, TypeOK, CallType
  <2> QED
    BY <2>1, SignalIsOver
<1>3. CASE KillPublish(c)
  <2>1. meta.status \in {"starting", "running"} /\ cmd # "none" /\ op[c] # "none"
    BY <1>3 DEF KillPublish, KillProtocol, LockedKill, Settled, Terminal, Calm, StartGoesWell,
                SupervisorGoesWell, OnlyOrphansAge, TypeOK, RecordType, Statuses, CallType, Signals
  <2>2. meta'.status = meta.status /\ meta'.kill = op[c] /\ UNCHANGED cmd
    BY <1>3 DEF KillPublish, CalmFaults, TypeOK, RecordType, groupVars
  <2>3. meta'.kill # "none"
    BY <2>1, <2>2
  <2> QED
    BY <2>1, <2>2, <2>3 DEF Contract!KillRecorded
<1>4. CASE KillEscalate(c)
  <2>1. SignalGroup("KILL") \/ UNCHANGED groupVars
    BY <1>4 DEF KillEscalate
  <2>2. UNCHANGED meta
    BY <1>4 DEF KillEscalate, recordVars
  <2> QED
    BY <2>1, <2>2, SignalIsOver DEF Signals, groupVars, Seen
<1>5. CASE \/ RecheckFails(c) \/ KillTooLate(c) \/ KillGrace(c) \/ WaitRecord(c) \/ WaitExpires(c) \/ Return(c)
  BY <1>5 DEF RecheckFails, KillTooLate, KillGrace, WaitRecord, WaitExpires, Return, recordVars, groupVars, Seen
<1> QED
  BY <1>1, <1>2, <1>3, <1>4, <1>5 DEF Caller

\* The command ends; nothing else of the environment is seen.
LEMMA EnvironmentKeepsContract ==
    ASSUME CalmFaults, TypeOK, Environment
    PROVE  Contract!CommandIsOver \/ UNCHANGED Seen
<1>1. ASSUME NEW code \in {"zero", "nonzero"}, CommandExits(code)
      PROVE  Contract!CommandIsOver
  BY <1>1 DEF CommandExits, Contract!CommandIsOver, recordVars
<1>2. CASE \/ PidReused \/ (\E k \in Kids : KidForked(k) \/ KidExits(k))
           \/ StartDeadline \/ RecordAges \/ ServerCrash
  BY <1>2 DEF PidReused, KidForked, KidExits, StartDeadline, RecordAges, ServerCrash, recordVars,
              groupVars, Seen
<1>3. ~ (SupKilled \/ SupTermed)
  BY DEF CalmFaults, SupKilled, SupTermed
<1> QED
  BY <1>1, <1>2, <1>3 DEF Environment, CommandEnds

LEMMA StepKeepsContract ==
    ASSUME CalmFaults, TypeOK, KillProtocol, VInv, Calm, [Next]_vars
    PROVE  Contract!CNext \/ UNCHANGED Contract!cvars
<1>1. UNCHANGED Seen => UNCHANGED Contract!cvars
  BY DEF Seen, Contract!cvars
<1>2. ASSUME NEW c \in Callers, NEW t \in Signals \cup {"status"}, Call(c, t)
      PROVE  UNCHANGED Seen
  BY <1>2 DEF Call, recordVars, groupVars, Seen
<1>3. UNCHANGED vars => UNCHANGED Seen
  BY DEF vars, recordVars, groupVars, Seen
<1> QED
  BY <1>1, <1>2, <1>3, StarterKeepsContract, BootKeepsContract, SupKeepsContract,
     CallerKeepsContract, EnvironmentKeepsContract DEF Next, Contract!CNext

\* The job its processes, its record and its calls make up is the one of the contract:
\* its command runs at most once and only while it is undecided, it is decided once and
\* after the command, and "killed" stands for a request on record and hides none.
THEOREM ContractKept ==
    ASSUME CalmFaults
    PROVE  Spec => KeepsContract
<1>1. Init => Contract!CInit
  BY DEF Init, Contract!CInit
<1> QED
  BY <1>1, StepKeepsContract, JobTyped, KillProtocolInit, NextKeepsProtocol, VerdictsInit, VerdictsNext,
     CalmInit, CalmNext, PTL DEF Spec, KeepsContract, Contract!CSpec

===============================================================================
