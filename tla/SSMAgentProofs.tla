-------------------------- MODULE SSMAgentProofs --------------------------
(***************************************************************************)
(* What registration and uninstall of the SSM agent guarantee for any      *)
(* number of registrations and failures.                                   *)
(***************************************************************************)
EXTENDS SSMAgent, FiniteSetTheorems, TLAPS

\* A failure is counted within its bound.
LEMMA FaultBound == TypeOK /\ Fault => faults' \in 0..MaxFaults
<1> SUFFICES ASSUME faults \in 0..MaxFaults, Fault PROVE faults' \in 0..MaxFaults
  BY DEF TypeOK
<1> QED BY SSMAgentAssumption DEF Fault

\* The agent's commands start in, and every step of them stays in, RegistrationInv.
LEMMA RegistrationInvInductive ==
    /\ Init => RegistrationInv
    /\ RegistrationInv /\ [Next]_vars => RegistrationInv'
<1> USE SSMAgentAssumption DEF MaybeId, Files, RemovalOrder
<1>1. ASSUME Init PROVE RegistrationInv
  <2> USE <1>1 DEF Init
  <2>1. tracked \in BOOLEAN /\ errs \in BOOLEAN
    BY Zenon
  <2> QED BY <2>1 DEF RegistrationInv, TypeOK, PcInv, IdsInv, ServiceInv, OkMeansDeregistered,
             NoSilentLeak
<1>2. ASSUME RegistrationInv, [Next]_vars PROVE RegistrationInv'
  <2>i. TypeOK /\ PcInv /\ IdsInv /\ ServiceInv /\ OkMeansDeregistered /\ NoSilentLeak
    BY <1>2 DEF RegistrationInv
  <2> USE <2>i DEF histories, Return
  <2>r. ASSUME pc \in DOMAIN RemovalOrder
        PROVE  RemovalOrder[pc] \in {"agent", "installer", "config", "symlink", "awsConfig", "finish"}
    BY <2>r
  <2>1. CASE Install
    <3>1. TypeOK'
      BY <2>1 DEF Install, TypeOK
    <3>2. PcInv'
      BY <2>1 DEF Install, TypeOK, PcInv
    <3>3. IdsInv'
      BY <2>1 DEF Install, TypeOK, IdsInv, ServiceInv
    <3>4. ServiceInv'
      BY <2>1 DEF Install, TypeOK, PcInv, IdsInv, ServiceInv, NoSilentLeak
    <3>5. OkMeansDeregistered'
      BY <2>1 DEF Install, TypeOK, IdsInv, ServiceInv, OkMeansDeregistered
    <3>6. NoSilentLeak'
      BY <2>1 DEF Install, TypeOK, ServiceInv, NoSilentLeak
    <3> QED BY <3>1, <3>2, <3>3, <3>4, <3>5, <3>6 DEF RegistrationInv
  <2>2. CASE StartInit
    <3>1. TypeOK'
      BY <2>2 DEF StartInit, TypeOK
    <3>2. PcInv'
      BY <2>2 DEF StartInit, TypeOK, PcInv
    <3>3. IdsInv'
      BY <2>2 DEF StartInit, TypeOK, IdsInv, ServiceInv
    <3>4. ServiceInv'
      BY <2>2 DEF StartInit, TypeOK, PcInv, IdsInv, ServiceInv, NoSilentLeak
    <3>5. OkMeansDeregistered'
      BY <2>2 DEF StartInit, TypeOK, IdsInv, ServiceInv, OkMeansDeregistered
    <3>6. NoSilentLeak'
      BY <2>2 DEF StartInit, TypeOK, ServiceInv, NoSilentLeak
    <3> QED BY <3>1, <3>2, <3>3, <3>4, <3>5, <3>6 DEF RegistrationInv
  <2>3. CASE CheckRegistered
    <3>1. TypeOK'
      BY <2>3 DEF CheckRegistered, TypeOK
    <3>2. PcInv'
      BY <2>3 DEF CheckRegistered, TypeOK, PcInv
    <3>3. IdsInv'
      BY <2>3 DEF CheckRegistered, TypeOK, IdsInv, ServiceInv
    <3>4. ServiceInv'
      BY <2>3 DEF CheckRegistered, TypeOK, PcInv, IdsInv, ServiceInv, NoSilentLeak
    <3>5. OkMeansDeregistered'
      BY <2>3 DEF CheckRegistered, TypeOK, IdsInv, ServiceInv, OkMeansDeregistered
    <3>6. NoSilentLeak'
      BY <2>3 DEF CheckRegistered, TypeOK, ServiceInv, NoSilentLeak
    <3> QED BY <3>1, <3>2, <3>3, <3>4, <3>5, <3>6 DEF RegistrationInv
  <2>4. ASSUME NEW i \in Ids, Register(i) PROVE RegistrationInv'
    <3>1. TypeOK'
      BY <2>4 DEF Register, ServiceRegisters, TypeOK
    <3>2. PcInv'
      BY <2>4 DEF Register, ServiceRegisters, TypeOK, PcInv
    <3>3. IdsInv'
      BY <2>4 DEF Register, ServiceRegisters, TypeOK, IdsInv, ServiceInv
    <3>4. ServiceInv'
      BY <2>4 DEF Register, ServiceRegisters, TypeOK, PcInv, IdsInv, ServiceInv, NoSilentLeak
    <3>5. OkMeansDeregistered'
      BY <2>4 DEF Register, ServiceRegisters, TypeOK, IdsInv, ServiceInv, OkMeansDeregistered
    <3>6. NoSilentLeak'
      BY <2>4 DEF Register, ServiceRegisters, TypeOK, ServiceInv, NoSilentLeak
    <3> QED BY <3>1, <3>2, <3>3, <3>4, <3>5, <3>6 DEF RegistrationInv
  <2>5. ASSUME NEW i \in Ids, RegisterAnswerLost(i) PROVE RegistrationInv'
    <3>1. TypeOK'
      BY <2>5, FaultBound DEF RegisterAnswerLost, ServiceRegisters, TypeOK
    <3>2. PcInv'
      BY <2>5 DEF RegisterAnswerLost, ServiceRegisters, TypeOK, PcInv
    <3>3. IdsInv'
      BY <2>5 DEF RegisterAnswerLost, ServiceRegisters, TypeOK, IdsInv, ServiceInv
    <3>4. ServiceInv'
      BY <2>5 DEF RegisterAnswerLost, ServiceRegisters, TypeOK, PcInv, IdsInv, ServiceInv, NoSilentLeak
    <3>5. OkMeansDeregistered'
      BY <2>5 DEF RegisterAnswerLost, ServiceRegisters, TypeOK, IdsInv, ServiceInv, OkMeansDeregistered
    <3>6. NoSilentLeak'
      BY <2>5 DEF RegisterAnswerLost, ServiceRegisters, TypeOK, ServiceInv, NoSilentLeak
    <3> QED BY <3>1, <3>2, <3>3, <3>4, <3>5, <3>6 DEF RegistrationInv
  <2>6. CASE RegisterTimeout
    <3>1. TypeOK'
      BY <2>6 DEF RegisterTimeout, TypeOK
    <3>2. PcInv'
      BY <2>6 DEF RegisterTimeout, TypeOK, PcInv
    <3>3. IdsInv'
      BY <2>6 DEF RegisterTimeout, TypeOK, IdsInv, ServiceInv
    <3>4. ServiceInv'
      BY <2>6 DEF RegisterTimeout, TypeOK, PcInv, IdsInv, ServiceInv, NoSilentLeak
    <3>5. OkMeansDeregistered'
      BY <2>6 DEF RegisterTimeout, TypeOK, IdsInv, ServiceInv, OkMeansDeregistered
    <3>6. NoSilentLeak'
      BY <2>6 DEF RegisterTimeout, TypeOK, ServiceInv, NoSilentLeak
    <3> QED BY <3>1, <3>2, <3>3, <3>4, <3>5, <3>6 DEF RegistrationInv
  <2>7. CASE ReadName
    <3>1. TypeOK'
      BY <2>7 DEF ReadName, TypeOK
    <3>2. PcInv'
      BY <2>7 DEF ReadName, TypeOK, PcInv
    <3>3. IdsInv'
      BY <2>7 DEF ReadName, TypeOK, IdsInv, ServiceInv
    <3>4. ServiceInv'
      BY <2>7 DEF ReadName, TypeOK, PcInv, IdsInv, ServiceInv, NoSilentLeak
    <3>5. OkMeansDeregistered'
      BY <2>7 DEF ReadName, TypeOK, IdsInv, ServiceInv, OkMeansDeregistered
    <3>6. NoSilentLeak'
      BY <2>7 DEF ReadName, TypeOK, ServiceInv, NoSilentLeak
    <3> QED BY <3>1, <3>2, <3>3, <3>4, <3>5, <3>6 DEF RegistrationInv
  <2>8. ASSUME NEW link \in BOOLEAN, EnsureRunning(link) PROVE RegistrationInv'
    <3>1. TypeOK'
      BY <2>8 DEF EnsureRunning, TypeOK
    <3>2. PcInv'
      BY <2>8 DEF EnsureRunning, TypeOK, PcInv
    <3>3. IdsInv'
      BY <2>8 DEF EnsureRunning, TypeOK, IdsInv, ServiceInv
    <3>4. ServiceInv'
      BY <2>8 DEF EnsureRunning, TypeOK, PcInv, IdsInv, ServiceInv, NoSilentLeak
    <3>5. OkMeansDeregistered'
      BY <2>8 DEF EnsureRunning, TypeOK, IdsInv, ServiceInv, OkMeansDeregistered
    <3>6. NoSilentLeak'
      BY <2>8 DEF EnsureRunning, TypeOK, ServiceInv, NoSilentLeak
    <3> QED BY <3>1, <3>2, <3>3, <3>4, <3>5, <3>6 DEF RegistrationInv
  <2>9. CASE StartUninstall
    <3>1. TypeOK'
      BY <2>9 DEF StartUninstall, TypeOK
    <3>2. PcInv'
      BY <2>9 DEF StartUninstall, TypeOK, PcInv
    <3>3. IdsInv'
      BY <2>9 DEF StartUninstall, TypeOK, IdsInv, ServiceInv
    <3>4. ServiceInv'
      BY <2>9 DEF StartUninstall, TypeOK, PcInv, IdsInv, ServiceInv, NoSilentLeak
    <3>5. OkMeansDeregistered'
      BY <2>9 DEF StartUninstall, TypeOK, IdsInv, ServiceInv, OkMeansDeregistered
    <3>6. NoSilentLeak'
      BY <2>9 DEF StartUninstall, TypeOK, ServiceInv, NoSilentLeak
    <3> QED BY <3>1, <3>2, <3>3, <3>4, <3>5, <3>6 DEF RegistrationInv
  <2>10. CASE ReadRegistration
    <3>1. TypeOK'
      BY <2>10 DEF ReadRegistration, TypeOK
    <3>2. PcInv'
      BY <2>10 DEF ReadRegistration, TypeOK, PcInv
    <3>3. IdsInv'
      BY <2>10 DEF ReadRegistration, TypeOK, IdsInv, ServiceInv
    <3>4. ServiceInv'
      BY <2>10 DEF ReadRegistration, TypeOK, PcInv, IdsInv, ServiceInv, NoSilentLeak
    <3>5. OkMeansDeregistered'
      BY <2>10 DEF ReadRegistration, TypeOK, IdsInv, ServiceInv, OkMeansDeregistered
    <3>6. NoSilentLeak'
      BY <2>10 DEF ReadRegistration, TypeOK, ServiceInv, NoSilentLeak
    <3> QED BY <3>1, <3>2, <3>3, <3>4, <3>5, <3>6 DEF RegistrationInv
  <2>11. CASE Describe
    <3>1. TypeOK'
      BY <2>11 DEF Describe, TypeOK
    <3>2. PcInv'
      BY <2>11 DEF Describe, TypeOK, PcInv
    <3>3. IdsInv'
      BY <2>11 DEF Describe, TypeOK, IdsInv, ServiceInv
    <3>4. ServiceInv'
      BY <2>11 DEF Describe, TypeOK, PcInv, IdsInv, ServiceInv, NoSilentLeak
    <3>5. OkMeansDeregistered'
      BY <2>11 DEF Describe, TypeOK, IdsInv, ServiceInv, OkMeansDeregistered
    <3>6. NoSilentLeak'
      BY <2>11 DEF Describe, TypeOK, ServiceInv, NoSilentLeak
    <3> QED BY <3>1, <3>2, <3>3, <3>4, <3>5, <3>6 DEF RegistrationInv
  <2>12. CASE Deregister
    <3>1. TypeOK'
      BY <2>12 DEF Deregister, TypeOK
    <3>2. PcInv'
      BY <2>12 DEF Deregister, TypeOK, PcInv
    <3>3. IdsInv'
      BY <2>12 DEF Deregister, TypeOK, IdsInv, ServiceInv
    <3>4. ServiceInv'
      BY <2>12 DEF Deregister, TypeOK, PcInv, IdsInv, ServiceInv, NoSilentLeak
    <3>5. OkMeansDeregistered'
      BY <2>12 DEF Deregister, TypeOK, IdsInv, ServiceInv, OkMeansDeregistered
    <3>6. NoSilentLeak'
      BY <2>12 DEF Deregister, TypeOK, ServiceInv, NoSilentLeak
    <3> QED BY <3>1, <3>2, <3>3, <3>4, <3>5, <3>6 DEF RegistrationInv
  <2>13. CASE DeregisterFails
    <3>0. registered' \in SUBSET Ids /\ excused' \in SUBSET Ids
      BY <2>13 DEF DeregisterFails, TypeOK, ServiceInv
    <3>1. TypeOK'
      BY <2>13, <3>0, FaultBound DEF DeregisterFails, TypeOK
    <3>2. PcInv'
      BY <2>13 DEF DeregisterFails, TypeOK, PcInv
    <3>3. IdsInv'
      BY <2>13 DEF DeregisterFails, TypeOK, IdsInv, ServiceInv
    <3>4. ServiceInv'
      BY <2>13 DEF DeregisterFails, TypeOK, PcInv, IdsInv, ServiceInv, NoSilentLeak
    <3>5. OkMeansDeregistered'
      BY <2>13 DEF DeregisterFails, TypeOK, IdsInv, ServiceInv, OkMeansDeregistered
    <3>6. NoSilentLeak'
      BY <2>13 DEF DeregisterFails, TypeOK, ServiceInv, NoSilentLeak
    <3> QED BY <3>1, <3>2, <3>3, <3>4, <3>5, <3>6 DEF RegistrationInv
  <2>14. CASE RemoveStep
    <3>1. TypeOK'
      BY <2>14, <2>r DEF RemoveStep, TypeOK
    <3>2. PcInv'
      BY <2>14, <2>r DEF RemoveStep, TypeOK, PcInv
    <3>3. IdsInv'
      BY <2>14, <2>r DEF RemoveStep, TypeOK, IdsInv, ServiceInv
    <3>4. ServiceInv'
      BY <2>14, <2>r DEF RemoveStep, TypeOK, PcInv, IdsInv, ServiceInv, NoSilentLeak
    <3>5. OkMeansDeregistered'
      BY <2>14, <2>r DEF RemoveStep, TypeOK, IdsInv, ServiceInv, OkMeansDeregistered
    <3>6. NoSilentLeak'
      BY <2>14, <2>r DEF RemoveStep, TypeOK, ServiceInv, NoSilentLeak
    <3> QED BY <3>1, <3>2, <3>3, <3>4, <3>5, <3>6 DEF RegistrationInv
  <2>15. CASE RemoveFails
    <3>1. TypeOK'
      BY <2>15, FaultBound, <2>r DEF RemoveFails, TypeOK
    <3>2. PcInv'
      BY <2>15, <2>r DEF RemoveFails, TypeOK, PcInv
    <3>3. IdsInv'
      BY <2>15, <2>r DEF RemoveFails, TypeOK, IdsInv, ServiceInv
    <3>4. ServiceInv'
      BY <2>15, <2>r DEF RemoveFails, TypeOK, PcInv, IdsInv, ServiceInv, NoSilentLeak
    <3>5. OkMeansDeregistered'
      BY <2>15, <2>r DEF RemoveFails, TypeOK, IdsInv, ServiceInv, OkMeansDeregistered
    <3>6. NoSilentLeak'
      BY <2>15, <2>r DEF RemoveFails, TypeOK, ServiceInv, NoSilentLeak
    <3> QED BY <3>1, <3>2, <3>3, <3>4, <3>5, <3>6 DEF RegistrationInv
  <2>16. CASE Finish
    <3>1. TypeOK'
      BY <2>16 DEF Finish, TypeOK
    <3>2. PcInv'
      BY <2>16 DEF Finish, TypeOK, PcInv
    <3>3. IdsInv'
      BY <2>16 DEF Finish, TypeOK, IdsInv, ServiceInv
    <3>4. ServiceInv'
      BY <2>16 DEF Finish, TypeOK, PcInv, IdsInv, ServiceInv, NoSilentLeak
    <3>5. OkMeansDeregistered'
      BY <2>16 DEF Finish, TypeOK, IdsInv, ServiceInv, OkMeansDeregistered
    <3>6. NoSilentLeak'
      BY <2>16 DEF Finish, TypeOK, ServiceInv, NoSilentLeak
    <3> QED BY <3>1, <3>2, <3>3, <3>4, <3>5, <3>6 DEF RegistrationInv
  <2>17. CASE Kill
    <3>1. TypeOK'
      BY <2>17, FaultBound DEF Kill, TypeOK
    <3>2. PcInv'
      BY <2>17 DEF Kill, TypeOK, PcInv
    <3>3. IdsInv'
      BY <2>17 DEF Kill, TypeOK, IdsInv, ServiceInv
    <3>4. ServiceInv'
      BY <2>17 DEF Kill, TypeOK, PcInv, IdsInv, ServiceInv, NoSilentLeak
    <3>5. OkMeansDeregistered'
      BY <2>17 DEF Kill, TypeOK, IdsInv, ServiceInv, OkMeansDeregistered
    <3>6. NoSilentLeak'
      BY <2>17 DEF Kill, TypeOK, ServiceInv, NoSilentLeak
    <3> QED BY <3>1, <3>2, <3>3, <3>4, <3>5, <3>6 DEF RegistrationInv
  <2>18. ASSUME NEW i \in Ids, ConsoleDeregisters(i) PROVE RegistrationInv'
    <3>0. registered' \in SUBSET Ids /\ faults' \in 0..MaxFaults
      BY <2>18, FaultBound DEF ConsoleDeregisters, TypeOK
    <3>1. TypeOK'
      BY <2>18, <3>0, Zenon DEF ConsoleDeregisters, TypeOK
    <3>2. PcInv'
      BY <2>18 DEF ConsoleDeregisters, TypeOK, PcInv
    <3>3. IdsInv'
      BY <2>18 DEF ConsoleDeregisters, TypeOK, IdsInv, ServiceInv
    <3>4. ServiceInv'
      BY <2>18 DEF ConsoleDeregisters, TypeOK, PcInv, IdsInv, ServiceInv, NoSilentLeak
    <3>5. OkMeansDeregistered'
      BY <2>18 DEF ConsoleDeregisters, TypeOK, IdsInv, ServiceInv, OkMeansDeregistered
    <3>6. NoSilentLeak'
      BY <2>18 DEF ConsoleDeregisters, TypeOK, ServiceInv, NoSilentLeak
    <3> QED BY <3>1, <3>2, <3>3, <3>4, <3>5, <3>6 DEF RegistrationInv
  <2>20. CASE RemoveAgent
    <3>1. TypeOK'
      BY <2>20, <2>r DEF RemoveAgent, TypeOK
    <3>2. PcInv'
      BY <2>20, <2>r DEF RemoveAgent, TypeOK, PcInv
    <3>3. IdsInv'
      BY <2>20, <2>r DEF RemoveAgent, TypeOK, IdsInv, ServiceInv
    <3>4. ServiceInv'
      BY <2>20, <2>r DEF RemoveAgent, TypeOK, PcInv, IdsInv, ServiceInv, NoSilentLeak
    <3>5. OkMeansDeregistered'
      BY <2>20, <2>r DEF RemoveAgent, TypeOK, IdsInv, ServiceInv, OkMeansDeregistered
    <3>6. NoSilentLeak'
      BY <2>20, <2>r DEF RemoveAgent, TypeOK, ServiceInv, NoSilentLeak
    <3> QED BY <3>1, <3>2, <3>3, <3>4, <3>5, <3>6 DEF RegistrationInv
  <2>21. CASE RemoveAgentFails
    <3>1. TypeOK'
      BY <2>21, FaultBound, <2>r DEF RemoveAgentFails, TypeOK
    <3>2. PcInv'
      BY <2>21, <2>r DEF RemoveAgentFails, TypeOK, PcInv
    <3>3. IdsInv'
      BY <2>21, <2>r DEF RemoveAgentFails, TypeOK, IdsInv, ServiceInv
    <3>4. ServiceInv'
      BY <2>21, <2>r DEF RemoveAgentFails, TypeOK, PcInv, IdsInv, ServiceInv, NoSilentLeak
    <3>5. OkMeansDeregistered'
      BY <2>21, <2>r DEF RemoveAgentFails, TypeOK, IdsInv, ServiceInv, OkMeansDeregistered
    <3>6. NoSilentLeak'
      BY <2>21, <2>r DEF RemoveAgentFails, TypeOK, ServiceInv, NoSilentLeak
    <3> QED BY <3>1, <3>2, <3>3, <3>4, <3>5, <3>6 DEF RegistrationInv
  <2>19. CASE UNCHANGED vars
    <3>0. TypeOK'
      BY <2>19, Zenon DEF vars, TypeOK
    <3>1. PcInv' /\ IdsInv'
      BY <2>19 DEF vars, PcInv, IdsInv
    <3>2. ServiceInv'
      BY <2>19 DEF vars, ServiceInv
    <3>3. OkMeansDeregistered' /\ NoSilentLeak'
      BY <2>19 DEF vars, OkMeansDeregistered, NoSilentLeak
    <3> QED BY <3>0, <3>1, <3>2, <3>3 DEF RegistrationInv
  <2> QED BY <1>2, <2>1, <2>2, <2>3, <2>4, <2>5, <2>6, <2>7, <2>8, <2>9, <2>10,
             <2>11, <2>12, <2>13, <2>14, <2>15, <2>16, <2>17, <2>18, <2>19, <2>20, <2>21
         DEF Next, Configure, Uninstall, UninstallActions
<1> QED BY <1>1, <1>2

\* The inductive invariant: how far Configure and Uninstall are says what is
\* registered, what the registration file names and which calls failed, for any
\* number of instance ids and faults.
THEOREM RegistrationIsConsistent == Spec => []RegistrationInv
<1> QED BY RegistrationInvInductive, PTL DEF Spec

\* An uninstall that found a registration and reports success has deregistered
\* it (ssm.Uninstall joins the errors of all its actions).
THEOREM OkIsDeregistered == Spec => []OkMeansDeregistered
<1>1. RegistrationInv => OkMeansDeregistered
  BY DEF RegistrationInv
<1> QED BY <1>1, RegistrationInvInductive, PTL DEF Spec

\* A managed instance that the registration file does not name is one a failed
\* call is to blame for (Uninstall deregisters before it removes the file, and
\* registerMachine registers only without a file).
THEOREM LeaksHaveACause == Spec => []NoSilentLeak
<1>1. RegistrationInv => NoSilentLeak
  BY DEF RegistrationInv
<1> QED BY <1>1, RegistrationInvInductive, PTL DEF Spec

-----------------------------------------------------------------------------
\* Failures of calls and kills, counted over all commands, against the instances that
\* no registration file names.
LeaksPaidFor ==
    /\ IsFiniteSet(registered \ {reg})
    /\ Cardinality(registered \ {reg}) <= faults

\* However often a machine is registered and uninstalled, n failures leave at most n
\* instances behind: each one costs a failed call of its own, a retried registration
\* (cmd.Retry) or a deregistration whose error Uninstall collected; repeated commands
\* and kills alone leave none.
THEOREM LeaksCostFailures == Spec => []LeaksPaidFor
<1> DEFINE ExcuseInv == IsFiniteSet(excused) /\ Cardinality(excused) <= faults
           Inv == RegistrationInv /\ ExcuseInv
<1>1. Init => ExcuseInv
  BY FS_EmptySet DEF Init
<1>2. ASSUME Inv, [Next]_vars PROVE ExcuseInv'
  <2>1. faults \in Nat /\ faults' \in Nat
    <3>1. faults \in 0..MaxFaults /\ faults' \in 0..MaxFaults
      BY <1>2, RegistrationInvInductive DEF RegistrationInv, TypeOK
    <3> QED BY <3>1, SSMAgentAssumption
  <2>2. faults' = faults \/ Fault
    BY <1>2
    DEF Next, Install, StartInit, StartUninstall, Configure, CheckRegistered, Register,
        RegisterAnswerLost, ReadName, EnsureRunning, RegisterTimeout, Uninstall,
        ReadRegistration, Describe, Deregister, DeregisterFails, RemoveStep, RemoveFails,
        RemoveAgent, RemoveAgentFails, UninstallActions, Finish, Kill, ConsoleDeregisters, vars
  <2>3. excused' = excused \/ DeregisterFails \/ \E i \in Ids : RegisterAnswerLost(i)
    <3>1. Install \/ StartInit \/ StartUninstall \/ RegisterTimeout \/ Kill \/ UNCHANGED vars
            => excused' = excused
      BY DEF Install, StartInit, StartUninstall, RegisterTimeout, Kill, histories, vars
    <3>2. CheckRegistered \/ ReadName \/ (\E link \in BOOLEAN : EnsureRunning(link))
            \/ (\E i \in Ids : Register(i) \/ ConsoleDeregisters(i))
            => excused' = excused
      BY DEF CheckRegistered, ReadName, EnsureRunning, Register, ConsoleDeregisters, histories
    <3>3. ReadRegistration \/ Describe \/ Deregister \/ RemoveStep \/ RemoveFails \/ Finish
            \/ RemoveAgent \/ RemoveAgentFails
            => excused' = excused
      BY DEF ReadRegistration, Describe, Deregister, RemoveStep, RemoveFails, Finish,
         RemoveAgent, RemoveAgentFails, histories
    <3> QED BY <1>2, <3>1, <3>2, <3>3 DEF Next, Configure, Uninstall, UninstallActions
  <2>4. CASE excused' = excused
    BY <1>2, <2>1, <2>2, <2>4, FS_CardinalityType DEF Fault
  <2>5. ASSUME Fault, NEW i, excused' = excused \cup {i} PROVE ExcuseInv'
    <3>1. /\ IsFiniteSet(excused \cup {i})
          /\ Cardinality(excused \cup {i}) \in {Cardinality(excused), Cardinality(excused) + 1}
      BY <1>2, FS_AddElement
    <3>2. Cardinality(excused) \in Nat
      BY <1>2, FS_CardinalityType
    <3> QED BY <1>2, <2>1, <2>5, <3>1, <3>2 DEF Fault
  <2>6. CASE DeregisterFails
    BY <2>5, <2>6 DEF DeregisterFails
  <2>7. ASSUME NEW i \in Ids, RegisterAnswerLost(i) PROVE ExcuseInv'
    BY <2>5, <2>7 DEF RegisterAnswerLost
  <2> QED BY <2>3, <2>4, <2>6, <2>7
<1>3. ASSUME Inv PROVE LeaksPaidFor
  <2>1. registered \ {reg} \subseteq excused
    BY <1>3 DEF RegistrationInv, NoSilentLeak
  <2>2. /\ IsFiniteSet(registered \ {reg})
        /\ Cardinality(registered \ {reg}) <= Cardinality(excused)
    BY <1>3, <2>1, FS_Subset
  <2>3. Cardinality(registered \ {reg}) \in Nat /\ Cardinality(excused) \in Nat
    BY <1>3, <2>2, FS_CardinalityType
  <2>4. faults \in 0..MaxFaults
    BY <1>3 DEF RegistrationInv, TypeOK
  <2> QED BY <1>3, <2>2, <2>3, <2>4, SSMAgentAssumption DEF LeaksPaidFor
<1> QED BY <1>1, <1>2, <1>3, RegistrationIsConsistent, PTL DEF Spec

\* The place of a step in init's registration and in Uninstall.
Place ==
    [isRegistered |-> 1, register |-> 2, readName |-> 3, ensureRunning |-> 4,
     read |-> 1, describe |-> 2, deregister |-> 3, registration |-> 4, agent |-> 5,
     installer |-> 6, config |-> 7, symlink |-> 8, awsConfig |-> 9, finish |-> 10]

\* Where a command is and stays while something else changes: in one of the two loops of
\* cmd.Retry, or anywhere when the service lets go of an instance meanwhile.
Waits == cmd' = cmd /\ pc' = pc /\ (pc \in {"register", "agent"} \/ registered' # registered)

\* Init and uninstall make one pass but for their two loops of cmd.Retry, around the
\* registration command and around the removal of the agent's package: every other step
\* ends the command or goes on to a later one, so that no action of Uninstall is
\* tried twice, whichever of them fail.
THEOREM OnePassButForRetries ==
    Spec => [][cmd # "idle" =>
                  cmd' = "idle" \/ (cmd' = cmd /\ Place[pc'] > Place[pc]) \/ Waits]_vars
<1> DEFINE Once == cmd # "idle" =>
                  cmd' = "idle" \/ (cmd' = cmd /\ Place[pc'] > Place[pc]) \/ Waits
<1>1. ASSUME Next PROVE Once
  <2>1. CASE Install \/ StartInit \/ StartUninstall
    BY <2>1 DEF Install, StartInit, StartUninstall
  <2>2. CASE CheckRegistered \/ ReadName
    <3>1. CASE CheckRegistered
      <4>1. cmd' = "idle" \/ (cmd' = cmd /\ pc = "isRegistered" /\ pc' \in {"readName", "register"})
        BY <3>1 DEF CheckRegistered, Return
      <4> QED BY <4>1 DEF Place
    <3>2. CASE ReadName
      BY <3>2 DEF ReadName, Place
    <3> QED BY <2>2, <3>1, <3>2
  <2>3. CASE RegisterTimeout \/ Finish \/ Kill \/ \E link \in BOOLEAN : EnsureRunning(link)
    BY <2>3 DEF RegisterTimeout, Finish, Kill, EnsureRunning, Return
  <2>4. ASSUME NEW i \in Ids, Register(i) PROVE Once
    BY <2>4 DEF Register, Place
  <2>5. ASSUME NEW i \in Ids, RegisterAnswerLost(i) PROVE Once
    BY <2>5 DEF RegisterAnswerLost, Waits
  <2>6. CASE ReadRegistration \/ Describe \/ Deregister \/ DeregisterFails
    BY <2>6 DEF ReadRegistration, Describe, Deregister, DeregisterFails, Place
  <2>7. CASE RemoveStep \/ RemoveFails \/ RemoveAgent
    <3>1. cmd' = cmd /\ pc \in DOMAIN RemovalOrder /\ pc' = RemovalOrder[pc]
      BY <2>7 DEF RemoveStep, RemoveFails, RemoveAgent, RemovalOrder
    <3> QED BY <3>1 DEF RemovalOrder, Place
  <2>8. ASSUME NEW i \in Ids, ConsoleDeregisters(i) PROVE Once
    BY <2>8 DEF ConsoleDeregisters, Waits
  <2>9. CASE RemoveAgentFails
    BY <2>9 DEF RemoveAgentFails, Waits
  <2> QED
    BY <1>1, <2>1, <2>2, <2>3, <2>4, <2>5, <2>6, <2>7, <2>8, <2>9
    DEF Next, Configure, Uninstall, UninstallActions
<1>2. [Next]_vars => [Once]_vars
  BY <1>1
<1> QED BY <1>2, PTL DEF Spec
=============================================================================
