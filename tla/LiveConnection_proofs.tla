------------------------ MODULE LiveConnection_proofs ------------------------
(***************************************************************************)
(* The connection to the RTR server, for all arguments of rpki_set_config  *)
(* and all sizes of the buffers: what is allocated at which stage, that    *)
(* everything is freed, and that it lives the life of RtrConnection.       *)
(***************************************************************************)
EXTENDS LiveConnection, SequenceTheorems, TLAPS

\* What there is at each stage, by what has been started so far.
Nothing ==
  rtr_allocs = {} /\ ~rtr_socket /\ manager = "none" /\ ~rtr_mgr_cfg /\ ~in_sync
OnlyTransport ==
  rtr_allocs \subseteq {0} /\ ~rtr_socket /\ manager = "none" /\ ~rtr_mgr_cfg
Running == rtr_allocs = {0, 1, 2} /\ rtr_socket /\ manager = "running"
NotStarted == rtr_allocs = {0, 1, 2} /\ rtr_socket /\ manager = "none"
Stopped == manager = "stopped" /\ rtr_mgr_cfg

MemoryInv ==
  /\ pc \in {"unset", "broker", "history", "checks"} => Nothing
  /\ pc \in {"transport", "manager"} =>
       OnlyTransport /\ rtr_allocs = {0} /\ ~in_sync
  /\ pc \in {"unconnected", "adrift"} => OnlyTransport
  /\ pc = "crashed" => manager = "none"
  /\ pc = "waiting" => (Running \/ (NotStarted /\ ~in_sync)) /\ ~rtr_mgr_cfg
  /\ pc = "live" => Running /\ rtr_mgr_cfg
  /\ pc = "stop" => OnlyTransport \/ (Running /\ rtr_mgr_cfg)
  /\ pc = "free" => OnlyTransport \/ Stopped
  /\ pc \in {"destroyed", "exited"} =>
       rtr_allocs = {} /\ ~rtr_mgr_cfg /\ manager \in {"none", "freed"}

\* The mode is historical from the creation to the switch and to the end.
ModeOfStage ==
  /\ pc \in {"broker", "history"} => mode = 1
  /\ pc \notin {"broker", "history", "destroyed", "exited"} => mode = 0
  /\ mode = 1 => manager = "none"

LInv == TypeOK /\ MemoryInv /\ ModeOfStage

-----------------------------------------------------------------------------
\* The initial states.
LEMMA InitLInv == Init => LInv
<1>. SUFFICES ASSUME Init PROVE LInv
  OBVIOUS
<1>1. TypeOK
  BY DEF Init, TypeOK
<1>2. MemoryInv /\ ModeOfStage
  BY DEF Init, MemoryInv, ModeOfStage, Nothing
<1>. QED  BY <1>1, <1>2 DEF LInv

\* The arguments and the broker.
LEMMA SetUpLInv == LInv /\ (SetUp \/ Switch) => LInv'
<1>. SUFFICES ASSUME LInv, SetUp \/ Switch PROVE LInv'
  OBVIOUS
<1>. USE DEF input, config, attempt, memory, rtr
<1>1. CASE CreateFails
  BY <1>1 DEF CreateFails, LInv, TypeOK, MemoryInv, ModeOfStage, Nothing
<1>2. CASE Create
  <2>1. mode' \in {0, 1} /\ mode' = given.mode
    BY <1>2 DEF Create, Acceptable, utils_cfg_check_flags
  <2>2. collectors' \in [rtr : BOOLEAN, comma : BOOLEAN]
    <3>1. collectors'
            = Joined(Items(Collectors(given.collectors, given.mode)))
      BY <1>2 DEF Create
    <3>. HIDE DEF config
    <3>. QED  BY <3>1, Zenon DEF Joined
  <2>3. /\ pc = "unset" /\ pc' = (IF mode' = 0 THEN "checks" ELSE "broker")
        /\ by' = "setup"
        /\ UNCHANGED <<with_ssh, given, used, rtr_allocs, rtr_socket, manager,
                       rtr_mgr_cfg, in_sync>>
    BY <1>2, <2>1 DEF Create
  <2>4. TypeOK'
    BY <2>1, <2>2, <2>3 DEF LInv, TypeOK
  <2>. QED  BY <2>1, <2>3, <2>4 DEF LInv, MemoryInv, ModeOfStage, Nothing
<1>3. CASE BrokerAnswers
  <2>1. collectors' \in [rtr : BOOLEAN, comma : BOOLEAN]
    BY <1>3 DEF BrokerAnswers, LInv, TypeOK
  <2>. QED  BY <1>3, <2>1
            DEF BrokerAnswers, LInv, TypeOK, MemoryInv, ModeOfStage, Nothing
<1>4. CASE BrokerFails
  BY <1>4 DEF BrokerFails, LInv, TypeOK, MemoryInv, ModeOfStage, Nothing
<1>5. CASE Switch
  BY <1>5 DEF Switch, LeaveHistorical, LInv, TypeOK, MemoryInv, ModeOfStage,
              Nothing
<1>. QED  BY <1>1, <1>2, <1>3, <1>4, <1>5 DEF SetUp

\* The connection is set up, or is not.
LEMMA ConnectLInv == LInv /\ (Connect \/ Sync) => LInv'
<1>. SUFFICES ASSUME LInv, Connect \/ Sync PROVE LInv'
  OBVIOUS
<1>. USE DEF input, config, attempt, memory, rtr
<1>1. CASE CollectorRefused \/ InfoFails \/ TransportFails
  <2>1. /\ pc \in {"checks", "transport"} /\ pc' \in {"stop", "unconnected"}
        /\ UNCHANGED <<input, config, attempt, memory, rtr>>
    BY <1>1 DEF CollectorRefused, InfoFails, TransportFails, Failed
  <2>. QED  BY <2>1
            DEF LInv, TypeOK, MemoryInv, ModeOfStage, Nothing, OnlyTransport
<1>2. CASE InfoAnswers
  BY <1>2 DEF InfoAnswers, LInv, TypeOK, MemoryInv, ModeOfStage, Nothing,
              OnlyTransport
<1>3. CASE TransportOpens
  BY <1>3 DEF TransportOpens, LInv, TypeOK, MemoryInv, ModeOfStage,
              OnlyTransport
<1>4. CASE StartManager
  <2>1. TypeOK'
    BY <1>4 DEF StartManager, Allocate, LInv, TypeOK
  <2>2. rtr_allocs' = {0, 1, 2}
    BY <1>4 DEF StartManager, Allocate, LInv, MemoryInv, OnlyTransport
  <2>. QED  BY <1>4, <2>1, <2>2
            DEF StartManager, LInv, MemoryInv, ModeOfStage, OnlyTransport, Running
<1>5. CASE InitFails \/ StartFails
  <2>1. TypeOK'
    BY <1>5 DEF InitFails, StartFails, Allocate, LInv, TypeOK
  <2>2. rtr_allocs' = {0, 1, 2}
    BY <1>5 DEF InitFails, StartFails, Allocate, LInv, MemoryInv, OnlyTransport
  <2>. QED  BY <1>5, <2>1, <2>2
            DEF InitFails, StartFails, LInv, MemoryInv, ModeOfStage,
                OnlyTransport, NotStarted
<1>6. CASE Poll
  BY <1>6 DEF Poll, LInv, TypeOK, MemoryInv, ModeOfStage, Running,
              NotStarted
<1>7. CASE Reject \/ Crash
  <2>1. /\ pc = "unconnected" /\ pc' \in {"adrift", "crashed"}
        /\ UNCHANGED <<input, config, attempt, memory, rtr>>
    BY <1>7 DEF Reject, Crash
  <2>. QED  BY <2>1 DEF LInv, TypeOK, MemoryInv, ModeOfStage, OnlyTransport
<1>8. CASE Sync
  BY <1>8 DEF Sync, LInv, TypeOK, MemoryInv, ModeOfStage, Nothing,
              OnlyTransport, Running, NotStarted, Stopped
<1>. QED  BY <1>1, <1>2, <1>3, <1>4, <1>5, <1>6, <1>7, <1>8 DEF Connect

\* The connection is closed.
LEMMA CloseLInv == LInv /\ (Close \/ Destroy) => LInv'
<1>. SUFFICES ASSUME LInv, Close \/ Destroy PROVE LInv'
  OBVIOUS
<1>. USE DEF input, config, attempt, memory, rtr
<1>1. CASE Destroy
  BY <1>1 DEF Destroy, LInv, TypeOK, MemoryInv, ModeOfStage, Nothing,
              OnlyTransport, Running
<1>2. CASE StopManager
  BY <1>2 DEF StopManager, LInv, TypeOK, MemoryInv, ModeOfStage, OnlyTransport,
              Running, Stopped
<1>3. CASE Free
  BY <1>3 DEF Free, Freed, LInv, TypeOK, MemoryInv, ModeOfStage, OnlyTransport,
              Stopped
<1>. QED  BY <1>1, <1>2, <1>3 DEF Close

\* Every step keeps the invariant.
LEMMA StepLInv == LInv /\ [Next]_vars => LInv'
<1>. SUFFICES ASSUME LInv, [Next]_vars PROVE LInv'
  OBVIOUS
<1>1. CASE UNCHANGED vars
  BY <1>1 DEF vars, input, config, attempt, memory, rtr, LInv, TypeOK, MemoryInv,
              ModeOfStage, Nothing, OnlyTransport, Running, NotStarted, Stopped
<1>. QED  BY <1>1, SetUpLInv, ConnectLInv, CloseLInv DEF Next, Library

LEMMA LInvariance == Spec => []LInv
BY InitLInv, StepLInv, PTL DEF Spec

-----------------------------------------------------------------------------
\* The variables stay in their ranges.
THEOREM LiveTypeCorrect == Spec => []TypeOK
<1>1. LInv => TypeOK
  BY DEF LInv
<1>. QED  BY <1>1, LInvariance, PTL

\* The RTR manager's thread never runs without its sockets, and the live path
\* is only taken with a manager that runs (validation.c:98-176).
THEOREM SocketsOutliveManager == Spec => []ManagerHasSockets
<1>1. LInv => ManagerHasSockets
  BY DEF LInv, TypeOK, MemoryInv, ManagerHasSockets, Nothing, OnlyTransport,
         Running, NotStarted, Stopped
<1>. QED  BY <1>1, LInvariance, PTL

\* In the end nothing is allocated and no manager is left, whatever step of the
\* set-up failed (validation.c:152-176).
THEOREM EverythingFreed == Spec => []AllFreed
<1>1. LInv => AllFreed
  BY DEF LInv, MemoryInv, AllFreed
<1>. QED  BY <1>1, LInvariance, PTL

\* The steps of the connection are steps of RtrConnection or none.
THEOREM ConnectionImplemented == Spec => ImplementsConnection
<1>1. Init => Connection!Init
  BY DEF Init, Connection!Init
<1>2. ASSUME LInv, LInv', [Next]_vars
      PROVE  Connection!Next
               \/ UNCHANGED <<mode, IF manager = "none" THEN "none"
                                    ELSE IF pc = "waiting" THEN "starting"
                                    ELSE IF manager = "running" THEN "synced"
                                    ELSE "closed">>
  <2>. USE DEF input, config, attempt, memory, rtr, Connection!Next,
               Connection!BeginHistorical, Connection!LeaveHistorical,
               Connection!Start, Connection!Sync, Connection!Close
  <2>1. CASE UNCHANGED vars
    BY <2>1 DEF vars
  <2>2. CASE CreateFails \/ BrokerAnswers \/ BrokerFails
    BY <1>2, <2>2 DEF CreateFails, BrokerAnswers, BrokerFails, LInv, MemoryInv,
                      Nothing
  <2>3. CASE Create
    <3>1. /\ manager = "none" /\ manager' = "none" /\ mode = 0 /\ mode' \in {0, 1}
      BY <1>2, <2>3 DEF Create, LInv, TypeOK, MemoryInv, ModeOfStage, Nothing
    <3>. QED  BY <3>1
  <2>4. CASE Switch
    BY <1>2, <2>4 DEF Switch, LeaveHistorical, LInv, MemoryInv, ModeOfStage,
                      Nothing
  <2>5. CASE Connect
    <3>1. CASE StartManager
      BY <1>2, <3>1 DEF StartManager, LInv, MemoryInv, ModeOfStage, OnlyTransport
    <3>2. CASE Poll
      BY <1>2, <3>2 DEF Poll, LInv, MemoryInv, Running
    <3>3. CASE Connect /\ ~StartManager /\ ~Poll
      <4>1. mode' = mode /\ manager = "none" /\ manager' = "none"
        BY <1>2, <3>3
        DEF Connect, CollectorRefused, InfoFails, InfoAnswers, TransportFails,
            TransportOpens, InitFails, StartFails, Reject, Crash, LInv,
            MemoryInv, Nothing, OnlyTransport
      <4>. QED  BY <4>1
    <3>. QED  BY <2>5, <3>1, <3>2, <3>3
  <2>6. CASE Destroy \/ Sync
    BY <1>2, <2>6 DEF Destroy, Sync, LInv, MemoryInv, ModeOfStage, Nothing,
                      OnlyTransport, Running, NotStarted
  <2>7. CASE StopManager
    BY <1>2, <2>7 DEF StopManager, LInv, MemoryInv, ModeOfStage, OnlyTransport,
                      Running
  <2>8. CASE Free
    BY <1>2, <2>8 DEF Free, LInv, MemoryInv, OnlyTransport, Stopped
  <2>. QED  BY <1>2, <2>1, <2>2, <2>3, <2>4, <2>5, <2>6, <2>7, <2>8
            DEF Next, Library, SetUp, Close
<1>. QED  BY <1>1, <1>2, LInvariance, PTL
          DEF Spec, ImplementsConnection, Connection!Spec

-----------------------------------------------------------------------------
(* The options.                                                             *)

\* The length of a text of at most three parts: the parts and the commas.
LEMMA SumOfParts ==
  ASSUME NEW parts, Len(parts) \in 1 .. 3,
         \A k \in 1 .. Len(parts) : parts[k] \in Nat
  PROVE  /\ Len(parts) = 1 => TextLen(parts) = parts[1]
         /\ Len(parts) = 2 => TextLen(parts) = parts[1] + parts[2] + 1
         /\ Len(parts) = 3 => TextLen(parts) = parts[1] + parts[2] + parts[3] + 2
<1>. DEFINE Step(f) == [n \in 0 .. Len(parts) |->
                          IF n = 0 THEN 0 ELSE f[n - 1] + parts[n] + 1]
            sum == CHOOSE f : f = Step(f)
            known == [n \in 0 .. Len(parts) |->
                        IF n = 0 THEN 0
                        ELSE IF n = 1 THEN parts[1] + 1
                        ELSE IF n = 2 THEN parts[1] + parts[2] + 2
                        ELSE parts[1] + parts[2] + parts[3] + 3]
<1>1. known = Step(known)
  <2>1. ASSUME NEW n \in 0 .. Len(parts) PROVE known[n] = Step(known)[n]
    <3>1. n = 0 \/ n = 1 \/ n = 2 \/ n = 3
      OBVIOUS
    <3>. QED  BY <2>1, <3>1
  <2>2. DOMAIN known = DOMAIN Step(known)
    OBVIOUS
  <2>3. known = [n \in 0 .. Len(parts) |-> known[n]] /\ Step(known) = [n \in 0 .. Len(parts) |-> Step(known)[n]]
    OBVIOUS
  <2>. HIDE DEF known, Step
  <2>. QED  BY <2>1, <2>3
<1>. HIDE DEF known
<1>2. sum = Step(sum)
  BY <1>1
<1>3. TextLen(parts) = sum[Len(parts)] - 1
  BY DEF TextLen
<1>. HIDE DEF sum
<1>4. sum[0] = 0
  BY <1>2
<1>5. sum[1] = parts[1] + 1
  BY <1>2, <1>4
<1>6. Len(parts) > 1 => sum[2] = parts[1] + parts[2] + 2
  <2>. SUFFICES ASSUME Len(parts) > 1 PROVE sum[2] = sum[1] + parts[2] + 1
    BY <1>5
  <2>. QED BY <1>2
<1>7. Len(parts) > 2 => sum[3] = parts[1] + parts[2] + parts[3] + 3
  <2>. SUFFICES ASSUME Len(parts) > 2 PROVE sum[3] = sum[2] + parts[3] + 1
    BY <1>6
  <2>. QED BY <1>2
<1>8. Len(parts) = 1 \/ Len(parts) = 2 \/ Len(parts) = 3
  OBVIOUS
<1>. HIDE DEF Step
<1>9. CASE Len(parts) = 1
  BY <1>3, <1>5, <1>9
<1>10. CASE Len(parts) = 2
  BY <1>3, <1>6, <1>10
<1>11. CASE Len(parts) = 3
  BY <1>3, <1>7, <1>11
<1>. QED  BY <1>8, <1>9, <1>10, <1>11

\* A text of three parts that fits is kept as it is.
LEMMA KeptWhole ==
  ASSUME NEW parts \in Seq(Nat), Len(parts) = 3,
         \A k \in 1 .. 3 : parts[k] # 0, NEW n \in Nat, TextLen(parts) <= n
  PROVE  Kept(parts, n) = parts
<1>1. /\ parts[1] \in Nat \ {0} /\ parts[2] \in Nat \ {0} /\ parts[3] \in Nat \ {0}
      /\ \A k \in 1 .. 3 : parts[k] \in Nat \ {0}
      /\ parts = [k \in 1 .. 3 |-> parts[k]]
  <2>1. parts \in [1 .. 3 -> Nat]
    BY LenProperties
  <2>. QED  BY <2>1
<1>2. TextLen(parts) = parts[1] + parts[2] + parts[3] + 2
  <2>1. Len(parts) \in 1 .. 3 /\ \A k \in 1 .. Len(parts) : parts[k] \in Nat
    BY <1>1
  <2>. QED  BY <2>1, SumOfParts
<1>3. ASSUME NEW k \in 1 .. 2
      PROVE  /\ Len(SubSeq(parts, 1, k)) = k
             /\ \A l \in 1 .. k : SubSeq(parts, 1, k)[l] = parts[l]
  <2>1. \A l \in 1 .. k : parts[l] \in Nat \ {0}
    BY <1>1
  <2>2. /\ Len(SubSeq(parts, 1, k)) = IF 1 <= k THEN k - 1 + 1 ELSE 0
        /\ \A l \in 1 .. k - 1 + 1 : SubSeq(parts, 1, k)[l] = parts[1 + l - 1]
    BY <2>1, SubSeqProperties
  <2>3. 1 <= k /\ k - 1 + 1 = k /\ \A l \in 1 .. k : 1 + l - 1 = l
    OBVIOUS
  <2>. QED  BY <2>2, <2>3
<1>4. Before(parts, 1) = 0
  BY DEF Before
<1>5. Before(parts, 2) = parts[1] + 1
  <2>. DEFINE front == SubSeq(parts, 1, 1)
  <2>1. Len(front) = 1 /\ front[1] = parts[1]
    BY <1>3
  <2>. HIDE DEF front
  <2>2. Len(front) \in 1 .. 3 /\ \A k \in 1 .. Len(front) : front[k] \in Nat
    BY <1>1, <2>1
  <2>3. TextLen(front) = parts[1]
    BY <2>1, <2>2, SumOfParts
  <2>. QED  BY <1>1, <2>3 DEF Before, front
<1>6. Before(parts, 3) = parts[1] + parts[2] + 2
  <2>. DEFINE front == SubSeq(parts, 1, 2)
  <2>1. Len(front) = 2 /\ front[1] = parts[1] /\ front[2] = parts[2]
    BY <1>3
  <2>. HIDE DEF front
  <2>2. Len(front) \in 1 .. 3 /\ \A k \in 1 .. Len(front) : front[k] \in Nat
    <3>1. \A k \in 1 .. Len(front) : k = 1 \/ k = 2
      BY <2>1
    <3>. QED  BY <1>1, <2>1, <3>1
  <2>3. TextLen(front) = parts[1] + parts[2] + 1
    BY <2>1, <2>2, SumOfParts
  <2>. QED  BY <1>1, <2>3 DEF Before, front
<1>7. \A k \in 1 .. 3 : Before(parts, k) < n /\ ~(n - Before(parts, k) < parts[k])
  <2>1. \A k \in 1 .. 3 : k = 1 \/ k = 2 \/ k = 3
    OBVIOUS
  <2>. QED  BY <1>1, <1>2, <1>4, <1>5, <1>6, <2>1
<1>8. {l \in 1 .. Len(parts) : Before(parts, l) < n} = 1 .. 3
  BY <1>7
<1>9. Kept(parts, n) = [k \in 1 .. 3 |-> parts[k]]
  BY <1>7, <1>8 DEF Kept
<1>. QED  BY <1>1, <1>9

\* strtok yields three parts that are not empty one after the other.
LEMMA AllThree ==
  ASSUME NEW parts \in Seq(Nat), Len(parts) = 3, \A k \in 1 .. 3 : parts[k] # 0
  PROVE  Three(parts) = parts
<1>1. ASSUME NEW l \in 0 .. 2 PROVE Token(parts, l) = l + 1
  <2>. DEFINE there ==
         {k \in l + 1 .. Len(parts) + 3 : k <= Len(parts) => parts[k] # 0}
  <2>1. l + 1 \in there /\ \A k \in there : l + 1 <= k
    OBVIOUS
  <2>2. there \subseteq Int
    OBVIOUS
  <2>. HIDE DEF there
  <2>3. \A k \in there : (\A m \in there : k <= m) => k = l + 1
    BY <2>1, <2>2
  <2>. QED  BY <2>1, <2>3 DEF Token, there
<1>2. Token(parts, 0) = 1 /\ Token(parts, 1) = 2 /\ Token(parts, 2) = 3
  BY <1>1
<1>3. Three(parts) = <<parts[1], parts[2], parts[3]>>
  BY <1>2 DEF Three, Part
<1>. QED  BY <1>3

\* Until they are handed to the connection the options are stored, as much of
\* them as fits.
OptionsInv ==
  /\ pc \in {"unset", "broker", "history", "checks"} => used = NotHanded
  /\ pc \in {"broker", "history", "checks"} =>
       /\ utils_cfg_check_ssh_options(given.options)
       /\ ssh_options = Stored(given.options)
  /\ OptionsAsGiven

\* What is handed over are the caller's options, if they fit.
LEMMA HandedOptions ==
  ASSUME TypeOK, OptionsInv, InfoAnswers
  PROVE  OptionsAsGiven'
<1>. DEFINE options == given.options
<1>. SUFFICES ASSUME options # NoOptions,
                     \A k \in 1 .. Len(options) : options[k] # 0,
                     TextLen(options) < IF by = "setup" THEN MaxSshLen
                                                        ELSE MaxInputLength
              PROVE  Handed = options
  <2>1. used' = Handed /\ given' = given /\ by' = by
    BY DEF InfoAnswers, input
  <2>. QED  BY <2>1 DEF OptionsAsGiven, NoneEmpty, Fits
<1>1. /\ options \in Seq(Nat) /\ Len(options) = 3
      /\ ssh_options = Stored(options)
  BY OptionsAssumption
  DEF InfoAnswers, TypeOK, OptionsInv, utils_cfg_check_ssh_options
<1>2. TextLen(options) \in Int
  <2>1. \A k \in 1 .. 3 : options[k] \in Nat
    BY <1>1
  <2>. HIDE DEF options
  <2>. QED  BY <1>1, <2>1, SumOfParts
<1>3. MaxSshLen - 1 \in Nat /\ MaxInputLength - 1 \in Nat /\ MaxInputLength <= MaxSshLen
  BY InputAssumption, SshAssumption
<1>4. Three(options) = options
  BY <1>1, AllThree
<1>5. TextLen(options) <= MaxSshLen - 1
  BY <1>2, <1>3, InputAssumption
<1>6. Kept(options, MaxSshLen - 1) = options
  BY <1>1, <1>3, <1>5, KeptWhole
<1>7. CASE by = "setup"
  BY <1>4, <1>6, <1>7 DEF Handed, Tcp
<1>8. CASE by # "setup"
  <2>1. TextLen(options) <= MaxInputLength - 1
    BY <1>2, <1>3, <1>8, InputAssumption
  <2>2. ssh_options = options
    BY <1>1, <1>3, <2>1, KeptWhole DEF Stored
  <2>. QED  BY <1>4, <1>6, <1>8, <2>2 DEF Handed, Tcp
<1>. QED  BY <1>7, <1>8

\* The connection gets the caller's user and both keys, each once and whole, on both
\* ways, if none is empty and their text fits the buffers it goes through, whatever
\* their sizes (utils_cfg.c:282, validation.c:86-93).  It says nothing of options
\* with an empty part, which the check accepts, nor which key comes first, on which
\* the comments disagree.
THEOREM OptionsArrive == Spec => []OptionsAsGiven
<1>1. Init => OptionsInv
  BY DEF Init, OptionsInv, OptionsAsGiven, NoneEmpty, Fits
<1>2. TypeOK /\ OptionsInv /\ [Next]_vars => OptionsInv'
  <2>. SUFFICES ASSUME TypeOK, OptionsInv, [Next]_vars PROVE OptionsInv'
    OBVIOUS
  <2>. USE DEF input, config, attempt, memory, rtr
  <2>1. CASE UNCHANGED vars
    BY <2>1 DEF vars, OptionsInv, OptionsAsGiven, NoneEmpty, Fits, Stored
  <2>2. CASE InfoAnswers
    BY <2>2, HandedOptions DEF InfoAnswers, OptionsInv
  <2>3. CASE Create
    BY <2>3 DEF Create, Acceptable, OptionsInv, OptionsAsGiven, NoneEmpty, Fits
  <2>4. CASE Switch
    BY <2>4 DEF Switch, OptionsInv, OptionsAsGiven, NoneEmpty, Fits, Stored
  <2>5. CASE CreateFails \/ BrokerAnswers \/ BrokerFails
    BY <2>5 DEF CreateFails, BrokerAnswers, BrokerFails, OptionsInv,
                OptionsAsGiven, NoneEmpty, Fits
  <2>6. CASE Connect /\ ~InfoAnswers
    <3>1. /\ UNCHANGED <<given, by, used>>
          /\ pc' \in {"stop", "unconnected", "manager", "waiting", "live",
                      "adrift", "crashed"}
      BY <2>6 DEF Connect, CollectorRefused, InfoFails, TransportFails, Failed,
                  TransportOpens, StartManager, InitFails, StartFails, Poll,
                  Reject, Crash
    <3>. QED  BY <3>1 DEF OptionsInv, OptionsAsGiven, NoneEmpty, Fits
  <2>7. CASE Destroy \/ Close
    <3>1. /\ UNCHANGED <<given, by, used>>
          /\ pc' \in {"stop", "destroyed", "free", "exited"}
      BY <2>7 DEF Destroy, Close, StopManager, Free
    <3>. QED  BY <3>1 DEF OptionsInv, OptionsAsGiven, NoneEmpty, Fits
  <2>8. CASE Sync
    BY <2>8 DEF Sync, OptionsInv, OptionsAsGiven, NoneEmpty, Fits, Stored
  <2>. QED  BY <2>1, <2>2, <2>3, <2>4, <2>5, <2>6, <2>7, <2>8
            DEF Next, Library, SetUp
<1>3. OptionsInv => OptionsAsGiven
  BY DEF OptionsInv
<1>. QED  BY <1>1, <1>2, <1>3, LiveTypeCorrect, PTL DEF Spec
=============================================================================
