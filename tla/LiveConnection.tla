----------------------------- MODULE LiveConnection -----------------------------
(***************************************************************************)
(* The connection to the RTR server (validation.c:44-176): set up by       *)
(* rpki_set_config or, for a configuration that began in historical mode,  *)
(* by the call of rpki_validate that runs out of dumps, from what          *)
(* cfg_create stored; waited for, used, and closed with the configuration. *)
(* External: the broker, the SSH connection, and the RTR manager, which    *)
(* runs in a thread of its own from its start to its stop.                 *)
(***************************************************************************)
EXTENDS ConfigInput, FiniteSets

CONSTANTS Inputs  \* the arguments of rpki_set_config considered

ASSUME SshAssumption == MaxInputLength <= MaxSshLen

ASSUME OptionsAssumption == \A a \in Inputs : a.options \in Seq(Nat)

VARIABLES
  with_ssh,         \* whether the library was built with WITH_SSH
  given,            \* the arguments of rpki_set_config
  mode,             \* cfg_input.mode
  collectors,       \* cfg_input.broker_collectors
  ssh_options,      \* cfg_input.ssh_options: the parts of what fits
  by,               \* who sets the connection up: "setup" or "switch"
  used,             \* the options handed to the connection
  rtr_allocs,       \* cfg_val.rtr_allocs: which are allocated
  rtr_socket,       \* whether cfg_val.rtr_socket is set
  manager,          \* the RTR manager: "none", "running", "stopped" or "freed"
  rtr_mgr_cfg,      \* whether cfg_val.rtr_mgr_cfg is set
  in_sync,          \* rtr_mgr_conf_in_sync (external)
  pc                \* where the program is

input == <<with_ssh, given>>
config == <<mode, collectors, ssh_options>>
attempt == <<by, used>>
memory == <<rtr_allocs, rtr_socket>>
rtr == <<manager, rtr_mgr_cfg, in_sync>>
vars == <<input, config, attempt, memory, rtr, pc>>

NotHanded == <<-2>>
Null == -1

\* The characters in front of the k-th part.
Before(parts, k) == IF k = 1 THEN 0 ELSE TextLen(SubSeq(parts, 1, k - 1)) + 1

\* The parts of a text of which n characters are kept.
Kept(parts, n) ==
  [k \in {l \in 1 .. Len(parts) : Before(parts, l) < n} |->
     IF n - Before(parts, k) < parts[k] THEN n - Before(parts, k) ELSE parts[k]]

\* strtok: the next part behind part l that is not empty, or a place where
\* there is none.
Token(parts, l) ==
  LET there == {k \in l + 1 .. Len(parts) + 3 : k <= Len(parts) => parts[k] # 0}
  IN  CHOOSE k \in there : \A m \in there : k <= m

\* A part, or the null pointer strtok returns, which is printed.
Part(parts, k) == IF k <= Len(parts) THEN parts[k] ELSE Null

\* strtok three times: user, host key and private key.
Three(parts) ==
  LET user    == Token(parts, 0)
      hostkey == Token(parts, user)
      privkey == Token(parts, hostkey)
  IN  <<Part(parts, user), Part(parts, hostkey), Part(parts, privkey)>>

-----------------------------------------------------------------------------
(* cfg_create                                                               *)

\* The checks of the arguments.
Acceptable(a) ==
  /\ utils_cfg_check_ssh_options(a.options)
  /\ utils_cfg_check_flags(a.unified, a.mode)
  /\ IF a.intervals # <<>>
     THEN utils_cfg_add_intervals(a.intervals, [w \in Window |-> 0]).count # -1
     ELSE a.mode = 0
  /\ utils_cfg_check_collectors(Collectors(a.collectors, a.mode))

\* A bad argument: rpki_set_config exits.
CreateFails ==
  /\ pc = "unset" /\ ~Acceptable(given)
  /\ pc' = "exited"
  /\ UNCHANGED <<input, config, attempt, memory, rtr>>

\* The joined text of projects and collectors.
Joined(items) ==
  [rtr   |-> \E k \in 1 .. Len(items) : items[k].rtr,
   comma |-> \E k \in 1 .. Len(items) : items[k].comma]

\* snprintf into ssh_options, MAX_INPUT_LENGTH characters with the final NUL.
Stored(parts) == Kept(parts, MaxInputLength - 1)

Create ==
  /\ pc = "unset" /\ Acceptable(given)
  /\ mode' = given.mode
  /\ collectors' = Joined(Items(Collectors(given.collectors, given.mode)))
  /\ ssh_options' = Stored(given.options)
  /\ by' = "setup"
  /\ pc' = (IF given.mode = 0 THEN "checks" ELSE "broker")
  /\ UNCHANGED <<input, used, memory, rtr>>

-----------------------------------------------------------------------------
(* Historical mode first                                                    *)

\* The broker answers: the collectors are now joined by commas.
BrokerAnswers ==
  /\ pc = "broker"
  /\ LET items == Items(Collectors(given.collectors, given.mode))
     IN  collectors' = [collectors EXCEPT !.comma = @ \/ Len(items) > 2]
  /\ pc' = "history"
  /\ UNCHANGED <<input, mode, ssh_options, attempt, memory, rtr>>

BrokerFails ==
  /\ pc = "broker"
  /\ pc' = "exited"
  /\ UNCHANGED <<input, config, attempt, memory, rtr>>

\* Mutant of LeaveHistorical: the mode stays.
LeaveHistoricalForgotten == UNCHANGED mode

LeaveHistorical == mode' = 0

\* A call has run out of dumps.
Switch ==
  /\ pc = "history"
  /\ LeaveHistorical /\ by' = "switch" /\ pc' = "checks"
  /\ UNCHANGED <<input, collectors, ssh_options, used, memory, rtr>>

-----------------------------------------------------------------------------
(* validation_set_live_config                                               *)

\* The result is checked by rpki_set_config and not by rpki_validate.
Failed == pc' = IF by = "setup" THEN "stop" ELSE "unconnected"

\* Only one collector, and one that serves RTR.
CollectorRefused ==
  /\ pc = "checks" /\ (collectors.comma \/ ~collectors.rtr)
  /\ Failed
  /\ UNCHANGED <<input, config, attempt, memory, rtr>>

\* The broker's info request fails.
InfoFails ==
  /\ pc = "checks" /\ ~collectors.comma /\ collectors.rtr
  /\ Failed
  /\ UNCHANGED <<input, config, attempt, memory, rtr>>

\* A switch has the stored text, which is never a null pointer.
Tcp == by = "setup" /\ given.options = NoOptions

\* Mutant of Handed: the text stored for a switch is used on both ways.
HandedStored ==
  IF Tcp THEN NoOptions ELSE Three(Kept(ssh_options, MaxSshLen - 1))

\* The options as the caller passes them on, or as they were stored.
Handed ==
  IF Tcp THEN NoOptions
  ELSE Three(Kept(IF by = "setup" THEN given.options ELSE ssh_options,
                  MaxSshLen - 1))

\* Host and port are known: allocate the transport socket.
InfoAnswers ==
  /\ pc = "checks" /\ ~collectors.comma /\ collectors.rtr
  /\ used' = Handed /\ rtr_allocs' = {0}
  /\ pc' = "transport"
  /\ UNCHANGED <<input, config, by, rtr_socket, rtr>>

\* No SSH in this build, or the server refuses; it takes the caller's options
\* only.
TransportFails ==
  /\ pc = "transport" /\ ~Tcp
  /\ Failed
  /\ UNCHANGED <<input, config, attempt, memory, rtr>>

TransportOpens ==
  /\ pc = "transport"
  /\ Tcp \/ (with_ssh /\ used = given.options)
  /\ pc' = "manager"
  /\ UNCHANGED <<input, config, attempt, memory, rtr>>

\* Mutant of Allocate: an index is one too high.
AllocateBehind == rtr_allocs' = rtr_allocs \cup {2, 3}

\* The RTR socket and the group's list of sockets.
Allocate == rtr_allocs' = rtr_allocs \cup {1, 2}

\* rtr_mgr_init and rtr_mgr_start.
StartManager ==
  /\ pc = "manager"
  /\ Allocate /\ rtr_socket' = TRUE
  /\ manager' = "running" /\ pc' = "waiting"
  /\ UNCHANGED <<input, config, attempt, rtr_mgr_cfg, in_sync>>

\* rtr_mgr_init fails and what it should have returned is used.
InitFails ==
  /\ pc = "manager"
  /\ Allocate /\ rtr_socket' = TRUE
  /\ pc' = "crashed"
  /\ UNCHANGED <<input, config, attempt, rtr>>

\* rtr_mgr_start fails: there is no thread, and it is waited for all the same.
StartFails ==
  /\ pc = "manager"
  /\ Allocate /\ rtr_socket' = TRUE
  /\ pc' = "waiting"
  /\ UNCHANGED <<input, config, attempt, rtr>>

\* Look once a second; when in sync go on.
Poll ==
  /\ pc = "waiting" /\ in_sync
  /\ rtr_mgr_cfg' = TRUE /\ pc' = "live"
  /\ UNCHANGED <<input, config, attempt, memory, manager, in_sync>>

\* External: the manager gains and loses synchronisation.
Sync ==
  /\ manager = "running"
  /\ in_sync' = ~in_sync
  /\ UNCHANGED <<input, config, attempt, memory, manager, rtr_mgr_cfg, pc>>

-----------------------------------------------------------------------------
(* The rest of a call that failed to switch                                 *)

\* A prefix that is no address is rejected; mode 0 stays, without a manager.
Reject ==
  /\ pc = "unconnected"
  /\ pc' = "adrift"
  /\ UNCHANGED <<input, config, attempt, memory, rtr>>

\* The table of a socket that does not exist is read.
Crash ==
  /\ pc = "unconnected" /\ ~rtr_socket
  /\ pc' = "crashed"
  /\ UNCHANGED <<input, config, attempt, memory, rtr>>

-----------------------------------------------------------------------------
(* cfg_destroy and validation_close_connection                              *)

\* rpki_destroy_config; the connection is closed in live mode.
Destroy ==
  /\ pc \in {"history", "live", "adrift"}
  /\ pc' = (IF mode = 0 THEN "stop" ELSE "destroyed")
  /\ UNCHANGED <<input, config, attempt, memory, rtr>>

\* Mutant of StopManager: the manager is not stopped.
StopForgotten ==
  /\ pc = "stop" /\ pc' = "free"
  /\ UNCHANGED <<input, config, attempt, memory, rtr>>

\* rtr_mgr_stop, which ends the manager's thread.
StopManager ==
  /\ pc = "stop"
  /\ manager' = (IF rtr_mgr_cfg THEN "stopped" ELSE manager)
  /\ pc' = "free"
  /\ UNCHANGED <<input, config, attempt, memory, rtr_mgr_cfg, in_sync>>

\* Mutant of Freed: the transport socket is left.
FreedButFirst == rtr_allocs' = rtr_allocs \cap {0}

Freed == rtr_allocs' = {}

\* rtr_mgr_free, which does not stop the thread, the allocations and the
\* configuration; a failed set-up exits.
Free ==
  /\ pc = "free"
  /\ manager' = (IF rtr_mgr_cfg /\ manager = "stopped" THEN "freed" ELSE manager)
  /\ Freed /\ rtr_socket' = FALSE /\ rtr_mgr_cfg' = FALSE
  /\ pc' = (IF by = "setup" /\ manager = "none" THEN "exited" ELSE "destroyed")
  /\ UNCHANGED <<input, config, attempt, in_sync>>

-----------------------------------------------------------------------------
Init ==
  /\ with_ssh \in BOOLEAN /\ given \in Inputs
  /\ mode = 0 /\ collectors = [rtr |-> FALSE, comma |-> FALSE]
  /\ ssh_options = <<>> /\ by = "setup" /\ used = NotHanded
  /\ rtr_allocs = {} /\ rtr_socket = FALSE
  /\ manager = "none" /\ rtr_mgr_cfg = FALSE /\ in_sync = FALSE
  /\ pc = "unset"

SetUp == CreateFails \/ Create \/ BrokerAnswers \/ BrokerFails
Connect == \/ CollectorRefused \/ InfoFails \/ InfoAnswers \/ TransportFails
           \/ TransportOpens \/ StartManager \/ InitFails \/ StartFails
           \/ Poll \/ Reject \/ Crash
Close == StopManager \/ Free

\* Steps the library takes without anybody asking.
Library == SetUp \/ Connect \/ Close

Next == Library \/ Switch \/ Destroy \/ Sync

\* A call keeps running; nothing is assumed of the RTR server.
Spec == Init /\ [][Next]_vars /\ WF_vars(Library)

-----------------------------------------------------------------------------
(* Properties                                                               *)

\* The variables stay in their ranges.
TypeOK ==
  /\ with_ssh \in BOOLEAN /\ given \in Inputs /\ mode \in {0, 1}
  /\ collectors \in [rtr : BOOLEAN, comma : BOOLEAN]
  /\ by \in {"setup", "switch"}
  /\ rtr_allocs \subseteq {0, 1, 2} /\ rtr_socket \in BOOLEAN
  /\ manager \in {"none", "running", "stopped", "freed"}
  /\ rtr_mgr_cfg \in BOOLEAN /\ in_sync \in BOOLEAN
  /\ pc \in {"unset", "broker", "history", "checks", "transport", "manager",
             "waiting", "live", "unconnected", "adrift", "crashed", "stop",
             "free", "destroyed", "exited"}

\* The manager's thread reads the sockets as long as it runs: they are
\* allocated before its start and freed after its stop, and a call takes the
\* live path only while it runs (validation.c:98-176, rpki.c:91).
ManagerHasSockets ==
  /\ manager = "running" => rtr_allocs = {0, 1, 2} /\ rtr_socket
  /\ mode = 0 /\ rtr_mgr_cfg /\ pc = "live" => manager = "running"

\* Whatever was set up, or left half set up by a failure, is gone in the end,
\* also after a switch (rpki_config.c:132-135, validation.c:152-176).
AllFreed ==
  pc \in {"destroyed", "exited"} =>
    rtr_allocs = {} /\ manager \in {"none", "freed"}

\* None of the options is empty.
NoneEmpty == \A k \in 1 .. Len(given.options) : given.options[k] # 0

\* The text of the options fits the buffers it goes through, 1024 on the way from
\* rpki_set_config and 128 through the configuration.
Fits ==
  TextLen(given.options) < IF by = "setup" THEN MaxSshLen ELSE MaxInputLength

\* The connection gets the caller's user and both keys, each once and whole, if none
\* of them is empty and their text fits the buffers (utils_cfg.c:282,
\* validation.c:86-93).  Which key comes first is not said here: rpki.h:52 and
\* rpki_config.h:58 disagree (see PrivkeySecond).
OptionsAsGiven ==
  (used # NotHanded /\ given.options # NoOptions /\ NoneEmpty /\ Fits)
    => /\ used[1] = given.options[1]
       /\ {used[2], used[3]} = {given.options[2], given.options[3]}

\* The details make up the life of the connection that RpkiValidate uses.
Connection == INSTANCE RtrConnection WITH
  rtr <- (IF manager = "none" THEN "none"
          ELSE IF pc = "waiting" THEN "starting"
          ELSE IF manager = "running" THEN "synced" ELSE "closed")
ImplementsConnection == Connection!Spec

-----------------------------------------------------------------------------
(* What comments of the code say, and the code does not keep.               *)

\* "If no SSH options are passed, start the RTR connection over TCP"
\* (validation.c:78).
TcpWithoutOptions ==
  (used # NotHanded /\ given.options = NoOptions) => used = NoOptions

\* "SSH user, SSH privkey, SSH hostkey" (rpki_config.h:58): the second option is
\* the private key.
PrivkeySecond ==
  (used # NotHanded /\ given.options # NoOptions /\ NoneEmpty /\ Fits)
    => used[3] = given.options[2]

\* "Check whether the SSH parameter list contain three parameter"
\* (utils_cfg.c:272): a list that passes has three for the connection.
ThreeParameters ==
  (used # NotHanded /\ given.options # NoOptions /\ Fits)
    => \A k \in 1 .. 3 : used[k] # Null

\* "0 if the configuration was created,otherwise -1" (validation.h:125): the
\* set-up of a manager that has not started returns.
FailedStartReturns ==
  (pc = "waiting" /\ manager = "none") ~> pc # "waiting"

=============================================================================
