----------------------------- MODULE ConfigInput -----------------------------
(***************************************************************************)
(* The input checks of utils_cfg.c.  A list is the sequence of what stands *)
(* between its delimiters: numbers, of which none is empty, or items with  *)
(* a length, some of which may be; strtok skips those.  A number that has  *)
(* other characters than digits is Malformed.  Texts are within their      *)
(* limits of length except where a length decides: SSH options and         *)
(* collectors.                                                             *)
(***************************************************************************)
EXTENDS Integers, Sequences

CONSTANTS Width,          \* 2^32
          MaxCount,       \* MAX_RPKI_COUNT: items of a list, 32
          MaxWindows,     \* MAX_TIME_WINDOWS: slots for interval values
          MaxInputLength, \* MAX_INPUT_LENGTH: 128 with the final NUL
          MaxSshLen       \* MAX_SSH_LEN: 1024

ASSUME InputAssumption ==
  /\ Width \in Nat \ {0}
  /\ MaxCount \in Nat /\ MaxWindows \in Nat /\ MaxCount < MaxWindows
  /\ MaxInputLength \in Nat \ {0} /\ MaxSshLen \in Nat \ {0}

Malformed == -1

\* utils_cfg_check_input: not empty, not too many delimiters.
utils_cfg_check_input(items) == Len(items) \in 1 .. MaxCount

\* utils_cfg_validity_check_val: a malformed number leaves the old value, one
\* that is out of range is stored modulo Width before it is refused.
utils_cfg_validity_check_val(n, old) ==
  [ok |-> n \in 0 .. Width - 1, val |-> IF n = Malformed THEN old ELSE n % Width]

-----------------------------------------------------------------------------
(* Intervals                                                                *)

Window == 0 .. MaxWindows - 1

\* The first item that is refused; there is one behind the last.
Stop(nums) ==
  CHOOSE k \in 1 .. Len(nums) + 1 :
    /\ k <= Len(nums) => ~utils_cfg_validity_check_val(nums[k], 0).ok
    /\ \A l \in 1 .. k - 1 : utils_cfg_validity_check_val(nums[l], 0).ok

\* Mutant of utils_cfg_add_intervals: the values already stored are counted.
add_intervals_counts(nums, intervals) ==
  [count |-> Len(nums),
   intervals |-> [w \in Window |->
     IF w < Stop(nums) /\ w < Len(nums)
     THEN utils_cfg_validity_check_val(nums[w + 1], intervals[w]).val
     ELSE intervals[w]]]

\* utils_cfg_add_intervals: the number of values, -1 if one is refused; the
\* slots behind the last one read keep what they had.
utils_cfg_add_intervals(nums, intervals) ==
  IF ~utils_cfg_check_input(nums)
  THEN [count |-> -1, intervals |-> intervals]
  ELSE [count |-> IF Stop(nums) > Len(nums) THEN Len(nums) ELSE -1,
        intervals |-> [w \in Window |->
          IF w < Stop(nums) /\ w < Len(nums)
          THEN utils_cfg_validity_check_val(nums[w + 1], intervals[w]).val
          ELSE intervals[w]]]

\* The intervals rpki_validate reads: slots 0 and 1, 2 and 3, ... (rpki.c:105).
Pairs(intervals, count) ==
  {<<intervals[w], intervals[w + 1]>> : w \in {v \in Window : v % 2 = 0 /\ v < count}}

-----------------------------------------------------------------------------
(* Collectors                                                               *)

\* The default collector of a mode: FU-Berlin:CC01, for live FU-Berlin:CC01(RTR).
DefaultCollectors(mode) ==
  <<[len |-> 9, rtr |-> FALSE, comma |-> FALSE],
    [len |-> 4, rtr |-> mode = 0, comma |-> FALSE]>>

\* An item has a length and may contain "RTR" or a comma; no items at all
\* stands for NULL.
Collectors(items, mode) == IF items = <<>> THEN DefaultCollectors(mode) ELSE items

\* What strtok yields.
HasText(item) == item.len > 0
Items(list) == SelectSeq(list, HasText)

\* utils_cfg_check_collectors: projects and collectors alternate.
utils_cfg_check_collectors(items) ==
  /\ utils_cfg_check_input(items)
  /\ Len(items) > 1 \/ HasText(items[1])
  /\ \A i \in 1 .. Len(items) : items[i].len < MaxInputLength
  /\ Len(Items(items)) % 2 = 0

-----------------------------------------------------------------------------
(* Flags and SSH options                                                    *)

utils_cfg_check_flags(unified, mode) == unified \in {0, 1} /\ mode \in {0, 1}

\* Options are NULL or a list of parts with their lengths; commas count too.
NoOptions == <<>>
TextLen(parts) ==
  LET sum[n \in 0 .. Len(parts)] == IF n = 0 THEN 0 ELSE sum[n - 1] + parts[n] + 1
  IN  sum[Len(parts)] - 1

\* utils_cfg_check_ssh_options: two commas, between user, host key and private
\* key; nothing need stand between them.
utils_cfg_check_ssh_options(parts) ==
  parts = NoOptions \/ (TextLen(parts) <= MaxSshLen /\ Len(parts) = 3)
=============================================================================
