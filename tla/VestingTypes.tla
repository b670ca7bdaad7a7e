----------------------------- MODULE VestingTypes -----------------------------
(***************************************************************************)
(* The codecs of the messages of x/vesting: what Marshal writes, from the    *)
(* end, what Size counts and what Unmarshal looks for.                       *)
(***************************************************************************)
EXTENDS Fields

(* vesting.pb.go *)

LazyGradedVestingAccountMarshal ==
    <<Parts(18, "VestingSchedules", "VestingSchedule"),
      Pointer(10, "BaseVestingAccount", "BaseVestingAccount")>>
LazyGradedVestingAccountSize ==
    <<Pointer(1, "BaseVestingAccount", "BaseVestingAccount"),
      Parts(1, "VestingSchedules", "VestingSchedule")>>
LazyGradedVestingAccountUnmarshal ==
    <<Pointer(<<1, 2>>, "BaseVestingAccount", "BaseVestingAccount"),
      Parts(<<2, 2>>, "VestingSchedules", "VestingSchedule")>>

ScheduleMarshal == <<Part(26, "Ratio", "Dec"), Signed(16, "EndTime"), Signed(8, "StartTime")>>
ScheduleSize == <<Signed(1, "StartTime"), Signed(1, "EndTime"), Part(1, "Ratio", "Dec")>>
ScheduleUnmarshal ==
    <<Signed(<<1, 0>>, "StartTime"), Signed(<<2, 0>>, "EndTime"),
      Part(<<3, 2>>, "Ratio", "Dec")>>

VestingScheduleMarshal == <<Parts(18, "Schedules", "Schedule"), Text(10, "Denom")>>
VestingScheduleSize == <<Text(1, "Denom"), Parts(1, "Schedules", "Schedule")>>
VestingScheduleUnmarshal ==
    <<Text(<<1, 2>>, "Denom"), Parts(<<2, 2>>, "Schedules", "Schedule")>>

Names ==
    {"LazyGradedVestingAccount", "Schedule", "VestingSchedule"}

Messages(name) ==
    CASE name = "LazyGradedVestingAccount" ->
            Codec(LazyGradedVestingAccountMarshal, LazyGradedVestingAccountSize,
                  LazyGradedVestingAccountUnmarshal)
      [] name = "Schedule" -> Codec(ScheduleMarshal, ScheduleSize, ScheduleUnmarshal)
      [] name = "VestingSchedule" ->
            Codec(VestingScheduleMarshal, VestingScheduleSize,
                  VestingScheduleUnmarshal)
===============================================================================
