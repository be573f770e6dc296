----------------------------- MODULE MCSwiftReport -----------------------------
(* An instance of SwiftReport for TLC.                                     *)
EXTENDS SwiftReport

(* Each handler, twice in a program; the first entry of device_info, asked *)
(* for by two get_device_info.                                             *)
SomePrograms ==
    {<<"set_mode", "get_mode">>, <<"get_power_status", "get_power_status">>,
     <<"get_limit_switch", "get_position">>, <<"device_type", "device_type">>}

(* No calls: the receive threads have only reports to read.                *)
NoPrograms == {<<>>}
================================================================================
