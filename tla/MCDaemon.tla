------------------------------ MODULE MCDaemon ------------------------------
(***************************************************************************)
(* Daemon for TLC.  The settings that differ in what the steps do: no      *)
(* package manager; reboots forbidden; reboots allowed, with and without   *)
(* cleanup.                                                                *)
(***************************************************************************)
EXTENDS Daemon

Setting(pm, boot, clean, remove) ==
    [pm_available |-> pm, allow_reboot |-> boot,
     auto_clean |-> clean, auto_remove |-> remove]

AllSettings == {Setting(FALSE, TRUE, FALSE, FALSE), Setting(TRUE, FALSE, FALSE, TRUE),
                Setting(TRUE, FALSE, TRUE, FALSE), Setting(TRUE, TRUE, FALSE, FALSE),
                Setting(TRUE, TRUE, TRUE, TRUE)}

BusySetting == {Setting(TRUE, TRUE, TRUE, TRUE)}
=============================================================================
