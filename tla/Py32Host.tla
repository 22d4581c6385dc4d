------------------------------ MODULE Py32Host ------------------------------
(***************************************************************************)
(* Switching the speaker on and off from the activity of the PY32 link:    *)
(* received bytes mean on, ten silent seconds mean off (Bluetooth hidden   *)
(* and disconnected).                                                      *)
(*                                                                         *)
(* Three actors touch this state.  The py32 thread (preemptible, priority  *)
(* 14) runs py32_host_on_rx_activity and can lose the processor between    *)
(* any two of its steps.  The timer interrupt queues the idle work.  The   *)
(* system work queue (cooperative, priority -1) runs the idle handler:     *)
(* the thread gets in between only while the handler sleeps, waiting for   *)
(* connected phones to go.                                                 *)
(***************************************************************************)
EXTENDS Naturals

VARIABLES
    silent,         \* the host MCU is not sending
    alive,          \* py32_host_alive
    idle_work,      \* py32_host_idle_work
    pc,             \* where the py32 thread is in py32_host_on_rx_activity
    handler,        \* the work queue is free, or sleeps in the idle handler
    power_on_setup, \* bt_manager_power_on_setup, read at boot
    user_visual,    \* the user setting that hides Bluetooth is in force
    wait_connect,   \* BT_PAIR_STATUS_WAIT_CONNECT
    pair_mode,      \* BT_PAIR_STATUS_PAIR_MODE
    reconnect,      \* auto_reconnect_work is pending or at work
    phones_near,    \* there are phones that may connect
    phone           \* a phone is connected

btVars   == <<power_on_setup, user_visual, wait_connect, pair_mode, reconnect,
              phones_near, phone>>
hostVars == <<silent, alive, idle_work, pc, handler, btVars>>

HostTypeOK ==
    /\ silent \in BOOLEAN /\ alive \in BOOLEAN
    /\ idle_work \in {"off", "armed", "queued"}
    /\ pc \in {"idle", "check", "on", "unhide", "wait", "reconnect", "cancel", "submit"}
    /\ handler \in {"free", "sleeping"}
    /\ power_on_setup \in BOOLEAN
    /\ user_visual \in BOOLEAN /\ wait_connect \in BOOLEAN
    /\ pair_mode \in BOOLEAN /\ reconnect \in BOOLEAN
    /\ phones_near \in BOOLEAN /\ phone \in BOOLEAN

\* system_app_init_bte_ready: the thread does not exist yet, so the host is not
\* alive and Bluetooth starts hidden.
HostInit ==
    /\ silent = TRUE /\ alive = FALSE
    /\ idle_work = "off" /\ pc = "idle" /\ handler = "free"
    /\ power_on_setup \in BOOLEAN
    /\ user_visual = TRUE
    /\ wait_connect = FALSE /\ pair_mode = FALSE /\ reconnect = FALSE
    /\ phones_near \in BOOLEAN /\ phone = FALSE

-----------------------------------------------------------------------------
(* The host MCU (external).                                                *)

Silence ==
    /\ ~silent /\ silent' = TRUE
    /\ UNCHANGED <<alive, idle_work, pc, handler, btVars>>

\* Bytes arrive and py32_uart_ring_drain returns more than zero.
Receive ==
    /\ pc = "idle"
    /\ silent' = FALSE
    /\ pc' = "check"
    /\ UNCHANGED <<alive, idle_work, handler, btVars>>

-----------------------------------------------------------------------------
(* The py32 thread: py32_host_on_rx_activity, py32_host_power_on and       *)
(* py32_host_bt_enable, one action per access to shared state.             *)

CheckAlive ==
    /\ pc = "check"
    /\ pc' = IF alive THEN "cancel" ELSE "on"
    /\ UNCHANGED <<silent, alive, idle_work, handler, btVars>>

PowerOn ==
    /\ pc = "on" /\ pc' = "unhide"
    /\ alive' = TRUE
    /\ UNCHANGED <<silent, idle_work, handler, btVars>>

Unhide ==
    /\ pc = "unhide" /\ pc' = "wait"
    /\ user_visual' = FALSE
    /\ UNCHANGED <<silent, alive, idle_work, handler,
                   power_on_setup, wait_connect, pair_mode, reconnect,
                   phones_near, phone>>

\* bt_manager_start_wait_connect
StartWait ==
    /\ pc = "wait"
    /\ pc' = IF power_on_setup THEN "reconnect" ELSE "cancel"
    /\ wait_connect' = TRUE
    /\ UNCHANGED <<silent, alive, idle_work, handler,
                   power_on_setup, user_visual, pair_mode, reconnect,
                   phones_near, phone>>

\* bt_manager_powon_auto_reconnect: nothing to do in pair mode.
StartReconnect ==
    /\ pc = "reconnect" /\ pc' = "cancel"
    /\ reconnect' = (reconnect \/ ~pair_mode)
    /\ UNCHANGED <<silent, alive, idle_work, handler,
                   power_on_setup, user_visual, wait_connect, pair_mode,
                   phones_near, phone>>

\* k_delayed_work_cancel stops the timer or takes the work off the queue.
CancelIdle ==
    /\ pc = "cancel" /\ pc' = "submit"
    /\ idle_work' = "off"
    /\ UNCHANGED <<silent, alive, handler, btVars>>

\* k_delayed_work_submit for PY32_HOST_IDLE_TIMEOUT_MS from now.
SubmitIdle ==
    /\ pc = "submit" /\ pc' = "idle"
    /\ idle_work' = "armed"
    /\ UNCHANGED <<silent, alive, handler, btVars>>

ThreadStep == \/ CheckAlive \/ PowerOn \/ Unhide \/ StartWait
              \/ StartReconnect \/ CancelIdle \/ SubmitIdle

-----------------------------------------------------------------------------
(* The timer interrupt and the system work queue.                          *)

\* work_timeout
TimerFires ==
    /\ idle_work = "armed"
    /\ idle_work' = "queued"
    /\ UNCHANGED <<silent, alive, pc, handler, btVars>>

\* work_q_main takes the idle work; py32_host_idle_work_handler finds the host
\* off already.
IdleHandlerNothing ==
    /\ idle_work = "queued" /\ handler = "free"
    /\ ~alive
    /\ idle_work' = "off"
    /\ UNCHANGED <<silent, alive, pc, handler, btVars>>

\* The end of py32_host_bt_disable: bt_manager_end_wait_connect, then hide.
Hide == wait_connect' = FALSE /\ user_visual' = TRUE

\* Mutant: py32_host_alive is cleared only after Bluetooth has been disabled.
IdleHandlerClearsLate ==
    /\ idle_work = "queued" /\ handler = "free"
    /\ alive
    /\ idle_work' = "off"
    /\ alive' = phone
    /\ reconnect' = FALSE /\ pair_mode' = FALSE
    /\ \/ phone /\ handler' = "sleeping" /\ UNCHANGED <<wait_connect, user_visual>>
       \/ ~phone /\ handler' = "free" /\ Hide
    /\ UNCHANGED <<silent, pc, power_on_setup, phones_near, phone>>

\* Mutant: py32_host_alive is not cleared.
IdleHandlerKeepsAlive ==
    /\ idle_work = "queued" /\ handler = "free"
    /\ alive
    /\ idle_work' = "off"
    /\ reconnect' = FALSE /\ pair_mode' = FALSE
    /\ ~phone /\ Hide
    /\ UNCHANGED <<silent, alive, pc, handler, power_on_setup, phones_near, phone>>

\* Mutant: no switching off while a phone is connected.
IdleHandlerUnlessPhone ==
    /\ idle_work = "queued" /\ handler = "free"
    /\ alive /\ ~phone
    /\ idle_work' = "off"
    /\ alive' = FALSE
    /\ reconnect' = FALSE /\ pair_mode' = FALSE
    /\ Hide
    /\ UNCHANGED <<silent, pc, handler, power_on_setup, phones_near, phone>>

\* py32_host_power_off up to the wait in bt_manager_br_disconnect_all_phone_device,
\* and to the end of py32_host_bt_disable if no phone has to be waited for.
IdleHandler ==
    /\ idle_work = "queued" /\ handler = "free"
    /\ alive
    /\ idle_work' = "off"
    /\ alive' = FALSE
    /\ reconnect' = FALSE /\ pair_mode' = FALSE
    /\ \/ phone /\ handler' = "sleeping" /\ UNCHANGED <<wait_connect, user_visual>>
       \/ ~phone /\ handler' = "free" /\ Hide
    /\ UNCHANGED <<silent, pc, power_on_setup, phones_near, phone>>

\* The phones are gone or five seconds have passed.
IdleHandlerResumes ==
    /\ handler = "sleeping"
    /\ handler' = "free"
    /\ Hide
    /\ UNCHANGED <<silent, alive, idle_work, pc, power_on_setup, pair_mode, reconnect,
                   phones_near, phone>>

-----------------------------------------------------------------------------
(* Bluetooth and the phones (external).                                    *)

\* A phone connects to a visible speaker, or the speaker reconnects to it.  The
\* reconnect work waits for the work queue.
PhoneConnects ==
    /\ phones_near /\ ~phone
    /\ \/ ~user_visual /\ (wait_connect \/ pair_mode)
       \/ reconnect /\ handler = "free"
    /\ phone' = TRUE
    /\ reconnect' = FALSE
    /\ UNCHANGED <<silent, alive, idle_work, pc, handler,
                   power_on_setup, user_visual, wait_connect, pair_mode, phones_near>>

PhoneLeaves ==
    /\ phone
    /\ phone' = FALSE
    /\ UNCHANGED <<silent, alive, idle_work, pc, handler,
                   power_on_setup, user_visual, wait_connect, pair_mode, reconnect, phones_near>>

\* No phone answers: the configuration makes the speaker enter pair mode.
ReconnectFails ==
    /\ reconnect /\ handler = "free"
    /\ reconnect' = FALSE /\ pair_mode' = TRUE
    /\ UNCHANGED <<silent, alive, idle_work, pc, handler,
                   power_on_setup, user_visual, wait_connect, phones_near, phone>>

-----------------------------------------------------------------------------
HostNext ==
    \/ Silence \/ Receive
    \/ ThreadStep
    \/ TimerFires \/ IdleHandlerNothing \/ IdleHandler \/ IdleHandlerResumes
    \/ PhoneConnects \/ PhoneLeaves \/ ReconnectFails

\* The scheduler runs thread and work queue, the wait for phones is bounded, and
\* an armed timer expires once no more bytes keep pushing it back.  The host MCU
\* and the phones owe us nothing.
HostFairness ==
    /\ WF_hostVars(ThreadStep)
    /\ WF_hostVars(silent /\ TimerFires)
    /\ WF_hostVars(IdleHandler \/ IdleHandlerNothing)
    /\ WF_hostVars(IdleHandlerResumes)

HostSpec == HostInit /\ [][HostNext]_hostVars /\ HostFairness

-----------------------------------------------------------------------------
(* Properties.                                                             *)

\* A speaker that is on is always going to be looked at again: between two rounds
\* of the thread the idle work of a live host is armed or queued, wherever the
\* handler struck between the thread's check, cancel and submit.
IdleWorkArmed == alive /\ pc = "idle" => idle_work # "off"

\* When the PY32 falls silent for good the speaker is switched off for good.
SilenceTurnsOff == <>[]silent => <>[]~alive

\* Where no phone makes the idle handler sleep, a live host is visible between two
\* rounds of the thread, although the handler may preempt py32_host_power_on at
\* any point.
OnIsVisibleAlone == ~phones_near /\ alive /\ pc = "idle" => ~user_visual

\* "Data means on; timeout without data means off (BT hidden and disconnected)":
\* when neither thread nor handler is at work, a live host is not hidden ...
OnMeansVisible == alive /\ pc = "idle" /\ handler = "free" => ~user_visual

\* ... and a host that stays silent ends up hidden.
SilenceHides == <>[]silent => <>[]user_visual
=============================================================================
