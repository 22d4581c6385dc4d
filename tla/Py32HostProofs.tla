--------------------------- MODULE Py32HostProofs ---------------------------
(***************************************************************************)
(* Power switching, proved for every interleaving of thread, timer and     *)
(* work queue.                                                             *)
(***************************************************************************)
EXTENDS Py32Host, TLAPS

\* A wait for phones needs a phone, and without one the only moment at which a
\* live host is hidden is the one between py32_host_alive = true and the call
\* that makes Bluetooth visible.
VisibleOnceOn ==
    ~phones_near =>
        /\ ~phone /\ handler = "free"
        /\ alive /\ user_visual => pc = "unhide"

HostInv == HostTypeOK /\ IdleWorkArmed /\ VisibleOnceOn

\* The state after boot satisfies the invariant.
LEMMA HostInvInit == HostInit => HostInv
  BY DEF HostInit, HostInv, HostTypeOK, IdleWorkArmed, VisibleOnceOn

\* Every step keeps the types.
LEMMA TypeKept == HostInv /\ [HostNext]_hostVars => HostTypeOK'
  <1> SUFFICES ASSUME HostInv, [HostNext]_hostVars
               PROVE  HostTypeOK'
    OBVIOUS
  <1> USE DEF HostInv, HostTypeOK, btVars
  <1>1. CASE Silence
    BY <1>1 DEF Silence
  <1>2. CASE Receive
    BY <1>2 DEF Receive
  <1>3. CASE CheckAlive
    <2>1. CASE alive
      BY <1>3, <2>1 DEF CheckAlive
    <2>2. CASE ~alive
      BY <1>3, <2>2 DEF CheckAlive
    <2> QED
      BY <2>1, <2>2
  <1>4. CASE PowerOn
    BY <1>4 DEF PowerOn
  <1>5. CASE Unhide
    BY <1>5 DEF Unhide
  <1>6. CASE StartWait
    BY <1>6 DEF StartWait
  <1>7. CASE StartReconnect
    BY <1>7 DEF StartReconnect
  <1>8. CASE CancelIdle
    BY <1>8 DEF CancelIdle
  <1>9. CASE SubmitIdle
    BY <1>9 DEF SubmitIdle
  <1>10. CASE TimerFires
    BY <1>10 DEF TimerFires
  <1>11. CASE IdleHandlerNothing
    BY <1>11 DEF IdleHandlerNothing
  <1>12. CASE IdleHandler
    <2>1. CASE phone
      BY <1>12, <2>1 DEF IdleHandler, Hide
    <2>2. CASE ~phone
      BY <1>12, <2>2 DEF IdleHandler, Hide
    <2> QED
      BY <2>1, <2>2
  <1>13. CASE IdleHandlerResumes
    BY <1>13 DEF IdleHandlerResumes, Hide
  <1>14. CASE PhoneConnects
    BY <1>14 DEF PhoneConnects
  <1>15. CASE PhoneLeaves
    BY <1>15, ZenonT(30) DEF PhoneLeaves
  <1>16. CASE ReconnectFails
    BY <1>16 DEF ReconnectFails
  <1>17. CASE UNCHANGED hostVars
    BY <1>17 DEF hostVars
  <1> QED
    BY <1>1, <1>2, <1>3, <1>4, <1>5, <1>6, <1>7, <1>8, <1>9,
       <1>10, <1>11, <1>12, <1>13, <1>14, <1>15, <1>16, <1>17
    DEF HostNext, ThreadStep

\* Every step keeps the idle work of a live host pending.
LEMMA ArmedKept == HostInv /\ [HostNext]_hostVars => IdleWorkArmed'
  <1> SUFFICES ASSUME HostInv, [HostNext]_hostVars
               PROVE  IdleWorkArmed'
    OBVIOUS
  <1> USE DEF HostInv, IdleWorkArmed, btVars
  <1>1. CASE Silence
    BY <1>1 DEF Silence
  <1>2. CASE Receive
    BY <1>2 DEF Receive
  <1>3. CASE CheckAlive
    <2>1. CASE alive
      BY <1>3, <2>1 DEF CheckAlive
    <2>2. CASE ~alive
      BY <1>3, <2>2 DEF CheckAlive
    <2> QED
      BY <2>1, <2>2
  <1>4. CASE PowerOn
    BY <1>4 DEF PowerOn
  <1>5. CASE Unhide
    BY <1>5 DEF Unhide
  <1>6. CASE StartWait
    BY <1>6 DEF StartWait
  <1>7. CASE StartReconnect
    BY <1>7 DEF StartReconnect
  <1>8. CASE CancelIdle
    BY <1>8 DEF CancelIdle
  <1>9. CASE SubmitIdle
    BY <1>9 DEF SubmitIdle
  <1>10. CASE TimerFires
    BY <1>10 DEF TimerFires
  <1>11. CASE IdleHandlerNothing
    BY <1>11 DEF IdleHandlerNothing
  <1>12. CASE IdleHandler
    <2>1. CASE phone
      BY <1>12, <2>1 DEF IdleHandler, Hide
    <2>2. CASE ~phone
      BY <1>12, <2>2 DEF IdleHandler, Hide
    <2> QED
      BY <2>1, <2>2
  <1>13. CASE IdleHandlerResumes
    BY <1>13 DEF IdleHandlerResumes, Hide
  <1>14. CASE PhoneConnects
    BY <1>14 DEF PhoneConnects
  <1>15. CASE PhoneLeaves
    BY <1>15 DEF PhoneLeaves
  <1>16. CASE ReconnectFails
    BY <1>16 DEF ReconnectFails
  <1>17. CASE UNCHANGED hostVars
    BY <1>17 DEF hostVars
  <1> QED
    BY <1>1, <1>2, <1>3, <1>4, <1>5, <1>6, <1>7, <1>8, <1>9,
       <1>10, <1>11, <1>12, <1>13, <1>14, <1>15, <1>16, <1>17
    DEF HostNext, ThreadStep

\* Every step keeps a live host visible when there are no phones.
LEMMA VisibleKept == HostInv /\ [HostNext]_hostVars => VisibleOnceOn'
  <1> SUFFICES ASSUME HostInv, [HostNext]_hostVars
               PROVE  VisibleOnceOn'
    OBVIOUS
  <1> USE DEF HostInv, VisibleOnceOn, btVars
  <1>1. CASE Silence
    BY <1>1 DEF Silence
  <1>2. CASE Receive
    BY <1>2 DEF Receive
  <1>3. CASE CheckAlive
    <2>1. CASE alive
      BY <1>3, <2>1 DEF CheckAlive
    <2>2. CASE ~alive
      BY <1>3, <2>2 DEF CheckAlive
    <2> QED
      BY <2>1, <2>2
  <1>4. CASE PowerOn
    BY <1>4 DEF PowerOn
  <1>5. CASE Unhide
    BY <1>5 DEF Unhide
  <1>6. CASE StartWait
    BY <1>6 DEF StartWait
  <1>7. CASE StartReconnect
    BY <1>7 DEF StartReconnect
  <1>8. CASE CancelIdle
    BY <1>8 DEF CancelIdle
  <1>9. CASE SubmitIdle
    BY <1>9 DEF SubmitIdle
  <1>10. CASE TimerFires
    BY <1>10 DEF TimerFires
  <1>11. CASE IdleHandlerNothing
    BY <1>11 DEF IdleHandlerNothing
  <1>12. CASE IdleHandler
    <2>1. CASE phone
      BY <1>12, <2>1 DEF IdleHandler, Hide
    <2>2. CASE ~phone
      BY <1>12, <2>2 DEF IdleHandler, Hide
    <2> QED
      BY <2>1, <2>2
  <1>13. CASE IdleHandlerResumes
    BY <1>13 DEF IdleHandlerResumes, Hide
  <1>14. CASE PhoneConnects
    BY <1>14 DEF PhoneConnects
  <1>15. CASE PhoneLeaves
    BY <1>15 DEF PhoneLeaves
  <1>16. CASE ReconnectFails
    BY <1>16 DEF ReconnectFails
  <1>17. CASE UNCHANGED hostVars
    BY <1>17 DEF hostVars
  <1> QED
    BY <1>1, <1>2, <1>3, <1>4, <1>5, <1>6, <1>7, <1>8, <1>9,
       <1>10, <1>11, <1>12, <1>13, <1>14, <1>15, <1>16, <1>17
    DEF HostNext, ThreadStep

\* Every step of every actor keeps the invariant.
LEMMA HostInvInductive == HostInv /\ [HostNext]_hostVars => HostInv'
  BY TypeKept, ArmedKept, VisibleKept DEF HostInv

\* The invariant holds in every reachable state.
LEMMA HostInvariant == HostSpec => []HostInv
  BY HostInvInit, HostInvInductive, PTL DEF HostSpec

\* Every variable keeps its type.
THEOREM HostTypeCorrect == HostSpec => []HostTypeOK
  <1>1. HostInv => HostTypeOK
    BY DEF HostInv
  <1> QED
    BY HostInvariant, <1>1, PTL

\* A live host between two rounds of py32_uart_thread has its idle work armed or
\* queued: no interleaving leaves the speaker on with nothing to switch it off.
THEOREM IdleWorkNeverForgotten == HostSpec => []IdleWorkArmed
  <1>1. HostInv => IdleWorkArmed
    BY DEF HostInv
  <1> QED
    BY HostInvariant, <1>1, PTL

\* Where no phone makes the idle handler sleep, a live host is visible, although
\* the handler may preempt py32_host_power_on at any point.  (With phones it is
\* not: see the run late_hide.)
THEOREM OnIsVisibleWithoutPhones == HostSpec => []OnIsVisibleAlone
  <1>1. HostInv => OnIsVisibleAlone
    BY DEF HostInv, VisibleOnceOn, OnIsVisibleAlone
  <1> QED
    BY HostInvariant, <1>1, PTL
=============================================================================
