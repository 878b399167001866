---------------------------- MODULE LaunchProofs ----------------------------
(***************************************************************************)
(* The invariant LInv of Launch is inductive, for every set of settings,   *)
(* and what follows from it.  The types come first, by themselves: every   *)
(* other leaf can then do without them.                                    *)
(***************************************************************************)
EXTENDS Launch, TLAPS

\* The backend data that shutdown leaves is of the type of backend data.
LEMMA NoDataType ==
  NoData \in [pid : BOOLEAN, recoverypid : BOOLEAN, names : SUBSET SockFiles]
BY Zenon DEF NoData, SockFiles

\* Every step of the main program and of the other processes keeps the types.
LEMMA StepType ==
  ASSUME TypeOK, UNCHANGED opts,
         \/ direct_prepare \/ direct_bind \/ direct_console \/ direct_args
         \/ direct_fork \/ direct_recovery \/ direct_conn \/ direct_accept
         \/ direct_recv \/ direct_cleanup1 \/ direct_cleanup0 \/ uml_prepare
         \/ uml_console \/ uml_fork \/ uml_recovery \/ uml_conn \/ uml_recv
         \/ uml_cleanup1 \/ uml_cleanup0 \/ libvirt_prepare \/ libvirt_bind
         \/ libvirt_console \/ libvirt_create \/ libvirt_accept_console
         \/ libvirt_conn \/ libvirt_accept \/ libvirt_recv \/ libvirt_cleanup
         \/ unix_connect \/ unix_conn \/ unix_recv \/ unix_cleanup
         \/ guestfs_add_drive \/ guestfs_launch \/ guestfs_launch_again \/ guestfs_api
         \/ guestfs_shutdown \/ guestfs_close \/ guestfs_internal_autosync
         \/ shutdown_signal \/ child_cleanup \/ shutdown_backend_end
         \/ guestfs_close_end \/ hv_exits \/ recovery_getppid \/ recovery_poll
         \/ libvirt_autodestroy \/ main_crashes
  PROVE  TypeOK'
<1>1. CASE direct_prepare
  BY ONLY TypeOK, UNCHANGED opts, <1>1
     DEF TypeOK, direct_prepare, At, Backend, Return, Fail, Goto, Unlaunched, Points,
         SockFiles
<1>2. CASE direct_bind
  BY ONLY TypeOK, UNCHANGED opts, <1>2, ZenonT(40)
     DEF TypeOK, direct_bind, At, Backend, Fail, Goto, Unlaunched, Points, Fds,
         SockFiles
<1>3. CASE direct_console
  BY ONLY TypeOK, UNCHANGED opts, <1>3, ZenonT(40)
     DEF TypeOK, direct_console, At, Backend, direct_mode, Goto, Fail, Unlaunched,
         Points, Fds
<1>4. CASE direct_args
  BY ONLY TypeOK, UNCHANGED opts, <1>4, ZenonT(40)
     DEF TypeOK, direct_args, At, Backend, Goto, Fail, direct_mode, Unlaunched,
         Points, Fds
<1>5. CASE direct_fork
  BY ONLY TypeOK, UNCHANGED opts, <1>5, ZenonT(40)
     DEF TypeOK, direct_fork, At, Backend, Fail, Unlaunched, Goto, handle, Points,
         Fds, HvStates
<1>6. CASE direct_recovery
  BY ONLY TypeOK, UNCHANGED opts, <1>6, ZenonT(40)
     DEF TypeOK, direct_recovery, At, Backend, recovery_proc, direct_mode, Goto,
         Points, Fds, RecoveryStates
<1>7. CASE direct_conn
  BY ONLY TypeOK, UNCHANGED opts, <1>7, ZenonT(40)
     DEF TypeOK, direct_conn, At, Backend, new_conn_socket_listening, Fail,
         LaunchCleanup, Goto, procs, Points, Fds
<1>8. CASE direct_accept
  BY ONLY TypeOK, UNCHANGED opts, <1>8, ZenonT(40)
     DEF TypeOK, direct_accept, At, Backend, accept_connection, Goto, Fail,
         LaunchCleanup, procs, Points, Fds
<1>9. CASE direct_recv
  BY ONLY TypeOK, UNCHANGED opts, <1>9, ZenonT(40)
     DEF TypeOK, direct_recv, At, Backend, recv_from_daemon, Return, Fail,
         LaunchCleanup, AtEOF, ChildCleanup, procs, Points
<1>10. CASE direct_cleanup1
  BY ONLY TypeOK, UNCHANGED opts, <1>10, ZenonT(40)
     DEF TypeOK, direct_cleanup1, At, Backend, Goto, handle, Points, Fds, HvStates,
         RecoveryStates
<1>11. CASE direct_cleanup0
  BY ONLY TypeOK, UNCHANGED opts, <1>11, Zenon
     DEF TypeOK, direct_cleanup0, At, Backend, Return, procs, Points, Fds
<1>12. CASE uml_prepare
  BY ONLY TypeOK, UNCHANGED opts, <1>12
     DEF TypeOK, uml_prepare, At, Backend, Return, Fail, Goto, Unlaunched, Points
<1>13. CASE uml_console
  BY ONLY TypeOK, UNCHANGED opts, <1>13, ZenonT(40)
     DEF TypeOK, uml_console, At, Backend, Fail, Goto, direct_mode, Unlaunched,
         Points, Fds
<1>14. CASE uml_fork
  BY ONLY TypeOK, UNCHANGED opts, <1>14, ZenonT(40)
     DEF TypeOK, uml_fork, At, Backend, Fail, Unlaunched, Goto, handle, Points, Fds,
         HvStates
<1>15. CASE uml_recovery
  BY ONLY TypeOK, UNCHANGED opts, <1>15, ZenonT(40)
     DEF TypeOK, uml_recovery, At, Backend, recovery_proc, direct_mode, Goto, Points,
         Fds, RecoveryStates
<1>16. CASE uml_conn
  BY ONLY TypeOK, UNCHANGED opts, <1>16, ZenonT(40)
     DEF TypeOK, uml_conn, At, Backend, new_conn_socket_connected, Fail,
         LaunchCleanup, Goto, procs, Points, Fds
<1>17. CASE uml_recv
  BY ONLY TypeOK, UNCHANGED opts, <1>17, ZenonT(40)
     DEF TypeOK, uml_recv, At, Backend, recv_from_daemon, Return, Fail, LaunchCleanup,
         AtEOF, ChildCleanup, procs, Points
<1>18. CASE uml_cleanup1
  BY ONLY TypeOK, UNCHANGED opts, <1>18, ZenonT(40)
     DEF TypeOK, uml_cleanup1, At, Backend, Goto, handle, Points, Fds, HvStates,
         RecoveryStates
<1>19. CASE uml_cleanup0
  BY ONLY TypeOK, UNCHANGED opts, <1>19, Zenon
     DEF TypeOK, uml_cleanup0, At, Backend, Return, procs, Points, Fds
<1>20. CASE libvirt_prepare
  BY ONLY TypeOK, UNCHANGED opts, <1>20
     DEF TypeOK, libvirt_prepare, At, Backend, Return, Fail, direct_mode, Goto,
         Unlaunched, Points, Fds, SockFiles
<1>21. CASE libvirt_bind
  BY ONLY TypeOK, UNCHANGED opts, <1>21
     DEF TypeOK, libvirt_bind, At, Backend, Fail, Goto, Unlaunched, Points, Fds,
         SockFiles
<1>22. CASE libvirt_console
  BY ONLY TypeOK, UNCHANGED opts, <1>22, ZenonT(40)
     DEF TypeOK, libvirt_console, At, Backend, Fail, Goto, Unlaunched, Points, Fds,
         SockFiles
<1>23. CASE libvirt_create
  BY ONLY TypeOK, UNCHANGED opts, <1>23, ZenonT(40)
     DEF TypeOK, libvirt_create, At, Backend, Fail, Goto, Points, HvStates
<1>24. CASE libvirt_accept_console
  BY ONLY TypeOK, UNCHANGED opts, <1>24, ZenonT(40)
     DEF TypeOK, libvirt_accept_console, At, Backend, Goto, Fail, handle, procs,
         Points, Fds
<1>25. CASE libvirt_conn
  BY ONLY TypeOK, UNCHANGED opts, <1>25, ZenonT(40)
     DEF TypeOK, libvirt_conn, At, Backend, new_conn_socket_listening, Fail,
         LaunchCleanup, Goto, procs, Points, Fds
<1>26. CASE libvirt_accept
  BY ONLY TypeOK, UNCHANGED opts, <1>26, ZenonT(40)
     DEF TypeOK, libvirt_accept, At, Backend, accept_connection, Goto, Fail,
         LaunchCleanup, procs, Points, Fds
<1>27. CASE libvirt_recv
  BY ONLY TypeOK, UNCHANGED opts, <1>27, ZenonT(40)
     DEF TypeOK, libvirt_recv, At, Backend, recv_from_daemon, Return, Fail,
         LaunchCleanup, AtEOF, ChildCleanup, procs, Points, Fds
<1>28. CASE libvirt_cleanup
  BY ONLY TypeOK, UNCHANGED opts, <1>28, Zenon
     DEF TypeOK, libvirt_cleanup, At, Backend, Return, Points, Fds, HvStates
<1>29. CASE unix_connect
  BY ONLY TypeOK, UNCHANGED opts, <1>29, ZenonT(40)
     DEF TypeOK, unix_connect, At, Backend, Return, Goto, Fail, procs, Points, Fds
<1>30. CASE unix_conn
  BY ONLY TypeOK, UNCHANGED opts, <1>30, ZenonT(40)
     DEF TypeOK, unix_conn, At, Backend, new_conn_socket_connected, Fail,
         LaunchCleanup, Goto, procs, Points, Fds
<1>31. CASE unix_recv
  BY ONLY TypeOK, UNCHANGED opts, <1>31, ZenonT(40)
     DEF TypeOK, unix_recv, At, Backend, Return, Fail, ChildCleanup, procs, Points
<1>32. CASE unix_cleanup
  BY ONLY TypeOK, UNCHANGED opts, <1>32, Zenon
     DEF TypeOK, unix_cleanup, At, Backend, Return, procs, Points, Fds
<1>33. CASE guestfs_add_drive
  BY ONLY TypeOK, UNCHANGED opts, <1>33, Zenon
     DEF TypeOK, guestfs_add_drive, procs
<1>34. CASE guestfs_launch
  BY ONLY TypeOK, UNCHANGED opts, <1>34, Zenon
     DEF TypeOK, guestfs_launch, Begin, Return, handle, procs, Points
<1>35. CASE guestfs_launch_again
  BY ONLY TypeOK, UNCHANGED opts, <1>35, Zenon
     DEF TypeOK, guestfs_launch_again, Return, handle, procs, Points
<1>36. CASE guestfs_api
  BY ONLY TypeOK, UNCHANGED opts, <1>36, ZenonT(40)
     DEF TypeOK, guestfs_api, Return, AtEOF, Backend, handle, procs, Points
<1>37. CASE guestfs_shutdown
  BY ONLY TypeOK, UNCHANGED opts, <1>37, Zenon
     DEF TypeOK, guestfs_shutdown, shutdown_backend, autosync, handle, procs, Points
<1>38. CASE guestfs_close
  BY ONLY TypeOK, UNCHANGED opts, <1>38, ZenonT(40)
     DEF TypeOK, guestfs_close, CloseHandle, procs, shutdown_backend, autosync,
         handle, Points, SockFiles
<1>39. CASE guestfs_internal_autosync
  <2> USE DEF TypeOK, guestfs_internal_autosync, Goto, Fail, AtEOF, Backend, ChildCleanup,
          handle, procs, Points
  <2>1. opts' \in Settings /\ state' \in {"CONFIG", "LAUNCHING", "READY", "NO_HANDLE"}
    BY ONLY TypeOK, UNCHANGED opts, <1>39, Zenon
  <2>2. conn' \in SUBSET Fds /\ fds' \in SUBSET Fds /\ files' \in SUBSET SockFiles
    BY ONLY TypeOK, UNCHANGED opts, <1>39, Zenon
  <2>3. data' \in [pid : BOOLEAN, recoverypid : BOOLEAN, names : SUBSET SockFiles]
    BY ONLY TypeOK, UNCHANGED opts, <1>39, Zenon
  <2>4. drives' \in BOOLEAN /\ dying' \in BOOLEAN /\ failed' \in BOOLEAN
    BY ONLY TypeOK, UNCHANGED opts, <1>39, ZenonT(40)
  <2>5. pc' \in Points /\ ret' \in {"ok", "error"}
    BY ONLY TypeOK, UNCHANGED opts, <1>39, Zenon
  <2>6. call' \in {"none", "launch", "api", "shutdown", "close"}
    BY ONLY TypeOK, UNCHANGED opts, <1>39, Zenon
  <2>7. hv' \in HvStates /\ recovery' \in RecoveryStates
    BY ONLY TypeOK, UNCHANGED opts, <1>39, Zenon
  <2> HIDE DEF guestfs_internal_autosync, Goto, Fail, AtEOF, Backend, ChildCleanup,
           handle, procs, Points
  <2> QED  BY ONLY <2>1, <2>2, <2>3, <2>4, <2>5, <2>6, <2>7, Zenon
<1>40. CASE shutdown_signal
  BY ONLY TypeOK, UNCHANGED opts, <1>40
     DEF TypeOK, shutdown_signal, Backend, Goto, handle, Points, HvStates,
         RecoveryStates
<1>41. CASE child_cleanup
  <2> USE DEF TypeOK, child_cleanup, backend_shutdown, shutdown_direct, Backend,
          recovery_proc, NoData, shutdown_uml, shutdown_libvirt, shutdown_unix,
          LaunchCleanup, Points, Fds, SockFiles, HvStates, RecoveryStates
  <2>1. opts' \in Settings /\ state' \in {"CONFIG", "LAUNCHING", "READY", "NO_HANDLE"}
    BY ONLY TypeOK, UNCHANGED opts, <1>41, Zenon
  <2>2. conn' \in SUBSET Fds /\ fds' \in SUBSET Fds /\ files' \in SUBSET SockFiles
    BY ONLY TypeOK, UNCHANGED opts, <1>41, Zenon
  <2>3. data' \in [pid : BOOLEAN, recoverypid : BOOLEAN, names : SUBSET SockFiles]
    <3>1. data' = NoData \/ data' = data  BY ONLY <1>41, Zenon
    <3>2. data \in [pid : BOOLEAN, recoverypid : BOOLEAN, names : SUBSET SockFiles]
      BY ONLY TypeOK, Zenon DEF TypeOK
    <3> QED  BY ONLY <3>1, <3>2, NoDataType, ZenonT(40)
  <2>4. drives' \in BOOLEAN /\ dying' \in BOOLEAN /\ failed' \in BOOLEAN
    BY ONLY TypeOK, UNCHANGED opts, <1>41, ZenonT(40)
  <2>5. pc' \in Points /\ ret' \in {"ok", "error"}
    BY ONLY TypeOK, UNCHANGED opts, <1>41, Zenon
  <2>6. call' \in {"none", "launch", "api", "shutdown", "close"}
    BY ONLY TypeOK, UNCHANGED opts, <1>41, Zenon
  <2>7. hv' \in HvStates /\ recovery' \in RecoveryStates
    BY ONLY TypeOK, UNCHANGED opts, <1>41, Zenon
  <2> HIDE DEF child_cleanup, backend_shutdown, shutdown_direct, Backend, recovery_proc,
           NoData, shutdown_uml, shutdown_libvirt, shutdown_unix, LaunchCleanup,
           Points, Fds, SockFiles, HvStates, RecoveryStates
  <2> QED  BY ONLY <2>1, <2>2, <2>3, <2>4, <2>5, <2>6, <2>7, Zenon
<1>42. CASE shutdown_backend_end
  <2> USE DEF TypeOK, shutdown_backend_end, backend_shutdown, shutdown_direct, Backend,
          recovery_proc, NoData, shutdown_uml, shutdown_libvirt, shutdown_unix,
          Points, Fds, SockFiles, HvStates, RecoveryStates
  <2>1. opts' \in Settings /\ state' \in {"CONFIG", "LAUNCHING", "READY", "NO_HANDLE"}
    BY ONLY TypeOK, UNCHANGED opts, <1>42, Zenon
  <2>2. conn' \in SUBSET Fds /\ fds' \in SUBSET Fds /\ files' \in SUBSET SockFiles
    BY ONLY TypeOK, UNCHANGED opts, <1>42, Zenon
  <2>3. data' \in [pid : BOOLEAN, recoverypid : BOOLEAN, names : SUBSET SockFiles]
    <3>1. data' = NoData \/ data' = data  BY ONLY <1>42, Zenon
    <3>2. data \in [pid : BOOLEAN, recoverypid : BOOLEAN, names : SUBSET SockFiles]
      BY ONLY TypeOK, Zenon DEF TypeOK
    <3> QED  BY ONLY <3>1, <3>2, NoDataType, ZenonT(40)
  <2>4. drives' \in BOOLEAN /\ dying' \in BOOLEAN /\ failed' \in BOOLEAN
    BY ONLY TypeOK, UNCHANGED opts, <1>42, ZenonT(40)
  <2>5. pc' \in Points /\ ret' \in {"ok", "error"}
    BY ONLY TypeOK, UNCHANGED opts, <1>42, Zenon
  <2>6. call' \in {"none", "launch", "api", "shutdown", "close"}
    BY ONLY TypeOK, UNCHANGED opts, <1>42, Zenon
  <2>7. hv' \in HvStates /\ recovery' \in RecoveryStates
    BY ONLY TypeOK, UNCHANGED opts, <1>42, Zenon
  <2> HIDE DEF shutdown_backend_end, backend_shutdown, shutdown_direct, Backend,
           recovery_proc, NoData, shutdown_uml, shutdown_libvirt, shutdown_unix,
           Points, Fds, SockFiles, HvStates, RecoveryStates
  <2> QED  BY ONLY <2>1, <2>2, <2>3, <2>4, <2>5, <2>6, <2>7, Zenon
<1>43. CASE guestfs_close_end
  BY ONLY TypeOK, UNCHANGED opts, <1>43, ZenonT(40)
     DEF TypeOK, guestfs_close_end, CloseHandle, procs, Points, SockFiles
<1>44. CASE hv_exits
  BY ONLY TypeOK, UNCHANGED opts, <1>44, ZenonT(40)
     DEF TypeOK, hv_exits, Collected, Backend, handle, HvStates
<1>45. CASE recovery_getppid
  BY ONLY TypeOK, UNCHANGED opts, <1>45
     DEF TypeOK, recovery_getppid, handle, RecoveryStates
<1>46. CASE recovery_poll
  BY ONLY TypeOK, UNCHANGED opts, <1>46
     DEF TypeOK, recovery_poll, AdopterSignalable, handle, HvStates, RecoveryStates
<1>47. CASE libvirt_autodestroy
  BY ONLY TypeOK, UNCHANGED opts, <1>47
     DEF TypeOK, libvirt_autodestroy, Backend, handle, HvStates
<1>48. CASE main_crashes
  BY ONLY TypeOK, UNCHANGED opts, <1>48
     DEF TypeOK, main_crashes, Points, Fds, HvStates, RecoveryStates
<1> QED
  BY ONLY <1>1, <1>2, <1>3, <1>4, <1>5, <1>6, <1>7, <1>8, <1>9, <1>10, <1>11, <1>12, <1>13,
     <1>14, <1>15, <1>16, <1>17, <1>18, <1>19, <1>20, <1>21, <1>22, <1>23, <1>24,
     <1>25, <1>26, <1>27, <1>28, <1>29, <1>30, <1>31, <1>32, <1>33, <1>34, <1>35,
     <1>36, <1>37, <1>38, <1>39, <1>40, <1>41, <1>42, <1>43, <1>44, <1>45, <1>46,
     <1>47, <1>48,
     \/ direct_prepare \/ direct_bind \/ direct_console \/ direct_args \/ direct_fork
     \/ direct_recovery \/ direct_conn \/ direct_accept \/ direct_recv
     \/ direct_cleanup1 \/ direct_cleanup0 \/ uml_prepare \/ uml_console \/ uml_fork
     \/ uml_recovery \/ uml_conn \/ uml_recv \/ uml_cleanup1 \/ uml_cleanup0
     \/ libvirt_prepare \/ libvirt_bind \/ libvirt_console \/ libvirt_create
     \/ libvirt_accept_console \/ libvirt_conn \/ libvirt_accept \/ libvirt_recv
     \/ libvirt_cleanup \/ unix_connect \/ unix_conn \/ unix_recv \/ unix_cleanup
     \/ guestfs_add_drive \/ guestfs_launch \/ guestfs_launch_again \/ guestfs_api
     \/ guestfs_shutdown \/ guestfs_close \/ guestfs_internal_autosync
     \/ shutdown_signal \/ child_cleanup \/ shutdown_backend_end \/ guestfs_close_end
     \/ hv_exits \/ recovery_getppid \/ recovery_poll \/ libvirt_autodestroy
     \/ main_crashes, Zenon

\* The steps of launch_direct keep the invariant.
LEMMA DirectInv ==
  ASSUME LInv, UNCHANGED opts,
         \/ direct_prepare \/ direct_bind \/ direct_console \/ direct_args
         \/ direct_fork \/ direct_recovery \/ direct_conn \/ direct_accept
         \/ direct_recv \/ direct_cleanup1 \/ direct_cleanup0
  PROVE  LInv'
<1>a. TypeOK /\ ControlInv /\ StateInv /\ ApplianceInv /\ ConnInv /\ FdsInv
      /\ RecoveryInv /\ FailureInv /\ ClosedInv
  BY Zenon DEF LInv
<1>b. TypeOK'  BY <1>a, StepType, Zenon
<1>c. data \in [pid : BOOLEAN, recoverypid : BOOLEAN, names : SUBSET SockFiles]
  BY <1>a, Zenon DEF TypeOK
<1> USE DEF ControlInv, StateInv, ApplianceInv, ConnInv, RecoveryInv, FailureInv,
            ClosedInv, BeforeFork, AfterFork, Local, Unwaited, NoAppliance, Backend, recovery_proc,
            direct_mode, At, Goto, Fail, Return, Unlaunched, handle, procs
<1>1. CASE direct_prepare
  <2> USE DEF direct_prepare
  <2>1. ControlInv' /\ StateInv' /\ ApplianceInv' /\ ConnInv' /\ RecoveryInv'
       /\ FailureInv' /\ ClosedInv'
    BY ONLY <1>a, <1>c, UNCHANGED opts, <1>1
  <2>2. FdsInv'
    BY ONLY <1>a, <1>c, UNCHANGED opts, <1>1, Zenon DEF FdsInv
  <2> QED  BY ONLY <1>b, <2>1, <2>2, Zenon DEF LInv
<1>2. CASE direct_bind
  <2> USE DEF direct_bind
  <2>1. ControlInv' /\ StateInv' /\ ApplianceInv' /\ ConnInv' /\ RecoveryInv'
       /\ FailureInv' /\ ClosedInv'
    BY ONLY <1>a, <1>c, UNCHANGED opts, <1>2
  <2>2. FdsInv'
    BY ONLY <1>a, <1>c, UNCHANGED opts, <1>2 DEF FdsInv
  <2> QED  BY ONLY <1>b, <2>1, <2>2, Zenon DEF LInv
<1>3. CASE direct_console
  <2> USE DEF direct_console
  <2>1. ControlInv' /\ StateInv' /\ ApplianceInv' /\ ConnInv' /\ RecoveryInv'
       /\ FailureInv' /\ ClosedInv'
    BY ONLY <1>a, <1>c, UNCHANGED opts, <1>3
  <2>2. FdsInv'
    BY ONLY <1>a, <1>c, UNCHANGED opts, <1>3 DEF FdsInv
  <2> QED  BY ONLY <1>b, <2>1, <2>2, Zenon DEF LInv
<1>4. CASE direct_args
  <2> USE DEF direct_args
  <2>1. ControlInv' /\ StateInv' /\ ApplianceInv' /\ ConnInv' /\ RecoveryInv'
       /\ FailureInv' /\ ClosedInv'
    BY ONLY <1>a, <1>c, UNCHANGED opts, <1>4
  <2>2. FdsInv'
    BY ONLY <1>a, <1>c, UNCHANGED opts, <1>4 DEF FdsInv
  <2> QED  BY ONLY <1>b, <2>1, <2>2, Zenon DEF LInv
<1>5. CASE direct_fork
  <2> USE DEF direct_fork
  <2>1. ControlInv' /\ StateInv' /\ ApplianceInv' /\ ConnInv' /\ RecoveryInv'
       /\ FailureInv' /\ ClosedInv'
    BY ONLY <1>a, <1>c, UNCHANGED opts, <1>5
  <2>2. FdsInv'
    BY ONLY <1>a, <1>c, UNCHANGED opts, <1>5, Zenon DEF FdsInv
  <2> QED  BY ONLY <1>b, <2>1, <2>2, Zenon DEF LInv
<1>6. CASE direct_recovery
  <2> USE DEF direct_recovery
  <2>1. ControlInv' /\ StateInv' /\ ApplianceInv' /\ ConnInv' /\ RecoveryInv'
       /\ FailureInv' /\ ClosedInv'
    BY ONLY <1>a, <1>c, UNCHANGED opts, <1>6, Zenon
  <2>2. FdsInv'
    BY ONLY <1>a, <1>c, UNCHANGED opts, <1>6, Zenon DEF FdsInv
  <2> QED  BY ONLY <1>b, <2>1, <2>2, Zenon DEF LInv
<1>7. CASE direct_conn
  <2> USE DEF direct_conn, new_conn_socket_listening, LaunchCleanup
  <2>1. ControlInv' /\ StateInv' /\ ApplianceInv' /\ ConnInv' /\ RecoveryInv'
       /\ FailureInv' /\ ClosedInv'
    BY ONLY <1>a, <1>c, UNCHANGED opts, <1>7
  <2>2. FdsInv'
    BY ONLY <1>a, <1>c, UNCHANGED opts, <1>7, Zenon DEF FdsInv
  <2> QED  BY ONLY <1>b, <2>1, <2>2, Zenon DEF LInv
<1>8. CASE direct_accept
  <2> USE DEF direct_accept, accept_connection, LaunchCleanup
  <2>1. ControlInv' /\ StateInv' /\ ApplianceInv' /\ ConnInv' /\ RecoveryInv'
       /\ FailureInv' /\ ClosedInv'
    BY ONLY <1>a, <1>c, UNCHANGED opts, <1>8
  <2>2. FdsInv'
    BY ONLY <1>a, <1>c, UNCHANGED opts, <1>8, Zenon DEF FdsInv
  <2> QED  BY ONLY <1>b, <2>1, <2>2, Zenon DEF LInv
<1>9. CASE direct_recv
  <2> USE DEF direct_recv, recv_from_daemon, LaunchCleanup, AtEOF, ChildCleanup
  <2>1. ControlInv' /\ StateInv' /\ ApplianceInv' /\ ConnInv' /\ RecoveryInv'
       /\ FailureInv' /\ ClosedInv'
    BY ONLY <1>a, <1>c, UNCHANGED opts, <1>9
  <2>2. FdsInv'
    BY ONLY <1>a, <1>c, UNCHANGED opts, <1>9, Zenon DEF FdsInv
  <2> QED  BY ONLY <1>b, <2>1, <2>2, Zenon DEF LInv
<1>10. CASE direct_cleanup1
  <2> USE DEF direct_cleanup1
  <2>1. ControlInv' /\ StateInv' /\ ApplianceInv' /\ ConnInv' /\ RecoveryInv'
       /\ FailureInv' /\ ClosedInv'
    BY ONLY <1>a, <1>c, UNCHANGED opts, <1>10, Zenon
  <2>2. FdsInv'
    BY ONLY <1>a, <1>c, UNCHANGED opts, <1>10, Zenon DEF FdsInv
  <2> QED  BY ONLY <1>b, <2>1, <2>2, Zenon DEF LInv
<1>11. CASE direct_cleanup0
  <2> USE DEF direct_cleanup0
  <2>1. ControlInv' /\ StateInv' /\ ApplianceInv' /\ ConnInv' /\ RecoveryInv'
       /\ FailureInv' /\ ClosedInv'
    BY ONLY <1>a, <1>c, UNCHANGED opts, <1>11, Zenon
  <2>2. FdsInv'
    BY ONLY <1>a, <1>c, UNCHANGED opts, <1>11, Zenon DEF FdsInv
  <2> QED  BY ONLY <1>b, <2>1, <2>2, Zenon DEF LInv
<1> QED  BY ONLY <1>1, <1>2, <1>3, <1>4, <1>5, <1>6, <1>7, <1>8, <1>9, <1>10, <1>11,
      \/ direct_prepare \/ direct_bind \/ direct_console \/ direct_args \/ direct_fork
      \/ direct_recovery \/ direct_conn \/ direct_accept \/ direct_recv
      \/ direct_cleanup1 \/ direct_cleanup0, Zenon

\* The steps of launch_uml keep the invariant.
LEMMA UmlInv ==
  ASSUME LInv, UNCHANGED opts,
         \/ uml_prepare \/ uml_console \/ uml_fork \/ uml_recovery \/ uml_conn
         \/ uml_recv \/ uml_cleanup1 \/ uml_cleanup0
  PROVE  LInv'
<1>a. TypeOK /\ ControlInv /\ StateInv /\ ApplianceInv /\ ConnInv /\ FdsInv
      /\ RecoveryInv /\ FailureInv /\ ClosedInv
  BY Zenon DEF LInv
<1>b. TypeOK'  BY <1>a, StepType, Zenon
<1>c. data \in [pid : BOOLEAN, recoverypid : BOOLEAN, names : SUBSET SockFiles]
  BY <1>a, Zenon DEF TypeOK
<1> USE DEF ControlInv, StateInv, ApplianceInv, ConnInv, RecoveryInv, FailureInv,
            ClosedInv, BeforeFork, AfterFork, Local, Unwaited, NoAppliance, Backend, recovery_proc,
            direct_mode, At, Goto, Fail, Return, Unlaunched, handle, procs
<1>1. CASE uml_prepare
  <2> USE DEF uml_prepare
  <2>1. ControlInv' /\ StateInv' /\ ApplianceInv' /\ ConnInv' /\ RecoveryInv'
       /\ FailureInv' /\ ClosedInv'
    BY ONLY <1>a, <1>c, UNCHANGED opts, <1>1
  <2>2. FdsInv'
    BY ONLY <1>a, <1>c, UNCHANGED opts, <1>1, Zenon DEF FdsInv
  <2> QED  BY ONLY <1>b, <2>1, <2>2, Zenon DEF LInv
<1>2. CASE uml_console
  <2> USE DEF uml_console
  <2>1. ControlInv' /\ StateInv' /\ ApplianceInv' /\ ConnInv' /\ RecoveryInv'
       /\ FailureInv' /\ ClosedInv'
    BY ONLY <1>a, <1>c, UNCHANGED opts, <1>2
  <2>2. FdsInv'
    BY ONLY <1>a, <1>c, UNCHANGED opts, <1>2 DEF FdsInv
  <2> QED  BY ONLY <1>b, <2>1, <2>2, Zenon DEF LInv
<1>3. CASE uml_fork
  <2> USE DEF uml_fork
  <2>1. ControlInv' /\ StateInv' /\ ApplianceInv' /\ ConnInv' /\ RecoveryInv'
       /\ FailureInv' /\ ClosedInv'
    BY ONLY <1>a, <1>c, UNCHANGED opts, <1>3
  <2>2. FdsInv'
    BY ONLY <1>a, <1>c, UNCHANGED opts, <1>3, Zenon DEF FdsInv
  <2> QED  BY ONLY <1>b, <2>1, <2>2, Zenon DEF LInv
<1>4. CASE uml_recovery
  <2> USE DEF uml_recovery
  <2>1. ControlInv' /\ StateInv' /\ ApplianceInv' /\ ConnInv' /\ RecoveryInv'
       /\ FailureInv' /\ ClosedInv'
    BY ONLY <1>a, <1>c, UNCHANGED opts, <1>4, Zenon
  <2>2. FdsInv'
    BY ONLY <1>a, <1>c, UNCHANGED opts, <1>4, Zenon DEF FdsInv
  <2> QED  BY ONLY <1>b, <2>1, <2>2, Zenon DEF LInv
<1>5. CASE uml_conn
  <2> USE DEF uml_conn, new_conn_socket_connected, LaunchCleanup
  <2>1. ControlInv' /\ StateInv' /\ ApplianceInv' /\ ConnInv' /\ RecoveryInv'
       /\ FailureInv' /\ ClosedInv'
    BY ONLY <1>a, <1>c, UNCHANGED opts, <1>5
  <2>2. FdsInv'
    BY ONLY <1>a, <1>c, UNCHANGED opts, <1>5, Zenon DEF FdsInv
  <2> QED  BY ONLY <1>b, <2>1, <2>2, Zenon DEF LInv
<1>6. CASE uml_recv
  <2> USE DEF uml_recv, recv_from_daemon, LaunchCleanup, AtEOF, ChildCleanup
  <2>1. ControlInv' /\ StateInv' /\ ApplianceInv' /\ ConnInv' /\ RecoveryInv'
       /\ FailureInv' /\ ClosedInv'
    BY ONLY <1>a, <1>c, UNCHANGED opts, <1>6
  <2>2. FdsInv'
    BY ONLY <1>a, <1>c, UNCHANGED opts, <1>6, Zenon DEF FdsInv
  <2> QED  BY ONLY <1>b, <2>1, <2>2, Zenon DEF LInv
<1>7. CASE uml_cleanup1
  <2> USE DEF uml_cleanup1
  <2>1. ControlInv' /\ StateInv' /\ ApplianceInv' /\ ConnInv' /\ RecoveryInv'
       /\ FailureInv' /\ ClosedInv'
    BY ONLY <1>a, <1>c, UNCHANGED opts, <1>7, Zenon
  <2>2. FdsInv'
    BY ONLY <1>a, <1>c, UNCHANGED opts, <1>7, Zenon DEF FdsInv
  <2> QED  BY ONLY <1>b, <2>1, <2>2, Zenon DEF LInv
<1>8. CASE uml_cleanup0
  <2> USE DEF uml_cleanup0
  <2>1. ControlInv' /\ StateInv' /\ ApplianceInv' /\ ConnInv' /\ RecoveryInv'
       /\ FailureInv' /\ ClosedInv'
    BY ONLY <1>a, <1>c, UNCHANGED opts, <1>8, Zenon
  <2>2. FdsInv'
    BY ONLY <1>a, <1>c, UNCHANGED opts, <1>8, Zenon DEF FdsInv
  <2> QED  BY ONLY <1>b, <2>1, <2>2, Zenon DEF LInv
<1> QED  BY ONLY <1>1, <1>2, <1>3, <1>4, <1>5, <1>6, <1>7, <1>8,
      \/ uml_prepare \/ uml_console \/ uml_fork \/ uml_recovery \/ uml_conn
      \/ uml_recv \/ uml_cleanup1 \/ uml_cleanup0, Zenon

\* The steps of launch_libvirt keep the invariant.
LEMMA LibvirtInv ==
  ASSUME LInv, UNCHANGED opts,
         \/ libvirt_prepare \/ libvirt_bind \/ libvirt_console \/ libvirt_create
         \/ libvirt_accept_console \/ libvirt_conn \/ libvirt_accept \/ libvirt_recv
         \/ libvirt_cleanup
  PROVE  LInv'
<1>a. TypeOK /\ ControlInv /\ StateInv /\ ApplianceInv /\ ConnInv /\ FdsInv
      /\ RecoveryInv /\ FailureInv /\ ClosedInv
  BY Zenon DEF LInv
<1>b. TypeOK'  BY <1>a, StepType, Zenon
<1>c. data \in [pid : BOOLEAN, recoverypid : BOOLEAN, names : SUBSET SockFiles]
  BY <1>a, Zenon DEF TypeOK
<1> USE DEF ControlInv, StateInv, ApplianceInv, ConnInv, RecoveryInv, FailureInv,
            ClosedInv, BeforeFork, AfterFork, Local, Unwaited, NoAppliance, Backend, recovery_proc,
            direct_mode, At, Goto, Fail, Return, Unlaunched, handle, procs
<1>1. CASE libvirt_prepare
  <2> USE DEF libvirt_prepare
  <2>1. ControlInv' /\ StateInv' /\ ApplianceInv' /\ ConnInv' /\ RecoveryInv'
       /\ FailureInv' /\ ClosedInv'
    BY ONLY <1>a, <1>c, UNCHANGED opts, <1>1
  <2>2. FdsInv'
    BY ONLY <1>a, <1>c, UNCHANGED opts, <1>1 DEF FdsInv
  <2> QED  BY ONLY <1>b, <2>1, <2>2, Zenon DEF LInv
<1>2. CASE libvirt_bind
  <2> USE DEF libvirt_bind
  <2>1. ControlInv' /\ StateInv' /\ ApplianceInv' /\ ConnInv' /\ RecoveryInv'
       /\ FailureInv' /\ ClosedInv'
    BY ONLY <1>a, <1>c, UNCHANGED opts, <1>2
  <2>2. FdsInv'
    BY ONLY <1>a, <1>c, UNCHANGED opts, <1>2 DEF FdsInv
  <2> QED  BY ONLY <1>b, <2>1, <2>2, Zenon DEF LInv
<1>3. CASE libvirt_console
  <2> USE DEF libvirt_console
  <2>1. ControlInv' /\ StateInv' /\ ApplianceInv' /\ ConnInv' /\ RecoveryInv'
       /\ FailureInv' /\ ClosedInv'
    BY ONLY <1>a, <1>c, UNCHANGED opts, <1>3
  <2>2. FdsInv'
    BY ONLY <1>a, <1>c, UNCHANGED opts, <1>3 DEF FdsInv
  <2> QED  BY ONLY <1>b, <2>1, <2>2, Zenon DEF LInv
<1>4. CASE libvirt_create
  <2> USE DEF libvirt_create
  <2>1. ControlInv' /\ StateInv' /\ ApplianceInv' /\ ConnInv' /\ RecoveryInv'
       /\ FailureInv' /\ ClosedInv'
    BY ONLY <1>a, <1>c, UNCHANGED opts, <1>4
  <2>2. FdsInv'
    BY ONLY <1>a, <1>c, UNCHANGED opts, <1>4, Zenon DEF FdsInv
  <2> QED  BY ONLY <1>b, <2>1, <2>2, Zenon DEF LInv
<1>5. CASE libvirt_accept_console
  <2> USE DEF libvirt_accept_console
  <2>1. ControlInv' /\ StateInv' /\ ApplianceInv' /\ ConnInv' /\ RecoveryInv'
       /\ FailureInv' /\ ClosedInv'
    BY ONLY <1>a, <1>c, UNCHANGED opts, <1>5
  <2>2. FdsInv'
    BY ONLY <1>a, <1>c, UNCHANGED opts, <1>5, Zenon DEF FdsInv
  <2> QED  BY ONLY <1>b, <2>1, <2>2, Zenon DEF LInv
<1>6. CASE libvirt_conn
  <2> USE DEF libvirt_conn, new_conn_socket_listening, LaunchCleanup
  <2>1. ControlInv' /\ StateInv' /\ ApplianceInv' /\ ConnInv' /\ RecoveryInv'
       /\ FailureInv' /\ ClosedInv'
    BY ONLY <1>a, <1>c, UNCHANGED opts, <1>6
  <2>2. FdsInv'
    BY ONLY <1>a, <1>c, UNCHANGED opts, <1>6, Zenon DEF FdsInv
  <2> QED  BY ONLY <1>b, <2>1, <2>2, Zenon DEF LInv
<1>7. CASE libvirt_accept
  <2> USE DEF libvirt_accept, accept_connection, LaunchCleanup
  <2>1. ControlInv' /\ StateInv' /\ ApplianceInv' /\ ConnInv' /\ RecoveryInv'
       /\ FailureInv' /\ ClosedInv'
    BY ONLY <1>a, <1>c, UNCHANGED opts, <1>7
  <2>2. FdsInv'
    BY ONLY <1>a, <1>c, UNCHANGED opts, <1>7, Zenon DEF FdsInv
  <2> QED  BY ONLY <1>b, <2>1, <2>2, Zenon DEF LInv
<1>8. CASE libvirt_recv
  <2> USE DEF libvirt_recv, recv_from_daemon, LaunchCleanup, AtEOF, ChildCleanup
  <2>1. ControlInv' /\ StateInv' /\ ApplianceInv' /\ ConnInv' /\ RecoveryInv'
       /\ FailureInv' /\ ClosedInv'
    BY ONLY <1>a, <1>c, UNCHANGED opts, <1>8
  <2>2. FdsInv'
    BY ONLY <1>a, <1>c, UNCHANGED opts, <1>8 DEF FdsInv
  <2> QED  BY ONLY <1>b, <2>1, <2>2, Zenon DEF LInv
<1>9. CASE libvirt_cleanup
  <2> USE DEF libvirt_cleanup
  <2>1. ControlInv' /\ StateInv' /\ ApplianceInv' /\ ConnInv' /\ RecoveryInv'
       /\ FailureInv' /\ ClosedInv'
    BY ONLY <1>a, <1>c, UNCHANGED opts, <1>9, Zenon
  <2>2. FdsInv'
    BY ONLY <1>a, <1>c, UNCHANGED opts, <1>9, Zenon DEF FdsInv
  <2> QED  BY ONLY <1>b, <2>1, <2>2, Zenon DEF LInv
<1> QED  BY ONLY <1>1, <1>2, <1>3, <1>4, <1>5, <1>6, <1>7, <1>8, <1>9,
      \/ libvirt_prepare \/ libvirt_bind \/ libvirt_console \/ libvirt_create
      \/ libvirt_accept_console \/ libvirt_conn \/ libvirt_accept \/ libvirt_recv
      \/ libvirt_cleanup, Zenon

\* The steps of launch_unix keep the invariant.
LEMMA UnixInv ==
  ASSUME LInv, UNCHANGED opts,
         \/ unix_connect \/ unix_conn \/ unix_recv \/ unix_cleanup
  PROVE  LInv'
<1>a. TypeOK /\ ControlInv /\ StateInv /\ ApplianceInv /\ ConnInv /\ FdsInv
      /\ RecoveryInv /\ FailureInv /\ ClosedInv
  BY Zenon DEF LInv
<1>b. TypeOK'  BY <1>a, StepType, Zenon
<1>c. data \in [pid : BOOLEAN, recoverypid : BOOLEAN, names : SUBSET SockFiles]
  BY <1>a, Zenon DEF TypeOK
<1> USE DEF ControlInv, StateInv, ApplianceInv, ConnInv, RecoveryInv, FailureInv,
            ClosedInv, BeforeFork, AfterFork, Local, Unwaited, NoAppliance, Backend, recovery_proc,
            direct_mode, At, Goto, Fail, Return, Unlaunched, handle, procs
<1>1. CASE unix_connect
  <2> USE DEF unix_connect
  <2>1. ControlInv' /\ StateInv' /\ ApplianceInv' /\ ConnInv' /\ RecoveryInv'
       /\ FailureInv' /\ ClosedInv'
    BY ONLY <1>a, <1>c, UNCHANGED opts, <1>1
  <2>2. FdsInv'
    BY ONLY <1>a, <1>c, UNCHANGED opts, <1>1 DEF FdsInv
  <2> QED  BY ONLY <1>b, <2>1, <2>2, Zenon DEF LInv
<1>2. CASE unix_conn
  <2> USE DEF unix_conn, new_conn_socket_connected, LaunchCleanup
  <2>1. ControlInv' /\ StateInv' /\ ApplianceInv' /\ ConnInv' /\ RecoveryInv'
       /\ FailureInv' /\ ClosedInv'
    BY ONLY <1>a, <1>c, UNCHANGED opts, <1>2
  <2>2. FdsInv'
    BY ONLY <1>a, <1>c, UNCHANGED opts, <1>2, Zenon DEF FdsInv
  <2> QED  BY ONLY <1>b, <2>1, <2>2, Zenon DEF LInv
<1>3. CASE unix_recv
  <2> USE DEF unix_recv, ChildCleanup
  <2>1. ControlInv' /\ StateInv' /\ ApplianceInv' /\ ConnInv' /\ RecoveryInv'
       /\ FailureInv' /\ ClosedInv'
    BY ONLY <1>a, <1>c, UNCHANGED opts, <1>3
  <2>2. FdsInv'
    BY ONLY <1>a, <1>c, UNCHANGED opts, <1>3, Zenon DEF FdsInv
  <2> QED  BY ONLY <1>b, <2>1, <2>2, Zenon DEF LInv
<1>4. CASE unix_cleanup
  <2> USE DEF unix_cleanup
  <2>1. ControlInv' /\ StateInv' /\ ApplianceInv' /\ ConnInv' /\ RecoveryInv'
       /\ FailureInv' /\ ClosedInv'
    BY ONLY <1>a, <1>c, UNCHANGED opts, <1>4, Zenon
  <2>2. FdsInv'
    BY ONLY <1>a, <1>c, UNCHANGED opts, <1>4, Zenon DEF FdsInv
  <2> QED  BY ONLY <1>b, <2>1, <2>2, Zenon DEF LInv
<1> QED  BY ONLY <1>1, <1>2, <1>3, <1>4,
      \/ unix_connect \/ unix_conn \/ unix_recv \/ unix_cleanup, Zenon

\* The API calls, and the autosync of shutdown_backend, keep the invariant.
LEMMA CallsInv ==
  ASSUME LInv, UNCHANGED opts,
         \/ guestfs_add_drive \/ guestfs_launch \/ guestfs_launch_again \/ guestfs_api
         \/ guestfs_shutdown \/ guestfs_close \/ guestfs_internal_autosync
  PROVE  LInv'
<1>a. TypeOK /\ ControlInv /\ StateInv /\ ApplianceInv /\ ConnInv /\ FdsInv
      /\ RecoveryInv /\ FailureInv /\ ClosedInv
  BY Zenon DEF LInv
<1>b. TypeOK'  BY <1>a, StepType, Zenon
<1>c. data \in [pid : BOOLEAN, recoverypid : BOOLEAN, names : SUBSET SockFiles]
  BY <1>a, Zenon DEF TypeOK
<1> USE DEF ControlInv, StateInv, ApplianceInv, ConnInv, RecoveryInv, FailureInv,
            ClosedInv, BeforeFork, AfterFork, Local, Unwaited, NoAppliance, Backend, recovery_proc,
            direct_mode, At, Goto, Fail, Return, Unlaunched, handle, procs
<1>1. CASE guestfs_add_drive
  <2> USE DEF guestfs_add_drive
  <2>1. ControlInv' /\ StateInv' /\ ApplianceInv' /\ ConnInv' /\ RecoveryInv'
       /\ FailureInv' /\ ClosedInv'
    BY ONLY <1>a, <1>c, UNCHANGED opts, <1>1, Zenon
  <2>2. FdsInv'
    BY ONLY <1>a, <1>c, UNCHANGED opts, <1>1, Zenon DEF FdsInv
  <2> QED  BY ONLY <1>b, <2>1, <2>2, Zenon DEF LInv
<1>2. CASE guestfs_launch
  <2> USE DEF guestfs_launch, Begin
  <2>1. ControlInv' /\ StateInv' /\ ApplianceInv' /\ ConnInv' /\ RecoveryInv'
       /\ FailureInv' /\ ClosedInv'
    BY ONLY <1>a, <1>c, UNCHANGED opts, <1>2
  <2>2. FdsInv'
    BY ONLY <1>a, <1>c, UNCHANGED opts, <1>2, Zenon DEF FdsInv
  <2> QED  BY ONLY <1>b, <2>1, <2>2, Zenon DEF LInv
<1>3. CASE guestfs_launch_again
  <2> USE DEF guestfs_launch_again
  <2>1. ControlInv' /\ StateInv' /\ ApplianceInv' /\ ConnInv' /\ RecoveryInv'
       /\ FailureInv' /\ ClosedInv'
    BY ONLY <1>a, <1>c, UNCHANGED opts, <1>3, Zenon
  <2>2. FdsInv'
    BY ONLY <1>a, <1>c, UNCHANGED opts, <1>3, Zenon DEF FdsInv
  <2> QED  BY ONLY <1>b, <2>1, <2>2, Zenon DEF LInv
<1>4. CASE guestfs_api
  <2> USE DEF guestfs_api, AtEOF
  <2>1. ControlInv' /\ StateInv' /\ ApplianceInv' /\ ConnInv' /\ RecoveryInv'
       /\ FailureInv' /\ ClosedInv'
    BY ONLY <1>a, <1>c, UNCHANGED opts, <1>4
  <2>2. FdsInv'
    BY ONLY <1>a, <1>c, UNCHANGED opts, <1>4, Zenon DEF FdsInv
  <2> QED  BY ONLY <1>b, <2>1, <2>2, Zenon DEF LInv
<1>5. CASE guestfs_shutdown
  <2> USE DEF guestfs_shutdown, shutdown_backend, autosync
  <2>1. ControlInv' /\ StateInv' /\ ApplianceInv' /\ ConnInv' /\ RecoveryInv'
       /\ FailureInv' /\ ClosedInv'
    BY ONLY <1>a, <1>c, UNCHANGED opts, <1>5, Zenon
  <2>2. FdsInv'
    BY ONLY <1>a, <1>c, UNCHANGED opts, <1>5, Zenon DEF FdsInv
  <2> QED  BY ONLY <1>b, <2>1, <2>2, Zenon DEF LInv
<1>6. CASE guestfs_close
  <2> USE DEF guestfs_close, CloseHandle, shutdown_backend, autosync
  <2>1. ControlInv' /\ StateInv' /\ ApplianceInv' /\ ConnInv' /\ RecoveryInv'
       /\ FailureInv' /\ ClosedInv'
    BY ONLY <1>a, <1>c, UNCHANGED opts, <1>6
  <2>2. FdsInv'
    BY ONLY <1>a, <1>c, UNCHANGED opts, <1>6, Zenon DEF FdsInv
  <2> QED  BY ONLY <1>b, <2>1, <2>2, Zenon DEF LInv
<1>7. CASE guestfs_internal_autosync
  <2> USE DEF guestfs_internal_autosync, AtEOF, ChildCleanup
  <2>1. ControlInv' /\ StateInv' /\ ApplianceInv' /\ ConnInv' /\ RecoveryInv'
       /\ FailureInv' /\ ClosedInv'
    BY ONLY <1>a, <1>c, UNCHANGED opts, <1>7
  <2>2. FdsInv'
    BY ONLY <1>a, <1>c, UNCHANGED opts, <1>7, Zenon DEF FdsInv
  <2> QED  BY ONLY <1>b, <2>1, <2>2, Zenon DEF LInv
<1> QED  BY ONLY <1>1, <1>2, <1>3, <1>4, <1>5, <1>6, <1>7,
      \/ guestfs_add_drive \/ guestfs_launch \/ guestfs_launch_again \/ guestfs_api
      \/ guestfs_shutdown \/ guestfs_close \/ guestfs_internal_autosync, Zenon

\* The shutdown functions of the backends, with what child_cleanup,
\* shutdown_backend and guestfs_close do after them, keep the invariant.
LEMMA ShutdownInv ==
  ASSUME LInv, UNCHANGED opts,
         \/ shutdown_signal \/ child_cleanup \/ shutdown_backend_end
         \/ guestfs_close_end
  PROVE  LInv'
<1>a. TypeOK /\ ControlInv /\ StateInv /\ ApplianceInv /\ ConnInv /\ FdsInv
      /\ RecoveryInv /\ FailureInv /\ ClosedInv
  BY Zenon DEF LInv
<1>b. TypeOK'  BY <1>a, StepType, Zenon
<1>c. data \in [pid : BOOLEAN, recoverypid : BOOLEAN, names : SUBSET SockFiles]
  BY <1>a, Zenon DEF TypeOK
<1> USE DEF ControlInv, StateInv, ApplianceInv, ConnInv, RecoveryInv, FailureInv,
            ClosedInv, BeforeFork, AfterFork, Local, Unwaited, NoAppliance, Backend, recovery_proc,
            direct_mode, At, Goto, Fail, Return, Unlaunched, handle, procs
<1>1. CASE shutdown_signal
  <2> USE DEF shutdown_signal
  <2>1. ControlInv' /\ StateInv' /\ ApplianceInv' /\ ConnInv' /\ RecoveryInv'
       /\ FailureInv' /\ ClosedInv'
    BY ONLY <1>a, <1>c, UNCHANGED opts, <1>1, Zenon
  <2>2. FdsInv'
    BY ONLY <1>a, <1>c, UNCHANGED opts, <1>1, Zenon DEF FdsInv
  <2> QED  BY ONLY <1>b, <2>1, <2>2, Zenon DEF LInv
<1>2. CASE child_cleanup
  <2> USE DEF child_cleanup, backend_shutdown, shutdown_direct, NoData, shutdown_uml,
          shutdown_libvirt, shutdown_unix, LaunchCleanup
  <2>1. ControlInv' /\ StateInv' /\ ApplianceInv' /\ ConnInv' /\ RecoveryInv'
       /\ FailureInv' /\ ClosedInv'
    BY ONLY <1>a, <1>c, UNCHANGED opts, <1>2
  <2>2. FdsInv'
    BY ONLY <1>a, <1>c, UNCHANGED opts, <1>2, Zenon DEF FdsInv
  <2> QED  BY ONLY <1>b, <2>1, <2>2, Zenon DEF LInv
<1>3. CASE shutdown_backend_end
  <2> USE DEF shutdown_backend_end, backend_shutdown, shutdown_direct, NoData,
          shutdown_uml, shutdown_libvirt, shutdown_unix
  <2>1. ControlInv' /\ StateInv' /\ ApplianceInv' /\ ConnInv' /\ RecoveryInv'
       /\ FailureInv' /\ ClosedInv'
    BY ONLY <1>a, <1>c, UNCHANGED opts, <1>3, SMTT(30)
  <2>2. FdsInv'
    BY ONLY <1>a, <1>c, UNCHANGED opts, <1>3, Zenon DEF FdsInv
  <2> QED  BY ONLY <1>b, <2>1, <2>2, Zenon DEF LInv
<1>4. CASE guestfs_close_end
  <2> USE DEF guestfs_close_end, CloseHandle
  <2>1. ControlInv' /\ StateInv' /\ ApplianceInv' /\ ConnInv' /\ RecoveryInv'
       /\ FailureInv' /\ ClosedInv'
    BY ONLY <1>a, <1>c, UNCHANGED opts, <1>4, Zenon
  <2>2. FdsInv'
    BY ONLY <1>a, <1>c, UNCHANGED opts, <1>4, Zenon DEF FdsInv
  <2> QED  BY ONLY <1>b, <2>1, <2>2, Zenon DEF LInv
<1> QED  BY ONLY <1>1, <1>2, <1>3, <1>4,
      \/ shutdown_signal \/ child_cleanup \/ shutdown_backend_end \/ guestfs_close_end, Zenon

\* The hypervisor, the recovery process, libvirtd and a crash of the main
\* program keep the invariant.
LEMMA ProcessesInv ==
  ASSUME LInv, UNCHANGED opts,
         \/ hv_exits \/ recovery_getppid \/ recovery_poll \/ libvirt_autodestroy
         \/ main_crashes
  PROVE  LInv'
<1>a. TypeOK /\ ControlInv /\ StateInv /\ ApplianceInv /\ ConnInv /\ FdsInv
      /\ RecoveryInv /\ FailureInv /\ ClosedInv
  BY Zenon DEF LInv
<1>b. TypeOK'  BY <1>a, StepType, Zenon
<1>c. data \in [pid : BOOLEAN, recoverypid : BOOLEAN, names : SUBSET SockFiles]
  BY <1>a, Zenon DEF TypeOK
<1> USE DEF ControlInv, StateInv, ApplianceInv, ConnInv, RecoveryInv, FailureInv,
            ClosedInv, BeforeFork, AfterFork, Local, Unwaited, NoAppliance, Backend, recovery_proc,
            direct_mode, At, Goto, Fail, Return, Unlaunched, handle, procs
<1>1. CASE hv_exits
  <2> USE DEF hv_exits, Collected
  <2>1. ControlInv' /\ StateInv' /\ ApplianceInv' /\ ConnInv' /\ RecoveryInv'
       /\ FailureInv' /\ ClosedInv'
    BY ONLY <1>a, <1>c, UNCHANGED opts, <1>1
  <2>2. FdsInv'
    BY ONLY <1>a, <1>c, UNCHANGED opts, <1>1, Zenon DEF FdsInv
  <2> QED  BY ONLY <1>b, <2>1, <2>2, Zenon DEF LInv
<1>2. CASE recovery_getppid
  <2> USE DEF recovery_getppid
  <2>1. ControlInv' /\ StateInv' /\ ApplianceInv' /\ ConnInv' /\ RecoveryInv'
       /\ FailureInv' /\ ClosedInv'
    BY ONLY <1>a, <1>c, UNCHANGED opts, <1>2
  <2>2. FdsInv'
    BY ONLY <1>a, <1>c, UNCHANGED opts, <1>2, Zenon DEF FdsInv
  <2> QED  BY ONLY <1>b, <2>1, <2>2, Zenon DEF LInv
<1>3. CASE recovery_poll
  <2> USE DEF recovery_poll, AdopterSignalable
  <2>1. ControlInv' /\ StateInv' /\ ApplianceInv' /\ ConnInv' /\ RecoveryInv'
       /\ FailureInv' /\ ClosedInv'
    BY ONLY <1>a, <1>c, UNCHANGED opts, <1>3
  <2>2. FdsInv'
    BY ONLY <1>a, <1>c, UNCHANGED opts, <1>3, Zenon DEF FdsInv
  <2> QED  BY ONLY <1>b, <2>1, <2>2, Zenon DEF LInv
<1>4. CASE libvirt_autodestroy
  <2> USE DEF libvirt_autodestroy
  <2>1. ControlInv' /\ StateInv' /\ ApplianceInv' /\ ConnInv' /\ RecoveryInv'
       /\ FailureInv' /\ ClosedInv'
    BY ONLY <1>a, <1>c, UNCHANGED opts, <1>4, Zenon
  <2>2. FdsInv'
    BY ONLY <1>a, <1>c, UNCHANGED opts, <1>4, Zenon DEF FdsInv
  <2> QED  BY ONLY <1>b, <2>1, <2>2, Zenon DEF LInv
<1>5. CASE main_crashes
  <2> USE DEF main_crashes
  <2>1. ControlInv' /\ StateInv' /\ ApplianceInv' /\ ConnInv' /\ RecoveryInv'
       /\ FailureInv' /\ ClosedInv'
    BY ONLY <1>a, <1>c, UNCHANGED opts, <1>5, Zenon
  <2>2. FdsInv'
    BY ONLY <1>a, <1>c, UNCHANGED opts, <1>5, Zenon DEF FdsInv
  <2> QED  BY ONLY <1>b, <2>1, <2>2, Zenon DEF LInv
<1> QED  BY ONLY <1>1, <1>2, <1>3, <1>4, <1>5,
      \/ hv_exits \/ recovery_getppid \/ recovery_poll \/ libvirt_autodestroy
      \/ main_crashes, Zenon

\* A handle that has just been created satisfies the invariant.
LEMMA InitLInv == Init => LInv
<1> SUFFICES ASSUME Init PROVE LInv
  OBVIOUS
<1>1. TypeOK
  BY NoDataType, ZenonT(40) DEF Init, TypeOK, Points, Fds, SockFiles, HvStates, RecoveryStates
<1>2. ControlInv /\ StateInv /\ ApplianceInv /\ ConnInv /\ FdsInv /\ RecoveryInv
      /\ FailureInv /\ ClosedInv
  BY Zenon DEF Init, ControlInv, StateInv, ApplianceInv, ConnInv, FdsInv, RecoveryInv,
         FailureInv, ClosedInv, BeforeFork, AfterFork, NoAppliance, NoData
<1> QED  BY <1>1, <1>2, Zenon DEF LInv

\* No step, of the main program or of any other process, breaks the invariant.
LEMMA NextLInv == LInv /\ [Next]_vars => LInv'
<1> SUFFICES ASSUME LInv, [Next]_vars PROVE LInv'
  OBVIOUS
<1>1. CASE Next
  BY <1>1, DirectInv, UmlInv, LibvirtInv, UnixInv, CallsInv, ShutdownInv, ProcessesInv, Zenon
     DEF Next, CallSteps, ApiCalls, Processes
<1>2. CASE UNCHANGED vars
  BY <1>2, SMTT(30) DEF vars, LInv, TypeOK, ControlInv, StateInv, ApplianceInv, ConnInv, FdsInv,
              RecoveryInv, FailureInv, ClosedInv, NoAppliance, Unwaited, Local, Backend,
              recovery_proc, direct_mode
<1> QED  BY <1>1, <1>2, Zenon

\* The invariant holds throughout, for every set of settings.
THEOREM LaunchInvariance == Spec => []LInv
BY InitLInv, NextLInv, PTL DEF Spec

\* A handle that is back in CONFIG has nothing left of its appliance, whichever
\* step of launch failed and whenever the hypervisor died.
THEOREM CleanAfterLaunch == Spec => []CleanInConfig
<1>1. LInv => CleanInConfig
  BY Zenon DEF LInv, CleanInConfig, Idle, ApplianceInv, FdsInv, RecoveryInv, ControlInv,
         NoAppliance, Unwaited, TypeOK, Fds
<1> QED  BY <1>1, LaunchInvariance, PTL

\* A READY handle owns its daemon socket and knows its processes.
THEOREM ReadyConnected == Spec => []ReadyIsConnected
<1>1. LInv => ReadyIsConnected
  BY Zenon DEF LInv, ReadyIsConnected, Idle, ConnInv, FdsInv, RecoveryInv, ControlInv, TypeOK,
         Fds
<1> QED  BY <1>1, LaunchInvariance, PTL

\* guestfs_close leaves no socket file, process or descriptor behind.
THEOREM CloseLeavesNothing == Spec => []ClosedLeavesNothing
<1>1. LInv => ClosedLeavesNothing
  BY Zenon DEF LInv, ClosedLeavesNothing, ApplianceInv, FdsInv, RecoveryInv, ClosedInv,
         ControlInv, NoAppliance, Unwaited, TypeOK, Fds
<1> QED  BY <1>1, LaunchInvariance, PTL

\* Outside the unix backend the state is LAUNCHING only while guestfs_launch
\* runs.
THEOREM LaunchingEnds == Spec => []LaunchingIsTransient
<1>1. LInv => LaunchingIsTransient
  BY Zenon DEF LInv, LaunchingIsTransient, LaunchingOnlyInLaunch, Idle, StateInv, TypeOK
<1> QED  BY <1>1, LaunchInvariance, PTL

\* A hypervisor that exited with an error makes guestfs_shutdown return one, if
\* the backend collects its exit status.
THEOREM ShutdownReports == Spec => FailureIsReported
<1>1. ASSUME LInv, Next, call = "shutdown", failed, call' = "none", Collects
      PROVE  ret' = "error"
  <2> USE <1>1
  <2>a. TypeOK /\ ControlInv /\ RecoveryInv /\ FailureInv
    BY Zenon DEF LInv
  <2>b. Local /\ (Backend = "direct" => recovery_proc)
    BY Zenon DEF Collects, Local
  <2>1. ~ApiCalls
    BY <2>a, Zenon DEF ApiCalls, guestfs_add_drive, guestfs_launch, guestfs_launch_again,
         guestfs_api, guestfs_shutdown, guestfs_close, Begin, ControlInv
  <2>2. ~Processes /\ ~main_crashes
    BY ONLY <1>1, ZenonT(40)
    DEF Processes, hv_exits, recovery_getppid, recovery_poll, libvirt_autodestroy,
         main_crashes
  <2>3. shutdown_backend_end
    BY ONLY <1>1, <2>a, <2>1, <2>2, ZenonT(40)
    DEF Next, CallSteps, guestfs_internal_autosync, shutdown_signal,
         child_cleanup, guestfs_close_end, Goto, Fail, ChildCleanup, At, ControlInv,
         direct_prepare, direct_bind, direct_console, direct_args, direct_fork,
         direct_recovery, direct_conn, direct_accept, direct_recv, direct_cleanup1,
         direct_cleanup0, uml_prepare, uml_console, uml_fork, uml_recovery, uml_conn,
         uml_recv, uml_cleanup1, uml_cleanup0, libvirt_prepare, libvirt_bind,
         libvirt_console, libvirt_create, libvirt_accept_console, libvirt_conn,
         libvirt_accept, libvirt_recv, libvirt_cleanup, unix_connect, unix_conn,
         unix_recv, unix_cleanup
  <2>4. CASE ret = "error"
    BY <2>3, <2>4, Zenon DEF shutdown_backend_end
  <2>5. CASE ret = "ok"
    <3>1. data.pid /\ hv = "error"
      BY <2>3, <2>5, <2>a, <2>b, Zenon DEF FailureInv, shutdown_backend_end
    <3>2. ASSUME NEW r, backend_shutdown(r)  PROVE r = "error"
      BY ONLY <3>1, <3>2, <2>b, ZenonT(40)
      DEF backend_shutdown, shutdown_direct, shutdown_uml,
           shutdown_libvirt, shutdown_unix, Local
    <3> QED  BY <3>2, <2>3, Zenon DEF shutdown_backend_end
  <2> QED  BY <2>4, <2>5, <2>a, Zenon DEF TypeOK
<1> QED  BY <1>1, LaunchInvariance, PTL DEF Spec, FailureIsReported

=============================================================================
