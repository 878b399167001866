------------------------------- MODULE Launch -------------------------------
(***************************************************************************)
(* The life of a handle around its appliance: guestfs_launch,              *)
(* guestfs_shutdown and guestfs_close (lib/launch.c, lib/handle.c) over    *)
(* the four backends (lib/launch-direct.c, launch-uml.c,                   *)
(* launch-libvirt.c, launch-unix.c), with the hypervisor and the recovery  *)
(* process as processes of their own and a main program that may crash     *)
(* between any two steps.                                                  *)
(*                                                                         *)
(* What launch builds is modelled as resources: descriptors held by its    *)
(* local variables, the connection that takes them over, names bound in    *)
(* the socket directory, and processes.  Every early return and every jump *)
(* to a cleanup label of launch is a disjunct of the step it leaves from.  *)
(* Command lines, XML and the wire protocol are abstracted (the protocol   *)
(* is the subject of Protocol.tla).                                        *)
(***************************************************************************)
EXTENDS FiniteSets

\* How a handle may be set up and where it may run: the backend, the flags
\* g->recovery_proc, g->autosync and g->direct_mode (no console socket), and
\* whether the recovery process may signal the process that adopts orphans (it
\* runs as root, or under a subreaper of the same user).
CONSTANT Settings

Backends == {"direct", "uml", "libvirt", "unix"}
AllSettings == [backend : Backends, recovery_proc : BOOLEAN, autosync : BOOLEAN,
                direct_mode : BOOLEAN, adopter_signalable : BOOLEAN]

ASSUME SettingsAssumption == Settings \subseteq AllSettings

VARIABLES
  opts,       \* the handle's settings, fixed while it is configured
  state,      \* g->state
  conn,       \* descriptors owned by g->conn; {} is NULL
  drives,     \* g->nr_drives > 0
  data,       \* the backend's data: the processes it knows (for libvirt, pid
              \* stands for data->dom), the socket names it recorded
  pc, call,   \* where the main program is, and in which API call
  dying,      \* the call is inside child_cleanup
  ret,        \* what the call returns, or the last one returned
  fds,        \* what launch's local variables hold (or have dropped unclosed)
  files,      \* socket files in g->sockdir
  hv,         \* the hypervisor process
  recovery,   \* the recovery process
  failed      \* the hypervisor of this launch has exited with an error

handle == <<state, conn, drives>>
procs == <<hv, recovery, failed>>
vars == <<opts, state, conn, drives, data, pc, call, dying, ret, fds, files, hv,
          recovery, failed>>

Backend == opts.backend
recovery_proc == opts.recovery_proc
autosync == opts.autosync
direct_mode == opts.direct_mode
AdopterSignalable == opts.adopter_signalable

\* "sv" is the console socketpair before launch hands its end over, "dsv" the
\* daemon socketpair of the uml backend, "libvirt" the virConnectPtr; "dropped"
\* is a socketpair no variable refers to any more.
Fds == {"accept", "console", "daemon", "sv", "dsv", "libvirt", "dropped"}
SockFiles == {"guestfsd.sock", "console.sock"}

Points == {"idle", "prepare", "bind", "console", "args", "fork", "recovery",
           "conn", "accept_console", "accept", "recv", "cleanup1", "cleanup0",
           "autosync", "kill", "wait", "free", "closed", "crashed"}

\* "term": told to exit by SIGTERM.  "ok" and "error": exited with that status
\* and not yet collected by its parent.
HvStates == {"none", "running", "term", "ok", "error"}

\* "starting": forked, has not called getppid yet.  "watching": polls the main
\* program.  "adopted": took the adopter for the main program.  "exited": not
\* yet collected.
RecoveryStates == {"none", "starting", "watching", "adopted", "exited"}

TypeOK ==
  /\ opts \in Settings
  /\ state \in {"CONFIG", "LAUNCHING", "READY", "NO_HANDLE"}
  /\ conn \in SUBSET Fds /\ fds \in SUBSET Fds
  /\ drives \in BOOLEAN /\ dying \in BOOLEAN /\ failed \in BOOLEAN
  /\ data \in [pid : BOOLEAN, recoverypid : BOOLEAN, names : SUBSET SockFiles]
  /\ pc \in Points
  /\ call \in {"none", "launch", "api", "shutdown", "close"}
  /\ ret \in {"ok", "error"}
  /\ files \in SUBSET SockFiles
  /\ hv \in HvStates /\ recovery \in RecoveryStates

NoData == [pid |-> FALSE, recoverypid |-> FALSE, names |-> {}]

Init ==
  /\ opts \in Settings
  /\ state = "CONFIG" /\ conn = {} /\ drives = FALSE
  /\ data = NoData
  /\ pc = "idle" /\ call = "none" /\ dying = FALSE /\ ret = "ok"
  /\ fds = {} /\ files = {}
  /\ hv = "none" /\ recovery = "none" /\ failed = FALSE

-----------------------------------------------------------------------------
(* Control of the main program.                                            *)

Goto(p) == pc' = p /\ UNCHANGED <<call, dying, ret>>

Begin(c, p) == /\ pc = "idle" /\ pc' = p /\ call' = c
               /\ ret' = "ok" /\ UNCHANGED dying

Return(r) == pc' = "idle" /\ call' = "none" /\ ret' = r /\ UNCHANGED dying

\* An error that leaves launch by a cleanup label.
Fail(label) == pc' = label /\ ret' = "error" /\ UNCHANGED <<call, dying>>

\* The steps of the backend's launch function, and the part of the state no
\* step of launch before the fork touches.
At(b, p) == Backend = b /\ call = "launch" /\ pc = p
Unlaunched == UNCHANGED <<state, conn, drives, hv, recovery, failed>>

\* The label launch jumps to once there is a hypervisor.
LaunchCleanup == IF Backend \in {"direct", "uml"} THEN "cleanup1" ELSE "cleanup0"

\* EOF on the daemon socket: child_cleanup, which begins with the backend's
\* shutdown.
ChildCleanup == pc' = "kill" /\ dying' = TRUE /\ ret' = "error" /\ UNCHANGED call

\* A read from the appliance can meet EOF when the hypervisor is gone; the
\* unix backend's peer can close at any time.
AtEOF == Backend = "unix" \/ hv \in {"none", "ok", "error"}

-----------------------------------------------------------------------------
(* API calls.                                                              *)

guestfs_add_drive ==
  /\ pc = "idle" /\ state = "CONFIG" /\ ~drives
  /\ drives' = TRUE
  /\ UNCHANGED <<state, conn, data, pc, call, dying, ret, fds, files, procs>>

guestfs_launch ==
  /\ state = "CONFIG"
  /\ \/ Begin("launch", "prepare")
     \/ pc = "idle" /\ Return("error")     \* too many drives; no temporary directory
  /\ UNCHANGED <<handle, data, fds, files, procs>>

guestfs_launch_again ==
  /\ pc = "idle" /\ state \in {"LAUNCHING", "READY"}
  /\ Return("error")
  /\ UNCHANGED <<handle, data, fds, files, procs>>

\* Any call that talks to the daemon.
guestfs_api ==
  /\ pc = "idle" /\ state = "READY"
  /\ \/ \E r \in {"ok", "error"} : Return(r)
     \/ AtEOF /\ pc' = "kill" /\ call' = "api" /\ dying' = TRUE /\ ret' = "error"
  /\ UNCHANGED <<handle, data, fds, files, procs>>

\* shutdown_backend, up to the backend's shutdown function.
shutdown_backend ==
  \/ state = "CONFIG" /\ pc' = "idle"
  \/ state # "CONFIG" /\ pc' = IF autosync /\ state = "READY"
                               THEN "autosync" ELSE "kill"

guestfs_shutdown ==
  /\ pc = "idle" /\ state # "NO_HANDLE"
  /\ shutdown_backend
  /\ call' = IF state = "CONFIG" THEN "none" ELSE "shutdown"
  /\ ret' = "ok"
  /\ UNCHANGED <<handle, data, dying, fds, files, procs>>

\* Mutant: the socket directory stays.
CloseHandle_keeps_sockdir ==
  /\ state' = "NO_HANDLE" /\ drives' = FALSE
  /\ pc' = "closed" /\ call' = "none"
  /\ UNCHANGED files

\* The end of guestfs_close: the temporary and socket directories go, the
\* handle is dead.
CloseHandle ==
  /\ files' = {} /\ state' = "NO_HANDLE" /\ drives' = FALSE
  /\ pc' = "closed" /\ call' = "none"

guestfs_close ==
  /\ pc = "idle"
  /\ \/ /\ state = "CONFIG" /\ CloseHandle
        /\ UNCHANGED <<conn, data, dying, ret, fds, procs>>
     \/ /\ state # "CONFIG" /\ shutdown_backend
        /\ call' = "close" /\ ret' = "ok"
        /\ UNCHANGED <<handle, data, dying, fds, files, procs>>

guestfs_internal_autosync ==
  /\ pc = "autosync"
  /\ \/ Goto("kill")
     \/ Fail("kill")
     \/ AtEOF /\ ChildCleanup
  /\ UNCHANGED <<handle, data, fds, files, procs>>

-----------------------------------------------------------------------------
(* The direct backend.                                                     *)

\* Locating the appliance and qemu, up to the name of the daemon socket.
direct_prepare ==
  /\ At("direct", "prepare")
  /\ \/ Return("error") /\ UNCHANGED data
     \/ Fail("cleanup0") /\ UNCHANGED data
     \/ /\ drives /\ Goto("bind")
        /\ data' = [data EXCEPT !.names = {"guestfsd.sock"}]
  /\ Unlaunched /\ UNCHANGED <<fds, files>>

\* socket, bind and listen.
direct_bind ==
  /\ At("direct", "bind")
  /\ \/ Fail("cleanup0") /\ UNCHANGED <<fds, files>>            \* socket
     \/ /\ Fail("cleanup0") /\ fds' = fds \cup {"accept"}       \* bind
        /\ UNCHANGED files
     \/ /\ "guestfsd.sock" \notin files
        /\ fds' = fds \cup {"accept"} /\ files' = files \cup {"guestfsd.sock"}
        /\ Goto("console") \/ Fail("cleanup0")                  \* listen
  /\ Unlaunched /\ UNCHANGED data

direct_console ==
  /\ At("direct", "console")
  /\ \/ direct_mode /\ Goto("args") /\ UNCHANGED fds
     \/ /\ ~direct_mode
        /\ \/ Fail("cleanup0") /\ UNCHANGED fds
           \/ Goto("args") /\ fds' = fds \cup {"sv"}
  /\ Unlaunched /\ UNCHANGED <<data, files>>

\* Building the qemu command line.  An error here jumps to cleanup0, which
\* does not close the socketpair.
direct_args ==
  /\ At("direct", "args")
  /\ \/ Goto("fork") /\ UNCHANGED fds
     \/ /\ Fail("cleanup0")
        /\ fds' = IF direct_mode THEN fds ELSE (fds \ {"sv"}) \cup {"dropped"}
  /\ Unlaunched /\ UNCHANGED <<data, files>>

direct_fork ==
  /\ At("direct", "fork")
  /\ \/ /\ Fail("cleanup0") /\ fds' = fds \ {"sv"}
        /\ Unlaunched /\ UNCHANGED data
     \/ /\ Goto("recovery")
        /\ hv' = "running" /\ failed' = FALSE
        /\ data' = [data EXCEPT !.pid = TRUE]
        /\ UNCHANGED <<handle, recovery, fds>>
  /\ UNCHANGED files

\* The recovery process is forked if it is wanted; a failed fork is ignored.
\* Then the console end of the socketpair becomes console_sock.
direct_recovery ==
  /\ At("direct", "recovery")
  /\ \/ /\ recovery_proc
        /\ recovery' = "starting" /\ data' = [data EXCEPT !.recoverypid = TRUE]
     \/ UNCHANGED <<recovery, data>>
  /\ fds' = IF direct_mode THEN fds ELSE (fds \ {"sv"}) \cup {"console"}
  /\ state' = "LAUNCHING"
  /\ Goto("conn")
  /\ UNCHANGED <<conn, drives, files, hv, failed>>

\* guestfs_int_new_conn_socket_listening takes the sockets over.
new_conn_socket_listening ==
  \/ Fail(LaunchCleanup) /\ UNCHANGED <<conn, fds>>
  \/ /\ Goto("accept")
     /\ conn' = fds \cap {"accept", "console"}
     /\ fds' = fds \ {"accept", "console"}

direct_conn ==
  /\ At("direct", "conn")
  /\ new_conn_socket_listening
  /\ UNCHANGED <<state, drives, data, files, procs>>

\* accept_connection: a connection is there (it stays queued if the hypervisor
\* dies after connecting), or the console is at EOF, or APPLIANCE_TIMEOUT
\* passes (or poll or accept fails).
accept_connection ==
  \/ /\ Goto("recv") \/ Fail(LaunchCleanup)               \* set_nonblocking_flag
     /\ conn' = (conn \ {"accept"}) \cup {"daemon"}
  \/ Fail(LaunchCleanup) /\ UNCHANGED conn

direct_accept ==
  /\ At("direct", "accept")
  /\ accept_connection
  /\ UNCHANGED <<state, drives, data, fds, files, procs>>

\* guestfs_int_recv_from_daemon: the launch flag (which makes the state
\* READY) or something else, which may have been sent before the hypervisor
\* died, or EOF.
recv_from_daemon ==
  \/ state' = "READY" /\ Return("ok")
  \/ Fail(LaunchCleanup) /\ UNCHANGED state
  \/ AtEOF /\ ChildCleanup /\ UNCHANGED state

direct_recv ==
  /\ At("direct", "recv")
  /\ recv_from_daemon
  /\ UNCHANGED <<conn, drives, data, fds, files, procs>>

\* Kill both processes and collect them.
direct_cleanup1 ==
  /\ At("direct", "cleanup1")
  /\ hv' = IF data.pid THEN "none" ELSE hv
  /\ recovery' = IF data.recoverypid THEN "none" ELSE recovery
  /\ data' = [data EXCEPT !.pid = FALSE, !.recoverypid = FALSE]
  /\ fds' = fds \ {"sv"}
  /\ Goto("cleanup0")
  /\ UNCHANGED <<handle, files, failed>>

\* Close the local sockets and the connection; back to CONFIG.
direct_cleanup0 ==
  /\ At("direct", "cleanup0")
  /\ fds' = fds \ {"accept", "console"}
  /\ conn' = {} /\ state' = "CONFIG"
  /\ Return("error")
  /\ UNCHANGED <<drives, data, files, procs>>

-----------------------------------------------------------------------------
(* The uml backend.                                                        *)

uml_prepare ==
  /\ At("uml", "prepare")
  /\ Return("error") \/ Fail("cleanup0") \/ (drives /\ Goto("console"))
  /\ Unlaunched /\ UNCHANGED <<data, fds, files>>

\* Both socketpairs; the first is closed when the second cannot be had.
uml_console ==
  /\ At("uml", "console")
  /\ \/ Fail("cleanup0") /\ UNCHANGED fds
     \/ Goto("fork") /\ fds' = fds \cup (IF direct_mode THEN {"dsv"} ELSE {"dsv", "sv"})
  /\ Unlaunched /\ UNCHANGED <<data, files>>

uml_fork ==
  /\ At("uml", "fork")
  /\ \/ /\ Fail("cleanup0") /\ fds' = fds \ {"sv", "dsv"}
        /\ Unlaunched /\ UNCHANGED data
     \/ /\ Goto("recovery")
        /\ hv' = "running" /\ failed' = FALSE
        /\ data' = [data EXCEPT !.pid = TRUE]
        /\ UNCHANGED <<handle, recovery, fds>>
  /\ UNCHANGED files

uml_recovery ==
  /\ At("uml", "recovery")
  /\ \/ /\ recovery_proc
        /\ recovery' = "starting" /\ data' = [data EXCEPT !.recoverypid = TRUE]
     \/ UNCHANGED <<recovery, data>>
  /\ fds' = (fds \ {"sv", "dsv"})
              \cup (IF direct_mode THEN {"daemon"} ELSE {"daemon", "console"})
  /\ state' = "LAUNCHING"
  /\ Goto("conn")
  /\ UNCHANGED <<conn, drives, files, hv, failed>>

\* guestfs_int_new_conn_socket_connected takes the sockets over.
new_conn_socket_connected ==
  \/ Fail(LaunchCleanup) /\ UNCHANGED <<conn, fds>>
  \/ /\ Goto("recv")
     /\ conn' = fds \cap {"daemon", "console"}
     /\ fds' = fds \ {"daemon", "console"}

uml_conn ==
  /\ At("uml", "conn")
  /\ new_conn_socket_connected
  /\ UNCHANGED <<state, drives, data, files, procs>>

uml_recv ==
  /\ At("uml", "recv")
  /\ recv_from_daemon
  /\ UNCHANGED <<conn, drives, data, fds, files, procs>>

\* Mutant: the pid of the recovery process is kept.
uml_cleanup1_keeps_recoverypid ==
  /\ At("uml", "cleanup1")
  /\ hv' = IF data.pid THEN "none" ELSE hv
  /\ recovery' = IF data.recoverypid THEN "none" ELSE recovery
  /\ data' = [data EXCEPT !.pid = FALSE]
  /\ fds' = fds \ {"sv", "dsv"}
  /\ Goto("cleanup0")
  /\ UNCHANGED <<handle, files, failed>>

uml_cleanup1 ==
  /\ At("uml", "cleanup1")
  /\ hv' = IF data.pid THEN "none" ELSE hv
  /\ recovery' = IF data.recoverypid THEN "none" ELSE recovery
  /\ data' = [data EXCEPT !.pid = FALSE, !.recoverypid = FALSE]
  /\ fds' = fds \ {"sv", "dsv"}
  /\ Goto("cleanup0")
  /\ UNCHANGED <<handle, files, failed>>

uml_cleanup0 ==
  /\ At("uml", "cleanup0")
  /\ fds' = fds \ {"daemon", "console"}
  /\ conn' = {} /\ state' = "CONFIG"
  /\ Return("error")
  /\ UNCHANGED <<drives, data, files, procs>>

-----------------------------------------------------------------------------
(* The libvirt backend.  libvirtd runs the hypervisor as a domain that is  *)
(* destroyed when the connection it was created over is closed.            *)

\* Checks, the connection to libvirtd, its capabilities and the appliance.
libvirt_prepare ==
  /\ At("libvirt", "prepare")
  /\ \/ Return("error") /\ UNCHANGED <<data, fds>>
     \/ Fail("cleanup0") /\ UNCHANGED <<data, fds>>
     \/ ~direct_mode /\ Fail("cleanup0") /\ fds' = fds \cup {"libvirt"} /\ UNCHANGED data
     \/ /\ ~direct_mode /\ Goto("bind") /\ fds' = fds \cup {"libvirt"}
        /\ data' = [data EXCEPT !.names = @ \cup {"guestfsd.sock"}]
  /\ Unlaunched /\ UNCHANGED files

libvirt_bind ==
  /\ At("libvirt", "bind")
  /\ \/ Fail("cleanup0") /\ UNCHANGED <<data, fds, files>>      \* socket
     \/ /\ Fail("cleanup0") /\ fds' = fds \cup {"accept"}       \* bind
        /\ UNCHANGED <<data, files>>
     \/ /\ "guestfsd.sock" \notin files
        /\ fds' = fds \cup {"accept"} /\ files' = files \cup {"guestfsd.sock"}
        /\ \/ Fail("cleanup0") /\ UNCHANGED data                \* listen
           \/ /\ Goto("console")
              /\ data' = [data EXCEPT !.names = @ \cup {"console.sock"}]
  /\ Unlaunched

\* The console socket, its permissions, the secrets and the XML.
libvirt_console ==
  /\ At("libvirt", "console")
  /\ \/ Fail("cleanup0") /\ UNCHANGED <<fds, files>>
     \/ Fail("cleanup0") /\ fds' = fds \cup {"console"} /\ UNCHANGED files
     \/ /\ "console.sock" \notin files
        /\ fds' = fds \cup {"console"} /\ files' = files \cup {"console.sock"}
        /\ Goto("fork") \/ Fail("cleanup0")
  /\ Unlaunched /\ UNCHANGED data

libvirt_create ==
  /\ At("libvirt", "fork")
  /\ \/ Fail("cleanup0") /\ UNCHANGED <<state, hv, failed>>
     \/ /\ hv' = "running" /\ failed' = FALSE
        /\ state' = "LAUNCHING" /\ Goto("accept_console")
  /\ UNCHANGED <<conn, drives, recovery, data, fds, files>>

libvirt_accept_console ==
  /\ At("libvirt", "accept_console")
  /\ \/ Goto("conn") /\ UNCHANGED fds
     \/ Fail("cleanup0") /\ UNCHANGED fds
     \/ Fail("cleanup0") /\ fds' = fds \ {"console"}       \* close failed
  /\ UNCHANGED <<handle, data, files, procs>>

libvirt_conn ==
  /\ At("libvirt", "conn")
  /\ new_conn_socket_listening
  /\ UNCHANGED <<state, drives, data, files, procs>>

libvirt_accept ==
  /\ At("libvirt", "accept")
  /\ accept_connection
  /\ UNCHANGED <<state, drives, data, fds, files, procs>>

\* Mutant: the domain is not recorded.
libvirt_recv_forgets ==
  /\ At("libvirt", "recv")
  /\ recv_from_daemon
  /\ fds' = IF state' = "READY" THEN fds \ {"libvirt"} ELSE fds
  /\ UNCHANGED <<conn, drives, data, files, procs>>

\* Only now does the backend's data learn of the domain and the connection.
libvirt_recv ==
  /\ At("libvirt", "recv")
  /\ recv_from_daemon
  /\ IF state' = "READY"
     THEN data' = [data EXCEPT !.pid = TRUE] /\ fds' = fds \ {"libvirt"}
     ELSE UNCHANGED <<data, fds>>
  /\ UNCHANGED <<conn, drives, files, procs>>

libvirt_cleanup ==
  /\ At("libvirt", "cleanup0")
  /\ fds' = fds \ {"accept", "console", "libvirt"}
  /\ conn' = {} /\ state' = "CONFIG" /\ hv' = "none"
  /\ Return("error")
  /\ UNCHANGED <<drives, data, files, recovery, failed>>

-----------------------------------------------------------------------------
(* The unix backend: the appliance is somebody else's.                     *)

unix_connect ==
  /\ At("unix", "prepare")
  /\ \/ Return("error") /\ UNCHANGED <<state, fds>>
     \/ /\ state' = "LAUNCHING" /\ fds' = {"daemon"}
        /\ Goto("conn") \/ Fail("cleanup0")
  /\ UNCHANGED <<conn, drives, data, files, procs>>

unix_conn ==
  /\ At("unix", "conn")
  /\ new_conn_socket_connected
  /\ UNCHANGED <<state, drives, data, files, procs>>

unix_recv ==
  /\ At("unix", "recv")
  /\ \/ state' = "READY" /\ Return("ok")
     \/ Fail("cleanup0") /\ UNCHANGED state
     \/ ChildCleanup /\ UNCHANGED state
  /\ UNCHANGED <<conn, drives, data, fds, files, procs>>

\* Sets no state: the handle keeps the one it has.
unix_cleanup ==
  /\ At("unix", "cleanup0")
  /\ fds' = {} /\ conn' = {}
  /\ Return("error")
  /\ UNCHANGED <<state, drives, data, files, procs>>

-----------------------------------------------------------------------------
(* The backends' shutdown functions, and what follows them in their two    *)
(* callers, child_cleanup and shutdown_backend.                            *)

\* Mutant: no SIGTERM.
shutdown_signal_no_term ==
  /\ pc = "kill"
  /\ recovery' = IF data.recoverypid THEN "exited" ELSE recovery
  /\ Goto("wait")
  /\ UNCHANGED <<handle, data, fds, files, hv, failed>>

\* SIGTERM for the hypervisor, SIGKILL for the recovery process.
shutdown_signal ==
  /\ pc = "kill"
  /\ hv' = IF data.pid /\ hv = "running" /\ Backend \in {"direct", "uml"}
           THEN "term" ELSE hv
  /\ recovery' = IF data.recoverypid THEN "exited" ELSE recovery
  /\ Goto("wait")
  /\ UNCHANGED <<handle, data, fds, files, failed>>

\* The direct backend waits for qemu only if it has a recovery process.
shutdown_direct(r) ==
  /\ Backend = "direct"
  /\ IF recovery_proc /\ data.pid
     THEN /\ hv \in {"ok", "error"}
          /\ r = IF hv = "ok" THEN "ok" ELSE "error"
          /\ hv' = "none"
     ELSE r = "ok" /\ UNCHANGED hv
  /\ recovery' = IF data.recoverypid THEN "none" ELSE recovery
  /\ files' = files \ data.names
  /\ data' = NoData
  /\ UNCHANGED failed

shutdown_uml(r) ==
  /\ Backend = "uml"
  /\ IF data.pid
     THEN /\ hv \in {"ok", "error"}
          /\ r = IF hv = "ok" THEN "ok" ELSE "error"
          /\ hv' = "none"
     ELSE r = "ok" /\ UNCHANGED hv
  /\ recovery' = IF data.recoverypid THEN "none" ELSE recovery
  /\ data' = NoData
  /\ UNCHANGED <<files, failed>>

\* A domain that is gone already is no error.  Closing the connection destroys
\* the domain even if virDomainDestroy could not.
shutdown_libvirt(r) ==
  /\ Backend = "libvirt"
  /\ r = "ok" \/ (r = "error" /\ data.pid /\ hv # "none")
  /\ hv' = IF data.pid THEN "none" ELSE hv
  /\ files' = files \ data.names
  /\ data' = NoData
  /\ UNCHANGED <<recovery, failed>>

shutdown_unix(r) ==
  /\ Backend = "unix" /\ r = "ok"
  /\ UNCHANGED <<files, data, hv, recovery, failed>>

backend_shutdown(r) == \/ shutdown_direct(r) \/ shutdown_uml(r)
                       \/ shutdown_libvirt(r) \/ shutdown_unix(r)

\* Mutant: the connection is not freed.
child_cleanup_keeps_conn ==
  /\ pc = "wait" /\ dying
  /\ \E r \in {"ok", "error"} : backend_shutdown(r)
  /\ drives' = FALSE /\ state' = "CONFIG"
  /\ dying' = FALSE
  /\ pc' = CASE call = "launch" -> LaunchCleanup
             [] call = "api" -> "idle"
             [] OTHER -> "kill"
  /\ call' = IF call = "api" THEN "none" ELSE call
  /\ UNCHANGED <<ret, conn, fds>>

\* The rest of child_cleanup, then the caller that met EOF goes on: launch to
\* its cleanup label, an API call back to its caller, shutdown_backend (whose
\* autosync met it) to the backend's shutdown once more.
child_cleanup ==
  /\ pc = "wait" /\ dying
  /\ \E r \in {"ok", "error"} : backend_shutdown(r)
  /\ conn' = {} /\ drives' = FALSE /\ state' = "CONFIG"
  /\ dying' = FALSE
  /\ pc' = CASE call = "launch" -> LaunchCleanup
             [] call = "api" -> "idle"
             [] OTHER -> "kill"
  /\ call' = IF call = "api" THEN "none" ELSE call
  /\ UNCHANGED <<ret, fds>>

\* Mutant: the result of the backend is dropped.
shutdown_backend_end_ignores ==
  /\ pc = "wait" /\ ~dying
  /\ \E r \in {"ok", "error"} : backend_shutdown(r)
  /\ conn' = {} /\ drives' = FALSE /\ state' = "CONFIG"
  /\ pc' = IF call = "close" THEN "free" ELSE "idle"
  /\ call' = IF call = "close" THEN call ELSE "none"
  /\ UNCHANGED <<dying, ret, fds>>

\* The rest of shutdown_backend.
shutdown_backend_end ==
  /\ pc = "wait" /\ ~dying
  /\ \E r \in {"ok", "error"} :
       backend_shutdown(r) /\ ret' = IF r = "error" THEN "error" ELSE ret
  /\ conn' = {} /\ drives' = FALSE /\ state' = "CONFIG"
  /\ pc' = IF call = "close" THEN "free" ELSE "idle"
  /\ call' = IF call = "close" THEN call ELSE "none"
  /\ UNCHANGED <<dying, fds>>

guestfs_close_end ==
  /\ pc = "free" /\ CloseHandle
  /\ UNCHANGED <<conn, data, dying, ret, fds, procs>>

-----------------------------------------------------------------------------
(* The other processes, and the death of the main program.                 *)

\* A process whose parent is gone is collected by its adopter, and a domain by
\* libvirtd.
Collected(s) == IF pc = "crashed" \/ Backend = "libvirt" THEN "none" ELSE s

\* The hypervisor exits, by itself or because it was told to.
hv_exits ==
  /\ hv \in {"running", "term"}
  /\ \/ hv' = Collected("ok") /\ failed' = FALSE
     \/ hv' = Collected("error") /\ failed' = TRUE
  /\ UNCHANGED <<handle, data, pc, call, dying, ret, fds, files, recovery>>

\* The recovery process asks who its parent is.
recovery_getppid ==
  /\ recovery = "starting"
  /\ recovery' = IF pc = "crashed" THEN "adopted" ELSE "watching"
  /\ UNCHANGED <<handle, data, pc, call, dying, ret, fds, files, hv, failed>>

\* Mutant: leaves when the main program is gone.
recovery_poll_leaves ==
  /\ recovery \in {"watching", "adopted"}
  /\ hv = "none" \/ IF recovery = "watching" THEN pc = "crashed" ELSE ~AdopterSignalable
  /\ recovery' = IF pc = "crashed" THEN "none" ELSE "exited"
  /\ UNCHANGED <<handle, data, pc, call, dying, ret, fds, files, hv, failed>>

\* One round of its loop.  A process that has exited but has not been
\* collected still answers kill (pid, 0).
recovery_poll ==
  /\ recovery \in {"watching", "adopted"}
  /\ \/ hv = "none" /\ UNCHANGED hv
     \/ /\ hv # "none"
        /\ IF recovery = "watching" THEN pc = "crashed" ELSE ~AdopterSignalable
        /\ hv' = "none"
  /\ recovery' = IF pc = "crashed" THEN "none" ELSE "exited"
  /\ UNCHANGED <<handle, data, pc, call, dying, ret, fds, files, failed>>

\* libvirtd destroys the domain when the connection breaks.
libvirt_autodestroy ==
  /\ Backend = "libvirt" /\ pc = "crashed" /\ hv # "none"
  /\ hv' = "none"
  /\ UNCHANGED <<handle, data, pc, call, dying, ret, fds, files, recovery, failed>>

\* The main program dies without running any of its code.
main_crashes ==
  /\ pc \notin {"closed", "crashed"}
  /\ pc' = "crashed"
  /\ fds' = {} /\ conn' = {}
  /\ hv' = IF hv \in {"ok", "error"} THEN "none" ELSE hv
  /\ recovery' = IF recovery = "exited" THEN "none" ELSE recovery
  /\ UNCHANGED <<state, drives, data, call, dying, ret, files, failed>>

-----------------------------------------------------------------------------
\* What the main program does on its own once a call has begun.
CallSteps ==
  \/ direct_prepare \/ direct_bind \/ direct_console \/ direct_args \/ direct_fork
  \/ direct_recovery \/ direct_conn \/ direct_accept \/ direct_recv
  \/ direct_cleanup1 \/ direct_cleanup0
  \/ uml_prepare \/ uml_console \/ uml_fork \/ uml_recovery \/ uml_conn
  \/ uml_recv \/ uml_cleanup1 \/ uml_cleanup0
  \/ libvirt_prepare \/ libvirt_bind \/ libvirt_console \/ libvirt_create
  \/ libvirt_accept_console \/ libvirt_conn \/ libvirt_accept \/ libvirt_recv
  \/ libvirt_cleanup
  \/ unix_connect \/ unix_conn \/ unix_recv \/ unix_cleanup
  \/ guestfs_internal_autosync
  \/ shutdown_signal \/ child_cleanup \/ shutdown_backend_end \/ guestfs_close_end

ApiCalls ==
  \/ guestfs_add_drive \/ guestfs_launch \/ guestfs_launch_again \/ guestfs_api
  \/ guestfs_shutdown \/ guestfs_close

Processes == hv_exits \/ recovery_getppid \/ recovery_poll \/ libvirt_autodestroy

Next == (CallSteps \/ ApiCalls \/ Processes \/ main_crashes) /\ UNCHANGED opts

\* Where the main program may wait without bound for somebody else:
\*  - reading from an appliance that is alive: launch waits for the launch flag,
\*    shutdown for the reply to autosync;
\*  - accept_connection, whose timeout may turn negative (ConnSocket), while the
\*    console does not tell it that the hypervisor is gone;
\*  - accept4 on the console socket of libvirt, which has no timeout at all;
\*  - destroy_domain, which tries again as long as libvirtd answers EBUSY.
Waiting ==
  \/ pc \in {"recv", "autosync"} /\ (hv = "running" \/ Backend = "unix")
  \/ pc = "accept" /\ (hv = "running" \/ direct_mode)
  \/ pc = "accept_console"
  \/ pc = "wait" /\ Backend = "libvirt" /\ data.pid /\ hv = "running"

\* The main program and the recovery process are scheduled; libvirtd keeps its
\* promise; a hypervisor that was sent SIGTERM exits.  A hypervisor that was
\* not may run, and stay silent, for ever.
Fairness ==
  /\ WF_vars(~Waiting /\ CallSteps /\ UNCHANGED opts)
  /\ WF_vars(recovery_getppid /\ UNCHANGED opts)
  /\ WF_vars(recovery_poll /\ UNCHANGED opts)
  /\ WF_vars(libvirt_autodestroy /\ UNCHANGED opts)
  /\ WF_vars(hv = "term" /\ hv_exits /\ UNCHANGED opts)

Spec == Init /\ [][Next]_vars /\ Fairness

-----------------------------------------------------------------------------
(* Properties.                                                             *)

\* No call in progress.
Idle == pc = "idle"

\* guestfs_launch is in LAUNCHING only while it runs: between calls a handle is
\* in CONFIG or READY, whichever way launch, a call that met EOF, or shutdown
\* came to its end.
LaunchingOnlyInLaunch == Idle => state \in {"CONFIG", "READY"}

\* All but the unix backend keep to that.
LaunchingIsTransient == Backend # "unix" => LaunchingOnlyInLaunch

\* A handle back in CONFIG has nothing left of the appliance it had: no
\* connection, no descriptor launch opened (but for the socketpair that an error
\* in building the command line drops), no hypervisor or recovery process, not
\* even one to be collected, and no pid that a later shutdown could signal.
\* Without a recovery process the direct backend does not wait for qemu.
CleanInConfig ==
  Idle /\ state = "CONFIG" =>
    /\ conn = {} /\ fds \subseteq {"dropped"}
    /\ ~data.pid /\ ~data.recoverypid
    /\ recovery = "none"
    /\ hv = "none" \/ (Backend = "direct" /\ ~recovery_proc)

\* A READY handle owns its daemon socket and knows its hypervisor, whatever
\* launches failed before; launch keeps no descriptor.
ReadyIsConnected ==
  Idle /\ state = "READY" =>
    /\ "daemon" \in conn /\ "accept" \notin conn
    /\ fds \subseteq {"dropped"}
    /\ Backend # "unix" => data.pid
    /\ recovery # "none" <=> data.recoverypid

\* Closing a handle removes its socket files, processes and descriptors.
ClosedLeavesNothing ==
  pc = "closed" =>
    /\ files = {} /\ conn = {} /\ fds \subseteq {"dropped"} /\ ~drives
    /\ recovery = "none"
    /\ hv = "none" \/ (Backend = "direct" /\ ~recovery_proc)

\* Backends that fork the hypervisor and wait for it.
Collects == Backend = "uml" \/ (Backend = "direct" /\ recovery_proc)

\* guestfs_shutdown returns an error if the hypervisor exited with one, also when
\* autosync met its death first, in the backends that wait for it.
FailureIsReported ==
  [][call = "shutdown" /\ failed /\ call' = "none" /\ Collects => ret' = "error"]_vars

\* Once a recovery process watches the main program, a hypervisor does not
\* outlive a crash of the main program.
RecoveryStopsRunaway == (pc = "crashed" /\ recovery = "watching") ~> (hv = "none")

\* No hypervisor outlives a crash of the main program, wherever it crashes.
NoRunaway == (pc = "crashed") ~> (hv = "none")

\* A call that has begun comes to an end, unless the main program dies or is in
\* one of the waits that nothing bounds.  Three of the four end with the
\* hypervisor: once it is dead the read, the accept and the destruction of the
\* domain return, whatever has failed in launch by then, and the waitpid of a
\* cleanup or a shutdown is for a process that was told to exit.
CallEnds == (call # "none") ~> (call = "none" \/ pc = "crashed" \/ Waiting)

-----------------------------------------------------------------------------
(* The inductive invariant: at every point of the main program, what it    *)
(* holds and what it knows of.                                             *)

BeforeFork == {"prepare", "bind", "console", "args", "fork"}
AfterFork == {"conn", "accept_console", "accept", "recv"}
Local == Backend \in {"direct", "uml"}

\* A hypervisor nobody waits for: the direct backend without a recovery process.
Unwaited == Backend = "direct" /\ ~recovery_proc

\* Nothing is left of an appliance.
NoAppliance == conn = {} /\ ~data.pid /\ (hv = "none" \/ Unwaited)

ControlInv ==
  /\ pc \in {"idle", "closed"} => call = "none"
  /\ pc \in BeforeFork \cup AfterFork \cup {"recovery", "cleanup1", "cleanup0"} =>
       call = "launch"
  /\ pc = "autosync" => call \in {"shutdown", "close"}
  /\ pc = "free" => call = "close"
  /\ pc \in {"kill", "wait"} => call # "none" /\ (call \in {"launch", "api"} => dying)
  /\ dying => pc \in {"kill", "wait", "crashed"}
  /\ pc \in {"recovery", "cleanup1"} => Local

StateInv ==
  /\ pc \in BeforeFork \cup {"recovery", "free"} => state = "CONFIG"
  /\ pc \in AfterFork => state = "LAUNCHING"
  /\ pc \in {"cleanup1", "cleanup0"} => state \in {"CONFIG", "LAUNCHING"}
  /\ pc = "autosync" => state = "READY"
  /\ pc = "closed" => state = "NO_HANDLE"
  /\ pc = "idle" => state \in {"CONFIG", "READY"} \/ (state = "LAUNCHING" /\ Backend = "unix")

ApplianceInv ==
  /\ pc \in BeforeFork \cup {"free", "closed"} => NoAppliance
  /\ pc = "idle" /\ state # "READY" => NoAppliance
  /\ pc = "recovery" => conn = {} /\ data.pid
  /\ pc \in {"conn", "accept_console"} => conn = {}
  /\ pc \in AfterFork => (Local <=> data.pid)
  /\ pc = "cleanup0" => ~data.pid /\ (hv = "none" \/ Unwaited \/ Backend = "libvirt")
  /\ pc # "crashed" /\ hv # "none" => data.pid \/ Unwaited \/ Backend = "libvirt"
  /\ pc # "crashed" /\ hv # "none" /\ Backend = "libvirt" /\ ~data.pid => call = "launch"
  /\ Backend = "unix" => ~data.pid

ConnInv ==
  /\ pc \in {"accept", "recv"} => conn \subseteq {"accept", "daemon", "console"}
  /\ pc = "conn" => (Backend \in {"uml", "unix"} => "daemon" \in fds)
  /\ pc = "accept" => Backend \in {"direct", "libvirt"}
  /\ pc = "recv" => "daemon" \in conn /\ "accept" \notin conn
  /\ pc = "idle" /\ state = "READY" =>
       /\ "daemon" \in conn /\ "accept" \notin conn
       /\ Backend # "unix" => data.pid

\* Where launch's locals may hold each descriptor, and in which backend.
FdsInv ==
  pc # "crashed" =>
    /\ "accept" \in fds => /\ Backend \in {"direct", "libvirt"}
                           /\ pc \in {"console", "args", "fork", "recovery", "conn",
                                      "accept_console", "cleanup1", "cleanup0"}
    /\ "console" \in fds => /\ Backend # "unix"
                            /\ \/ pc \in {"conn", "accept_console", "cleanup1", "cleanup0"}
                               \/ pc = "fork" /\ Backend = "libvirt"
    /\ "daemon" \in fds => /\ Backend \in {"uml", "unix"}
                           /\ pc \in {"conn", "cleanup1", "cleanup0"}
    /\ "sv" \in fds => Local /\ ~direct_mode /\ pc \in {"args", "fork", "recovery"}
    /\ "dsv" \in fds => Backend = "uml" /\ pc \in {"fork", "recovery"}
    /\ "libvirt" \in fds => Backend = "libvirt" /\ call = "launch" /\ pc # "prepare"

RecoveryInv ==
  /\ pc # "crashed" => (recovery # "none" <=> data.recoverypid)
  /\ pc # "crashed" => recovery # "adopted"
  /\ data.recoverypid => data.pid /\ Local

\* While the backend knows the pid of a hypervisor that failed, the status has
\* not been collected; guestfs_shutdown forgets the pid only with an error.
FailureInv ==
  Local /\ pc # "crashed" =>
    /\ data.pid /\ failed => hv = "error"
    /\ call = "shutdown" /\ ret = "ok" => data.pid /\ ~dying

ClosedInv == pc = "closed" => files = {} /\ ~drives

LInv == /\ TypeOK /\ ControlInv /\ StateInv /\ ApplianceInv /\ ConnInv /\ FdsInv
        /\ RecoveryInv /\ FailureInv /\ ClosedInv

=============================================================================
