------------------------------ MODULE Appliance ------------------------------
(***************************************************************************)
(* The handlers that concern the appliance: programs of the guest that are *)
(* run in it, its caches and modules, and the debugging commands.          *)
(***************************************************************************)
EXTENDS Transfers, DaemonSessions

-----------------------------------------------------------------------------
(* daemon/sh.c *)

Mounted == {"/dev", "/dev/pts", "/proc", "/selinux", "/sys", "/sys/fs/selinux"}
bind_mount ==
  LET mount(dir) == Maybe(<<Take(dir)>>)
  IN  Fn(<<Checks(<<"sysroot_path">>), mount("/dev"), mount("/dev/pts"), mount("/proc"),
           mount("/selinux"), mount("/sys"), mount("/sys/fs/selinux")>>)
umount_ignore_fail(dir) == IfHeld(dir, <<Release(dir)>>, <<>>)
free_bind_state ==
  Fn(<<umount_ignore_fail("/sys/fs/selinux"), umount_ignore_fail("/sys"),
       umount_ignore_fail("/selinux"), umount_ignore_fail("/proc"),
       umount_ignore_fail("/dev/pts"), umount_ignore_fail("/dev")>>)

\* The guest's file is moved aside, and the appliance's put in its place.
set_up_etc_resolv_conf ==
  Fn(<<Checks(<<"sysroot_path">>),
       Maybe(<<Checks(<<"asprintf">>), Checked(random_name), Checks(<<"strdup">>),
               Opens("resolv.conf.old")>>),
       Take("resolv.conf")>>)
free_resolver_state ==
  Fn(<<IfHeld("resolv.conf",
         <<Release("resolv.conf"),
           IfHeld("resolv.conf.old", <<Release("resolv.conf.old")>>, <<>>)>>, <<>>)>>)

do_command ==
  LET undo == <<Ignored(free_bind_state), Ignored(free_resolver_state)>>
  IN  Scoped(Mounted \cup {"resolv.conf", "resolv.conf.old"},
        <<Checks(<<"NEED_ROOT", "argv">>), Sub(bind_mount), Maybe(<<Sub(set_up_etc_resolv_conf)>>),
          Try(<<"the command">>, undo \o <<Error>>)>> \o undo \o <<ReturnsOutput>>)
do_command_lines == Fn(<<Sub(do_command), Sub(split_lines)>>)
do_sh == do_command
do_sh_lines == do_command_lines

-----------------------------------------------------------------------------
(* daemon/rsync.c *)

rsync == Runs("rsync")
do_rsync == Fn(<<Checks(<<"sysroot_path", "sysroot_path">>), Sub(rsync)>>)
do_rsync_in == Fn(<<Checks(<<"sysroot_path">>), Sub(rsync)>>)
do_rsync_out == Fn(<<Checks(<<"sysroot_path">>), Sub(rsync)>>)

-----------------------------------------------------------------------------
(* daemon/9p.c *)

modprobe_9pnet_virtio == Fn(<<Try(<<"modprobe">>, <<>>)>>)
do_list_9p ==
  Fn(<<Ignored(modprobe_9pnet_virtio),
       Maybe(<<Sub(end_stringsbuf), Ok>>), Opens("dir"),
       Loop(<<Maybe(<<Try(<<"asprintf">>, <<Error, Release("dir")>>), Ignored(read_whole_file),
                      Maybe(<<Call(add_string, <<Release("dir")>>)>>)>>)>>),
       Try(<<"readdir">>, <<Error, Release("dir")>>), TryRelease("dir", <<Error>>),
       Sub(end_stringsbuf)>>)
do_mount_9p ==
  Fn(<<Checks(<<"ABS_PATH", "sysroot_path", "stat", "S_ISDIR", "asprintf">>),
       Ignored(modprobe_9pnet_virtio), Checks(<<"mount">>)>>)

-----------------------------------------------------------------------------
(* daemon/mountable.c *)

do_internal_parse_mountable == Fn(<<Checks(<<"calloc", "strdup", "strdup">>)>>)

-----------------------------------------------------------------------------
(* daemon/sync.c *)

fsync_devices ==
  Fn(<<TryTake("/sys/block", <<>>),
       Loop(<<Maybe(<<Take("device fd"), Release("device fd")>>)>>), Release("/sys/block")>>)
sync_disks == Fn(<<Ignored(fsync_devices)>>)
do_sync == Fn(<<Checked(sync_disks)>>)

-----------------------------------------------------------------------------
(* daemon/dropcaches.c *)

do_drop_caches == Fn(<<Checked(sync_disks), Opens("fp"), TryRelease("fp", <<Error>>)>>)

-----------------------------------------------------------------------------
(* daemon/selinux-relabel.c *)

setfiles_has_m_option == Fn(<<Maybe(<<Try(<<"setfiles -m">>, <<>>)>>)>>)
do_selinux_relabel ==
  Fn(<<Checks(<<"sysroot_path">>), Ignored(setfiles_has_m_option), Checks(<<"setfiles">>)>>)

-----------------------------------------------------------------------------
(* daemon/utsname.c *)

do_utsname == Fn(<<Checks(<<"uname", "malloc", "strdup">>)>>)

-----------------------------------------------------------------------------
(* daemon/dmesg.c *)

do_dmesg == Fn(<<Checks(<<"dmesg">>), ReturnsOutput>>)

-----------------------------------------------------------------------------
(* daemon/echo-daemon.c *)

do_echo_daemon == Fn(<<Checks(<<"guestfs_int_join_strings">>)>>)

-----------------------------------------------------------------------------
(* daemon/pingdaemon.c *)

do_ping_daemon == Fn(<<>>)

-----------------------------------------------------------------------------
(* daemon/sleep.c *)

do_sleep == Fn(<<>>)

-----------------------------------------------------------------------------
(* daemon/modprobe.c *)

do_modprobe == Runs("modprobe")

-----------------------------------------------------------------------------
(* daemon/internal.c *)

do_internal_autosync(umount_all) ==
  Fn(<<Maybe(<<Call(umount_all, <<Ignored(sync_disks)>>)>>), Ignored(sync_disks)>>)
\* exit_reply: the reply is written, and the process ends.
do_internal_exit == Fn(<<reply, Dies>>)

-----------------------------------------------------------------------------
(* daemon/debug-bmap.c *)

bmap_finalize ==
  Fn(<<IfHeld("bmap fd", <<Release("bmap fd")>>, <<>>),
       IfHeld("bmap dir", <<Release("bmap dir")>>, <<>>)>>)
bmap_prepare ==
  Fn(<<Ignored(bmap_finalize), Checks(<<"stat">>), Either(<<Opens("bmap dir")>>, <<Opens("bmap fd")>>),
       Checks(<<"strdup">>)>>)
debug_bmap_file == Fn(<<Checks(<<"argc", "sysroot_path">>), Sub(bmap_prepare)>>)
debug_bmap_device == Fn(<<Checks(<<"argc">>), Sub(bmap_prepare)>>)
debug_bmap ==
  LET visit(r, read) == IfHeld(r, read \o <<TryRelease(r, <<Error>>)>>, <<>>)
      close(r) == <<Error, Release(r)>>
  IN  Fn(<<Checks(<<"argc">>), Sub(do_drop_caches),
           visit("bmap fd", <<Checks(<<"BLKGETSIZE64">>), Loop(<<Try(<<"read">>, close("bmap fd"))>>)>>),
           visit("bmap dir", <<Try(<<"readdir">>, close("bmap dir"))>>),
           Checks(<<"strdup">>)>>)

-----------------------------------------------------------------------------
(* daemon/debug.c *)

debug_help == Fn(<<Checks(<<"strdup", "realloc">>)>>)
debug_fds ==
  LET close == <<Error, Release("fp"), Release("dir")>>
  IN  Fn(<<Opens("fp"), TryTake("dir", <<Error, Release("fp")>>),
           Loop(<<Try(<<"asprintf", "lstat", "readlink">>, close)>>),
           Release("fp"), TryRelease("dir", <<Error>>)>>)
deliberately_cause_a_segfault == Dies
debug_segv == Fn(<<deliberately_cause_a_segfault>>)
debug_sh == Fn(<<Checks(<<"argc", "malloc", "sh">>)>>)
debug_env == Fn(<<Checks(<<"printenv">>), ReturnsOutput>>)
debug_setenv == Fn(<<Checks(<<"argc", "strdup">>)>>)
debug_error == Fn(<<Checks(<<"argc", "len", "malloc">>), Error, Fail>>)
debug_binaries == Fn(<<Checks(<<"sh">>), ReturnsOutput>>)
debug_ldd == Fn(<<Checks(<<"argc", "ldd">>), ReadsOutput, Checks(<<"realloc">>)>>)
debug_ls == Fn(<<Checks(<<"malloc", "ls">>), ReturnsOutput>>)
debug_ll == Fn(<<Checks(<<"malloc", "ls">>), ReturnsOutput>>)
debug_print == Fn(<<Checks(<<"strdup">>)>>)
debug_progress == Fn(<<Checks(<<"argc", "secs", "rate", "strdup">>)>>)
debug_core_pattern ==
  Fn(<<Checks(<<"argc">>), Opens("fd"), Try(<<"write">>, <<Error, Release("fd")>>),
       TryRelease("fd", <<Error>>), Checks(<<"setrlimit", "strdup">>)>>)
debug_spew == Fn(<<Checks(<<"argc", "sscanf", "strdup">>)>>)
debug_qtrace ==
  Fn(<<Checks(<<"argc", "on, off">>), Sub(do_drop_caches), Opens("fd"),
       Try(<<"posix_memalign", "lseek", "read">>, <<Error, Release("fd")>>), Release("fd"),
       Sub(do_drop_caches), Checks(<<"strdup">>)>>)
debug_device_speed ==
  Fn(<<Checks(<<"argc", "sscanf">>), Sub(do_blockdev_getsize64), Checks(<<"size", "posix_memalign">>),
       Opens("fd"), Loop(<<Try(<<"pwrite, pread">>, <<Error, Release("fd")>>)>>),
       TryRelease("fd", <<Error>>), Checks(<<"asprintf">>)>>)

\* The first entry of the table cmds with the name of the command.
do_debug ==
  LET cmds == <<debug_help, debug_binaries, debug_bmap, debug_bmap_device, debug_bmap_file,
                debug_core_pattern, debug_device_speed, debug_env, debug_error, debug_fds,
                debug_ldd, debug_ll, debug_ls, debug_print, debug_progress, debug_qtrace,
                debug_segv, debug_setenv, debug_sh, debug_spew>>
      from[i \in 1..Len(cmds) + 1] ==
        IF i > Len(cmds) THEN <<Error, Fail>> ELSE <<Either(<<Sub(cmds[i]), Ok>>, from[i + 1])>>
  IN  Fn(from[1])

do_debug_upload ==
  Fn(<<TryTake("fd", <<cancel_receive, Error>>),
       receive_file(<<cancel_receive, Error, Release("fd")>>, <<Error, Release("fd")>>),
       TryRelease("fd", <<Error>>)>>)
do_internal_upload == do_debug_upload
crash_cb == Maybe(<<deliberately_cause_a_segfault>>)
do_internal_rhbz914931 ==
  Fn(<<Checks(<<"count">>), crash_cb, receive_file(<<cancel_receive, Error>>, <<Error>>)>>)

-----------------------------------------------------------------------------
(* daemon/guestfsd.c *)

makeraw == Fn(<<Try(<<"tcgetattr", "tcsetattr">>, <<>>)>>)
\* The commands of the init script have made the first nodes; the only
\* message is the launch flag.  main_loop is a specification of its own.
main ==
  LET listen == <<OrDies(<<"socket", "sun_path">>), Take("sock"),
                  OrDies(<<"bind", "listen", "accept4">>), Take("sock")>>
  IN  Fn(<<OrDies(<<"options">>), Nodes,
           Either(<<OrDies(<<"sscanf, open">>), Take("sock")>>, listen),
           Maybe(<<Ignored(makeraw)>>), udev_settle,
           OrDies(<<"xwrite">>), reply, Dies>>)
==============================================================================
