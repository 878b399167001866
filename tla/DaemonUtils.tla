----------------------------- MODULE DaemonUtils -----------------------------
(***************************************************************************)
(* What the handlers of the daemon share.  A helper either reports its own *)
(* failure with reply_with_*, or returns -1 or NULL and leaves that to its *)
(* caller; which of the two it does is part of its contract, and a handler *)
(* that takes the one for the other replies twice or not at all.           *)
(***************************************************************************)
EXTENDS Steps

\* A handler that checks its arguments and runs one program, or two.
Runs(program) == Fn(<<Checks(<<program>>)>>)
OnPath(program) == Fn(<<Checks(<<"sysroot_path", program>>)>>)
\* One that waits for udev, and one that has changed the devices before that.
RunsAndWaits(program) == Fn(<<Checks(<<program>>), udev_settle>>)
RunsAndSettles(program) == Fn(<<Checks(<<program>>), Nodes, udev_settle>>)

-----------------------------------------------------------------------------
(* daemon/command.c *)

\* End of output on both pipes ends the loop; "copy" is the descriptor given
\* to the program as its standard input, which is closed on every way out.
commandrvf(copy) ==
  LET quit == <<Release("so_fd"), Release("se_fd")>> \o copy \o <<Release("child")>>
  IN  Fn(<<OrDies(<<"pipe">>), Take("so_fd"), Take("se_fd"),
           OrDies(<<"fork">>), Take("child"),
           Loop(<<Try(<<"select", "read", "realloc">>, quit)>>),
           Release("so_fd"), Release("se_fd")>>
         \o (IF copy = <<>> THEN <<>> ELSE copy \o <<Try(<<"close">>, <<>>)>>)
         \o <<Release("child"), Try(<<"waitpid", "exit status">>, <<>>)>>)

\* When there is no memory for the terminating NUL the command succeeds
\* all the same, with NULL for its output.  A caller that returns the output
\* as it is then fails, and nobody has replied; one that reads it dies.
ReturnsOutput == Try(<<"realloc">>, <<>>)
ReadsOutput == OrDies(<<"realloc">>)

commandvf(copy) == Fn(<<Sub(commandrvf(copy))>>)
commandf(copy) == Fn(<<Try(<<"malloc", "realloc">>, <<>>), Sub(commandvf(copy))>>)
commandrf(copy) == Fn(<<Try(<<"malloc", "realloc">>, <<>>), Sub(commandrvf(copy))>>)

-----------------------------------------------------------------------------
(* daemon/utils.c *)

udev_settle_file == udev_settle

is_root_device == Fn(<<udev_settle_file, Try(<<"stat", "is_root_device_stat">>, <<>>)>>)

is_device_parameter ==
  Scoped({"device fd"},
    <<udev_settle_file,
      Either(<<Either(<<Ok>>, <<Fail>>)>>, <<>>),
      Try(<<"stat", "S_ISDIR", "S_ISBLK", "is_root_device_stat">>, <<>>),
      TryTake("device fd", <<>>), Try(<<"BLKGETSIZE64">>, <<>>)>>)

sysroot_path == Fn(<<Try(<<"malloc">>, <<>>)>>)
sysroot_realpath == Fn(<<ChrootTry(<<>>), Sub(sysroot_path)>>)

xwrite == Fn(<<Loop(<<Try(<<"write">>, <<>>)>>)>>)
xread == Fn(<<Loop(<<Try(<<"read", "end of file">>, <<>>)>>)>>)

add_string_nodup == Fn(<<Maybe(<<Checks(<<"realloc">>)>>)>>)
add_string == Fn(<<Maybe(<<Checks(<<"strdup">>)>>), Sub(add_string_nodup)>>)
add_sprintf == Fn(<<Checks(<<"vasprintf">>), Sub(add_string_nodup)>>)
end_stringsbuf == add_string_nodup
split_lines_sb ==
  Fn(<<Maybe(<<Sub(end_stringsbuf), Ok>>), Loop(<<Sub(add_string)>>), Sub(end_stringsbuf)>>)
split_lines == split_lines_sb
empty_list == Fn(<<Sub(end_stringsbuf)>>)
filter_list == Fn(<<Loop(<<Maybe(<<Sub(add_string_nodup)>>)>>), Sub(end_stringsbuf)>>)

parse_btrfsvol ==
  Fn(<<Try(<<"STRPREFIX", "strdup">>, <<>>),
       Loop(<<Maybe(<<Try(<<"stat">>, <<>>), Maybe(<<Break>>)>>)>>),
       Try(<<"device", "volume", "strdup">>, <<>>)>>)
mountable_to_string == Fn(<<Try(<<"strdup", "asprintf">>, <<>>)>>)

random_name ==
  Fn(<<TryTake("urandom", <<>>), Loop(<<Try(<<"read">>, <<Release("urandom")>>)>>),
       Release("urandom")>>)

get_random_uuid == Fn(<<Checks(<<"uuidgen">>), ReturnsOutput>>)

make_exclude_from_file ==
  LET error == <<Release("excludes fd"), Release("excludes file"), Fail>>
  IN  Fn(<<Opens("excludes fd"), Take("excludes file"),
           Loop(<<TryOr(<<"strchr", "xwrite">>, <<Error>> \o error)>>),
           TryRelease("excludes fd", <<Error, Release("excludes file")>>),
           Try(<<"strdup">>, <<Error, Release("excludes file")>>)>>)

read_whole_file ==
  Fn(<<TryTake("whole file", <<>>),
       Loop(<<Try(<<"realloc", "read">>, <<Release("whole file")>>)>>),
       TryRelease("whole file", <<>>)>>)

-----------------------------------------------------------------------------
(* daemon/device-name-translation.c *)

device_name_translation ==
  LET opens == <<Take("device fd"), Release("device fd"), Ok>>
  IN  Fn(<<Try(<<"unparseable", "asprintf", "strdup">>, <<>>),
           Maybe(opens),
           Try(<<"ENXIO", "/dev/sd">>, <<>>),
           Try(<<"/dev/vd">>, <<>>), Maybe(opens),
           Try(<<"/dev/hd">>, <<>>), Maybe(opens),
           Try(<<"/dev/ubd">>, <<>>), Maybe(opens), Fail>>)
reverse_device_name_translation == Fn(<<Checks(<<"asprintf", "strdup">>)>>)

-----------------------------------------------------------------------------
(* daemon/available.c *)

do_internal_feature_available == Fn(<<Either(<<Ok>>, <<Ok>>)>>)
do_available_all_groups == Fn(<<Loop(<<Sub(add_string)>>), Sub(end_stringsbuf)>>)
test_proc_filesystems == Fn(<<Try(<<"asprintf", "grep">>, <<>>)>>)
filesystem_available ==
  Fn(<<Sub(test_proc_filesystems), Maybe(<<Sub(test_proc_filesystems)>>)>>)
do_filesystem_available == Fn(<<Checks(<<"c_isalnum">>), Checked(filesystem_available)>>)

-----------------------------------------------------------------------------
(* daemon/blockdev.c *)

call_blockdev ==
  Fn(<<udev_settle, Checks(<<"blockdev">>), Maybe(<<ReadsOutput, Checks(<<"sscanf">>)>>)>>)
do_blockdev_setra == Fn(<<Checks(<<"sectors">>), Sub(call_blockdev)>>)
do_blockdev_setro == call_blockdev
do_blockdev_setrw == call_blockdev
do_blockdev_getro == call_blockdev
do_blockdev_getss == call_blockdev
do_blockdev_getbsz == call_blockdev
do_blockdev_setbsz == Fn(<<>>)
do_blockdev_getsz == call_blockdev
do_blockdev_getsize64 == call_blockdev
do_blockdev_flushbufs == call_blockdev
do_blockdev_rereadpt == Fn(<<Sub(call_blockdev), Nodes>>)

-----------------------------------------------------------------------------
(* daemon/blkid.c *)

get_blkid_tag == Fn(<<Checks(<<"blkid">>), Either(<<Checks(<<"strdup">>)>>, <<ReadsOutput>>)>>)
do_vfs_uuid == get_blkid_tag
test_blkid_p_i_opt == Fn(<<Checks(<<"blkid -p">>), Maybe(<<Checks(<<"blkid -i">>)>>)>>)
blkid_with_p_i_opt ==
  Fn(<<Checks(<<"blkid">>), ReadsOutput, Sub(split_lines),
       Loop(<<Maybe(<<Sub(add_string), Sub(add_string)>>)>>), Sub(end_stringsbuf)>>)
blkid_without_p_i_opt ==
  LET pair == <<Sub(add_string), Sub(get_blkid_tag), Sub(add_string_nodup)>>
  IN  Fn(pair \o pair \o pair \o <<Sub(end_stringsbuf)>>)
do_blkid ==
  Fn(<<Maybe(<<Sub(test_blkid_p_i_opt)>>),
       Either(<<Sub(blkid_with_p_i_opt)>>, <<Sub(blkid_without_p_i_opt)>>)>>)

-----------------------------------------------------------------------------
(* daemon/daemon-c.c *)

guestfs_int_daemon_exn_to_reply_with_error == Error
guestfs_int_daemon_return_string_list == Fn(<<Loop(<<Sub(add_string)>>), Sub(end_stringsbuf)>>)
guestfs_int_daemon_return_string_mountable == Fn(<<Checks(<<"strdup, asprintf">>)>>)
Mountable == <<Sub(guestfs_int_daemon_return_string_mountable), Sub(add_string_nodup)>>
guestfs_int_daemon_return_string_mountable_list == Fn(<<Loop(Mountable), Sub(end_stringsbuf)>>)
guestfs_int_daemon_return_hashtable_string_string ==
  Fn(<<Loop(<<Sub(add_string), Sub(add_string)>>), Sub(end_stringsbuf)>>)
guestfs_int_daemon_return_hashtable_mountable_string ==
  Fn(<<Loop(Mountable \o <<Sub(add_string)>>), Sub(end_stringsbuf)>>)
guestfs_int_daemon_return_hashtable_string_mountable ==
  Fn(<<Loop(<<Sub(add_string)>> \o Mountable), Sub(end_stringsbuf)>>)

-----------------------------------------------------------------------------
(* generator/daemon.ml *)

\* A handler written in OCaml: its exception becomes the error reply, its
\* value the C value that the stub returns.
Caml(returned) ==
  Fn(<<Try(<<"exception">>, <<guestfs_int_daemon_exn_to_reply_with_error>>)>> \o returned)
return_struct == Fn(<<Checks(<<"calloc">>), Try(<<"strdup">>, <<>>)>>)
return_struct_list == Fn(<<Checks(<<"calloc", "calloc">>), Loop(<<Sub(return_struct)>>)>>)
CamlErr == Caml(<<>>)
CamlString == Caml(<<Checks(<<"strdup">>)>>)
CamlStringList == Caml(<<Sub(guestfs_int_daemon_return_string_list)>>)
CamlMountableList == Caml(<<Sub(guestfs_int_daemon_return_string_mountable_list)>>)
CamlStrings == Caml(<<Sub(guestfs_int_daemon_return_hashtable_string_string)>>)
CamlMountables == Caml(<<Sub(guestfs_int_daemon_return_hashtable_mountable_string)>>)
CamlMountpoints == Caml(<<Sub(guestfs_int_daemon_return_hashtable_string_mountable)>>)
CamlStruct == Caml(<<Sub(return_struct)>>)
CamlStructList == Caml(<<Sub(return_struct_list)>>)
=============================================================================
