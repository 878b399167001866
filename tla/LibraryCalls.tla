---------------------------- MODULE LibraryCalls -----------------------------
(***************************************************************************)
(* The calls of the library that are more than one message to the daemon:  *)
(* they run programs of the host, go through temporary files, or make      *)
(* several other calls of the API.  A call of the API, made from inside    *)
(* the library, reports its own failure.                                   *)
(***************************************************************************)
EXTENDS Steps, SequencesExt

\* What a function leaves behind on purpose when it succeeds.
HandedOver(r) == Release(r)
ReleaseAll(rs) == [i \in DOMAIN rs |-> Release(rs[i])]

\* A call made while the error handler is off, which it must not stay.
Silently(ok, bad) ==
  Either(<<guestfs_push_error_handler, guestfs_pop_error_handler>> \o ok,
         <<guestfs_push_error_handler, Error, guestfs_pop_error_handler>> \o bad)

\* One of several functions, by the kind of guest.
OneOf(fns) == FoldRight(LAMBDA f, others : <<Either(<<Sub(f)>>, others)>>, fns, <<>>)

-----------------------------------------------------------------------------
(* lib/wait.c *)

\* When waitpid fails there is no such child, and so none to wait for.
waitpid == Fn(<<TryRelease("child", <<Error>>)>>)
waitpid_noerror == Release("child")

-----------------------------------------------------------------------------
(* lib/whole-file.c *)

guestfs_int_read_whole_file ==
  Fn(<<Opens("whole file"), Try(<<"fstat">>, <<Error, Release("whole file")>>),
       Loop(<<Try(<<"read", "end of file">>, <<Error, Release("whole file")>>)>>),
       TryRelease("whole file", <<Error>>)>>)

-----------------------------------------------------------------------------
(* lib/tmpdirs.c *)

set_abs_path == Fn(<<Maybe(<<Ok>>), Checks(<<"realpath", "stat", "S_ISDIR">>)>>)
set_env_tmpdir == set_abs_path
set_env_runtimedir == set_abs_path
set_tmpdir == set_abs_path
set_cachedir == set_abs_path
lazy_make_tmpdir == Fn(<<Maybe(<<Checks(<<"mkdtemp">>), Maybe(<<Checks(<<"chmod">>)>>)>>)>>)
lazy_make_sockdir == lazy_make_tmpdir
make_temp_path == Fn(<<Sub(lazy_make_tmpdir)>>)
lazy_make_supermin_appliance_dir ==
  Fn(<<Checks(<<"lstat", "st_uid", "S_ISDIR", "st_mode">>)>>)

-----------------------------------------------------------------------------
(* lib/command.c *)

\* What guestfs_int_cmd_close releases: the two pipes, then it waits.
struct_command == {"errorfd", "outfd", "child", "error_file"}

\* "fds" has the pipes that the command needs, for its errors and its output.
run_command(fds) ==
  Fn([i \in DOMAIN fds |-> TryTake(fds[i], <<Error>> \o ReleaseAll(SubSeq(fds, 1, i - 1)))]
     \o <<TryTake("child", <<Error>> \o ReleaseAll(fds))>>)

\* A pipe that cannot be read is reported and given up, and the loop goes on.
loop(fds) ==
  LET drain(fd) == <<Loop(<<Checks(<<"select">>)>>), Maybe(<<Error>>), Release(fd)>>
  IN  Fn(drain(fds[1]) \o (IF Len(fds) = 2 THEN drain(fds[2]) ELSE <<>>))

wait_command == Fn(<<Sub(waitpid)>>)

cmd_run(fds) == Fn(<<Sub(run_command(fds)), Sub(loop(fds)), Sub(wait_command)>>)

cmd_pipe_run ==
  Fn(<<Opens("pipe"), Call(make_temp_path, <<Release("pipe")>>),
       TryTake("errfd", <<Error, Release("pipe")>>), Take("error_file"),
       TryTake("child", <<Error, Release("errfd"), Release("pipe")>>),
       Release("errfd")>>)
cmd_pipe_wait == wait_command
cmd_get_pipe_errors == Fn(<<Sub(guestfs_int_read_whole_file)>>)

Captured == <<"errorfd">>
CapturedAndRead == <<"errorfd", "outfd">>
ReadOnly == <<"outfd">>

\* A command that is run for its exit status, which is tested with WEXITSTATUS.
RunsAndTests(fds) == <<Sub(cmd_run(fds)), Checks(<<"exit status">>)>>

-----------------------------------------------------------------------------
(* lib/tmpdirs.c *)

recursive_remove_dir == Scoped(struct_command, <<Ignored(cmd_run(Captured))>>)
remove_tmpdir == Fn(<<Maybe(<<Sub(recursive_remove_dir)>>)>>)
remove_sockdir == remove_tmpdir

-----------------------------------------------------------------------------
(* lib/file.c *)

\* What "download" writes to a temporary file is read into memory.  A failed
\* close goes to the same label as the rest, which closes once more.
ReadBack(download) ==
  <<Sub(make_temp_path), Take("tmpfile"), Checks(<<download>>), Opens("fd"),
    Try(<<"fstat", "malloc", "full_read">>, <<Error, Release("fd")>>),
    TryRelease("fd", <<Error, Release("fd")>>)>>

read_file == Scoped({"tmpfile"}, ReadBack("guestfs_download"))
cat == Fn(<<Sub(read_file)>>)
read_lines == Fn(<<Sub(read_file), Checks(<<"malloc">>), Loop(<<Checks(<<"strdup">>)>>)>>)
find ==
  Scoped({"tmpfile"},
    ReadBack("guestfs_find0") \o <<Checks(<<"malloc">>), Loop(<<Checks(<<"strdup">>)>>)>>)
ls ==
  Scoped({"tmpfile"},
    ReadBack("guestfs_ls0") \o <<Checks(<<"malloc">>), Loop(<<Checks(<<"strdup">>)>>)>>)

write_or_append(upload) ==
  Scoped({"tmpfile"},
    <<Maybe(<<Checks(<<"guestfs_internal_write", "guestfs_internal_write_append">>), Ok>>),
      Sub(make_temp_path), Opens("fd"), Take("tmpfile"),
      Try(<<"full_write">>, <<Error, Release("fd")>>),
      TryRelease("fd", <<Error, Release("fd")>>), Checks(upload)>>)
write == Fn(<<Sub(write_or_append(<<"guestfs_upload">>))>>)
write_append == Fn(<<Sub(write_or_append(<<"guestfs_filesize", "guestfs_upload_offset">>))>>)

lstatnslist == Fn(<<Loop(<<Checks(<<"guestfs_internal_lstatnslist">>)>>)>>)
lxattrlist == Fn(<<Loop(<<Checks(<<"guestfs_internal_lxattrlist">>)>>)>>)
readlinklist == Fn(<<Loop(<<Checks(<<"guestfs_internal_readlinklist">>)>>)>>)
stat == Fn(<<Checks(<<"guestfs_statns">>)>>)
lstat == Fn(<<Checks(<<"guestfs_lstatns">>)>>)
lstatlist == Fn(<<Sub(lstatnslist)>>)

-----------------------------------------------------------------------------
(* lib/journal.c *)

journal_get ==
  Scoped({"tmpfile"},
    ReadBack("guestfs_internal_journal_get") \o
    <<Loop(<<Checks(<<"truncated", "length field", "no = found">>)>>)>>)

-----------------------------------------------------------------------------
(* lib/tsk.c *)

\* The result of the last xdr call is what is returned, or that of fstat, which
\* is 0, when the file is empty.
deserialise_dirent_list ==
  Fn(<<Try(<<"fstat">>, <<>>), Maybe(<<Fail>>),
       Loop(<<Try(<<"xdr_guestfs_int_tsk_dirent">>, <<>>)>>)>>)
parse_dirent_file == Scoped({"fp"}, <<Opens("fp"), Sub(deserialise_dirent_list)>>)
filesystem_walk ==
  Scoped({"tmpfile"},
    <<Sub(make_temp_path), Take("tmpfile"), Checks(<<"guestfs_internal_filesystem_walk">>),
      Sub(parse_dirent_file)>>)
find_inode ==
  Scoped({"tmpfile"},
    <<Sub(make_temp_path), Take("tmpfile"), Checks(<<"guestfs_internal_find_inode">>),
      Sub(parse_dirent_file)>>)

-----------------------------------------------------------------------------
(* lib/yara.c *)

deserialise_yara_detection_list ==
  Fn(<<Checks(<<"fstat">>), Maybe(<<Fail>>),
       Loop(<<Checks(<<"xdr_guestfs_int_yara_detection">>)>>)>>)
parse_yara_detection_file ==
  Scoped({"fp"}, <<Opens("fp"), Checked(deserialise_yara_detection_list)>>)
yara_scan ==
  Scoped({"tmpfile"},
    <<Sub(make_temp_path), Take("tmpfile"), Checks(<<"guestfs_internal_yara_scan">>),
      Sub(parse_yara_detection_file)>>)

-----------------------------------------------------------------------------
(* lib/copy-in-out.c *)

split_path == Fn(<<Checks(<<"len">>)>>)

\* The end of both transfers: how tar exits decides the result of the call, in
\* place of the result of the transfer itself.
TarEnds ==
  <<TryRelease("pipe", <<Error>>), Sub(cmd_pipe_wait),
    Maybe(<<Sub(cmd_get_pipe_errors), Error, Fail>>)>>

\* Mutant: the call returns as soon as the transfer has failed.
copy_in_at_once ==
  Scoped(struct_command,
    <<Checks(<<"stat", "guestfs_is_dir", "remote_is_dir">>), Sub(split_path), Sub(cmd_pipe_run),
      Checks(<<"guestfs_tar_in">>)>> \o TarEnds)

copy_in ==
  Scoped(struct_command,
    <<Checks(<<"stat", "guestfs_is_dir", "remote_is_dir">>), Sub(split_path), Sub(cmd_pipe_run),
      TryOr(<<"guestfs_tar_in">>, <<Error>>)>> \o TarEnds)

copy_out ==
  Scoped(struct_command,
    <<Checks(<<"stat", "S_ISDIR", "guestfs_is_file">>),
      Either(<<Sub(split_path), Checks(<<"asprintf", "guestfs_download">>)>>,
             <<Checks(<<"guestfs_is_dir", "not a file or directory">>), Sub(split_path),
               Sub(cmd_pipe_run), TryOr(<<"guestfs_tar_out">>, <<Error>>)>> \o TarEnds)>>)

-----------------------------------------------------------------------------
(* lib/umask.c *)

get_umask_from_fork ==
  Fn(<<Opens("pipe"), TryTake("child", <<Error, Release("pipe")>>),
       Try(<<"read">>, <<Error, Release("pipe"), waitpid_noerror>>), Release("pipe"),
       Sub(waitpid), Checks(<<"exit status">>)>>)
\* The umask, an error, or neither: no such file, or no such line in it.
get_umask_from_proc == Scoped({"fp"}, <<Maybe(<<Ok>>), Opens("fp")>>)
getumask ==
  Fn(<<Sub(get_umask_from_proc), Maybe(<<Sub(get_umask_from_fork)>>)>>)

-----------------------------------------------------------------------------
(* lib/lpj.c *)

read_lpj_common ==
  Fn(<<Sub(cmd_run(CapturedAndRead)), Try(<<"exit status", "output", "sscanf">>, <<>>)>>)
read_lpj_from_dmesg == Scoped(struct_command, <<Sub(read_lpj_common)>>)
read_lpj_from_files ==
  Scoped(struct_command, <<Try(<<"access">>, <<>>), Sub(read_lpj_common)>>)
get_lpj ==
  Scoped({"lpj_lock"},
    <<Take("lpj_lock"), Maybe(<<Ok>>),
      CallOr(read_lpj_from_dmesg, <<Sub(read_lpj_from_files)>>)>>)

-----------------------------------------------------------------------------
(* lib/create.c *)

disk_create_raw_block == Fn(<<Opens("fd"), Release("fd")>>)

\* Mutant: the error of posix_fallocate, which errno does not tell of, is not reported.
disk_create_raw_silent ==
  LET close_and_unlink == <<Release("fd"), Release("new disk")>>
  IN  Fn(<<Checks(<<"backingformat", "preallocation", "compat", "clustersize", "S_ISCHR">>),
           Maybe(<<Sub(disk_create_raw_block), Ok>>),
           Opens("fd"), Take("new disk"),
           Try(<<"ftruncate", "posix_fallocate">>, close_and_unlink),
           TryRelease("fd", <<Error, Release("new disk")>>),
           HandedOver("new disk")>>)
disk_create_raw ==
  LET close_and_unlink == <<Error, Release("fd"), Release("new disk")>>
  IN  Fn(<<Checks(<<"backingformat", "preallocation", "compat", "clustersize", "S_ISCHR">>),
           Maybe(<<Sub(disk_create_raw_block), Ok>>),
           Opens("fd"), Take("new disk"),
           Try(<<"ftruncate", "posix_fallocate">>, close_and_unlink),
           TryRelease("fd", <<Error, Release("new disk")>>),
           HandedOver("new disk")>>)

\* The result of cmd_run is tested as the status it is not.
disk_create_qcow2 ==
  Scoped(struct_command,
    <<Checks(<<"backingformat", "preallocation", "compat", "clustersize">>),
      Checked(cmd_run(Captured)), Checks(<<"exit status">>)>>)

disk_create ==
  Fn(<<Checks(<<"size", "format">>),
       Either(<<Checks(<<"backingfile">>), Sub(disk_create_raw)>>, <<Sub(disk_create_qcow2)>>)>>)

-----------------------------------------------------------------------------
(* lib/info.c *)

qemu_img_supports_U_option ==
  Scoped(struct_command, <<Maybe(<<Ok>>)>> \o RunsAndTests(Captured))
get_json_output ==
  Scoped(struct_command,
    <<Sub(qemu_img_supports_U_option)>> \o RunsAndTests(CapturedAndRead)
    \o <<Checks(<<"parse_json", "PARSE_JSON_NO_OUTPUT">>)>>)
disk_format == Fn(<<Sub(get_json_output), Checks(<<"json_is_object", "json_is_string">>)>>)
disk_virtual_size == Fn(<<Sub(get_json_output), Checks(<<"json_is_object", "json_is_integer">>)>>)
disk_has_backing_file == Fn(<<Sub(get_json_output), Checks(<<"json_is_object">>)>>)

-----------------------------------------------------------------------------
(* lib/available.c *)

find_or_cache_feature ==
  Fn(<<Maybe(<<Ok>>), Checks(<<"guestfs_internal_feature_available">>)>>)
available ==
  Fn(<<Loop(<<Sub(find_or_cache_feature), Checks(<<"unknown group", "group not available">>)>>)>>)
feature_available ==
  Fn(<<Loop(<<Sub(find_or_cache_feature), Checks(<<"unknown group">>), Maybe(<<Ok>>)>>)>>)

-----------------------------------------------------------------------------
(* lib/canonical-name.c *)

canonical_device_name ==
  Fn(<<Maybe(<<Silently(<<>>, <<>>)>>)>>)

-----------------------------------------------------------------------------
(* lib/mountable.c *)

mountable_device == Fn(<<Checks(<<"guestfs_internal_parse_mountable">>)>>)
\* The failure of the call is reported as that of the test, too.
mountable_subvolume ==
  Fn(<<Try(<<"guestfs_internal_parse_mountable">>, <<Error, Error>>), Checks(<<"im_volume">>)>>)

-----------------------------------------------------------------------------
(* lib/rescue.c *)

internal_get_console_socket ==
  Fn(<<Checks(<<"g->conn", "ops->get_console_sock", "console_sock">>)>>)

-----------------------------------------------------------------------------
(* lib/inspect-osinfo.c *)

\* A version that could not be had is used as the number -1.
inspect_get_osinfo ==
  Fn(<<Checks(<<"guestfs_inspect_get_type", "guestfs_inspect_get_distro">>),
       TryOr(<<"guestfs_inspect_get_major_version">>, <<Error>>),
       TryOr(<<"guestfs_inspect_get_minor_version">>, <<Error>>),
       Maybe(<<Checks(<<"guestfs_inspect_get_product_name",
                        "guestfs_inspect_get_product_variant">>)>>)>>)

-----------------------------------------------------------------------------
(* lib/inspect-icon.c *)

download_to_tmp ==
  Fn(<<Sub(make_temp_path), Checks(<<"guestfs_filesize", "max_size">>),
       Opens("fd"), Take("download"),
       Try(<<"guestfs_download">>, <<Error, Release("download"), Release("fd")>>),
       TryRelease("fd", <<Error, Release("download")>>), HandedOver("download")>>)

\* An icon that is NOT_FOUND is no failure, whatever has been reported.
NOT_FOUND == Ok
is_file_silently == Silently(<<Maybe(<<NOT_FOUND>>)>>, <<Fail>>)
case_sensitive_path_silently(bad) == Silently(<<>>, bad)

get_png ==
  Fn(<<Checks(<<"guestfs_is_file_opts">>), Maybe(<<NOT_FOUND>>),
       Silently(<<>>, <<NOT_FOUND>>),
       TryOr(<<"guestfs_file">>, <<Error, NOT_FOUND>>), Maybe(<<NOT_FOUND>>),
       CallOr(download_to_tmp, <<NOT_FOUND>>), Sub(guestfs_int_read_whole_file)>>)
find_png == Fn(<<Loop(<<Sub(get_png), Maybe(<<Ok>>)>>)>>)

icon_favicon == Fn(<<Maybe(<<case_sensitive_path_silently(<<>>)>>), Sub(get_png)>>)
icon_fedora == get_png
icon_rhel == get_png
icon_debian == get_png
icon_mageia == get_png
icon_voidlinux == get_png
icon_altlinux == get_png
icon_gentoo == get_png
icon_ubuntu == find_png
icon_opensuse == find_png
icon_openmandriva == find_png

\* What has been downloaded is converted by a pipeline of programs.
Converted ==
  <<CallOr(download_to_tmp, <<NOT_FOUND>>), CallOr(make_temp_path, <<NOT_FOUND>>),
    Sub(cmd_run(Captured)), TryOr(<<"exit status">>, <<NOT_FOUND>>), Sub(guestfs_int_read_whole_file)>>

icon_cirros ==
  Scoped(struct_command,
    <<Checks(<<"guestfs_is_file_opts">>), Maybe(<<NOT_FOUND>>),
      TryOr(<<"guestfs_file">>, <<Error, NOT_FOUND>>), Maybe(<<NOT_FOUND>>)>> \o Converted)
icon_windows_xp ==
  Scoped(struct_command,
    <<Checks(<<"guestfs_case_sensitive_path">>), is_file_silently>> \o Converted)
icon_windows_7 ==
  LET this_one == Silently(<<Maybe(Converted \o <<Ok>>)>>, <<Fail>>)
  IN  Scoped(struct_command, <<Loop(<<Silently(<<this_one>>, <<>>)>>), NOT_FOUND>>)
icon_windows_8 ==
  Fn(<<case_sensitive_path_silently(<<NOT_FOUND>>), is_file_silently,
       CallOr(download_to_tmp, <<NOT_FOUND>>), Sub(guestfs_int_read_whole_file)>>)
icon_windows ==
  Fn(<<TryOr(<<"guestfs_inspect_get_windows_systemroot">>, <<Error>>),
       TryOr(<<"guestfs_inspect_get_major_version">>, <<Error>>),
       TryOr(<<"guestfs_inspect_get_minor_version">>, <<Error>>),
       Maybe(<<NOT_FOUND>>)>>
     \o OneOf(<<icon_windows_xp, icon_windows_7, icon_windows_8>>))

inspect_get_icon ==
  LET rhel == Fn(<<TryOr(<<"guestfs_inspect_get_major_version">>, <<Error>>), Sub(icon_rhel)>>)
  IN  Fn(<<Checks(<<"guestfs_inspect_get_type", "guestfs_inspect_get_distro">>),
           Maybe(<<Sub(icon_favicon), Maybe(<<Ok>>)>>)>>
         \o OneOf(<<icon_fedora, rhel, icon_debian, icon_ubuntu, icon_mageia, icon_opensuse,
                    icon_cirros, icon_voidlinux, icon_altlinux, icon_gentoo, icon_openmandriva,
                    icon_windows>>))

-----------------------------------------------------------------------------
(* lib/inspect-apps.c *)

\* An epoch that is no number is reported, and the package left out.
parse_unsigned_int == TryOr(<<"xstrtol">>, <<Error>>)

list_applications_rpm == Fn(<<Checks(<<"guestfs_internal_list_rpm_applications">>)>>)
list_applications_deb ==
  Fn(<<Sub(download_to_tmp), Opens("fp"), Loop(<<parse_unsigned_int>>),
       TryRelease("fp", <<Error>>)>>)
list_applications_apk == list_applications_deb
\* A package whose description cannot be had is left out.
list_applications_pacman ==
  Fn(<<Checks(<<"guestfs_readdir">>),
       Loop(<<CallOr(download_to_tmp, <<>>),
              Maybe(<<Opens("fp"), parse_unsigned_int, TryRelease("fp", <<Error>>)>>)>>)>>)

\* Nothing that fails here is looked at.
list_applications_windows_from_path ==
  Fn(<<Loop(<<TryOr(<<"guestfs_hivex_root", "guestfs_hivex_node_get_child">>, <<Error>>)>>),
       Maybe(<<Ok>>), TryOr(<<"guestfs_hivex_node_children">>, <<Error, Ok>>),
       Loop(<<TryOr(<<"guestfs_hivex_node_name", "guestfs_hivex_node_get_value",
                      "guestfs_hivex_value_string">>, <<Error>>)>>)>>)

list_applications_windows ==
  Fn(<<Checks(<<"guestfs_inspect_get_windows_software_hive">>), Opens("remote hive"),
       Sub(list_applications_windows_from_path), Sub(list_applications_windows_from_path),
       Release("remote hive"), Maybe(<<Error>>)>>)

inspect_list_applications2 ==
  Fn(<<Checks(<<"guestfs_inspect_get_type", "guestfs_inspect_get_package_format">>)>>
     \o OneOf(<<list_applications_rpm, list_applications_deb, list_applications_pacman,
                list_applications_apk, list_applications_windows>>))
inspect_list_applications == Fn(<<Sub(inspect_list_applications2)>>)
=============================================================================
