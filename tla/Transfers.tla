------------------------------ MODULE Transfers ------------------------------
(***************************************************************************)
(* The handlers that receive a file after the request (FileIn) or send one *)
(* after the reply (FileOut).                                              *)
(*                                                                         *)
(* A FileIn handler that fails before receive_file, or whose callback      *)
(* fails in it, has to call cancel_receive before it replies; one that was *)
(* cancelled (-2) must not.  A FileOut handler can reply with an error     *)
(* only before reply; after it the one way to report an error is the       *)
(* cancelled last chunk, send_file_end (1), which send_file_write has sent *)
(* already when it returns -2.                                             *)
(***************************************************************************)
EXTENDS DaemonUtils

\* The tail of every FileOut handler: reply, then the contents of fp.
SendContents(fp) ==
  <<reply,
    Loop(<<send_file_write(<<Release(fp)>>)>>),
    Try(<<"read">>, <<send_file_end(<<>>), Release(fp)>>),
    TryRelease(fp, <<send_file_end(<<>>)>>),
    send_file_end(<<Fail>>)>>

\* cancel_receive, then the error; the order the protocol asks for.
Reject == <<cancel_receive, Error>>

OpenDeviceOrFile(r, else) == If("is_dev", <<TryTake(r, else)>>, <<ChrootTryTake(r, else)>>)

-----------------------------------------------------------------------------
(* daemon/upload.c *)

upload_to_fd ==
  Fn(<<receive_file(<<cancel_receive, Error, Closed("fd")>>, <<Error, Closed("fd")>>),
       Closed("fd"), Checks(<<"close">>)>>)

upload ==
  Fn(<<Ignored(is_device_parameter),
       OpenDeviceOrFile("fd", Reject),
       Maybe(<<Try(<<"lseek">>, <<cancel_receive, Release("fd"), Error>>)>>),
       Sub(upload_to_fd)>>)
do_upload == upload
do_upload_offset == Fn(<<Checks(<<"offset">>), Sub(upload)>>)

check_not_directory == Fn(<<Checks(<<"fstat", "S_ISDIR">>)>>)

do_download ==
  Fn(<<Checks(<<"malloc">>), Ignored(is_device_parameter),
       OpenDeviceOrFile("fd", <<Error>>),
       Call(check_not_directory, <<Release("fd")>>),
       If("is_dev", <<Call(do_blockdev_getsize64, <<Release("fd")>>)>>,
                    <<Try(<<"fstat">>, <<Error, Release("fd")>>)>>)>>
     \o SendContents("fd"))

do_download_offset ==
  Fn(<<Checks(<<"malloc", "offset", "size">>), Ignored(is_device_parameter),
       OpenDeviceOrFile("fd", <<Error>>),
       Call(check_not_directory, <<Release("fd")>>),
       Maybe(<<Try(<<"lseek">>, <<Error, Release("fd")>>)>>),
       reply,
       Loop(<<Try(<<"read">>, <<send_file_end(<<>>), Release("fd")>>),
              Maybe(<<Break>>),
              send_file_write(<<Release("fd")>>)>>),
       TryRelease("fd", <<send_file_end(<<>>)>>),
       send_file_end(<<Fail>>)>>)

-----------------------------------------------------------------------------
(* daemon/tar.c *)

is_chown_supported ==
  Fn(<<Try(<<"asprintf">>, Reject), Call(random_name, Reject),
       TryTake("probe fd", Reject), Take("probe file"),
       Release("probe fd"), Release("probe file"),
       Try(<<"fchown">>, Reject)>>)

read_error_file == Fn(<<Ignored(read_whole_file), OrDies(<<"strdup">>)>>)

tar_in(compression) ==
  Fn(<<Sub(is_chown_supported)>> \o compression \o
     <<TryTake("error fd", Reject), Take("error_file"), Release("error fd"),
       Try(<<"asprintf">>, Reject \o <<Release("error_file")>>),
       TryTake("fp", Reject \o <<Release("error_file")>>),
       receive_file(<<cancel_receive, Ignored(read_error_file), Error,
                      Release("error_file"), Release("fp")>>,
                    <<Error, Release("fp"), Release("error_file")>>),
       TryRelease("fp", <<Ignored(read_error_file), Error, Release("error_file")>>),
       Release("error_file")>>)
do_tar_in == tar_in(<<Maybe(<<Checks(<<"unknown compression type">>)>>)>>)
do_tgz_in == tar_in(<<>>)
do_txz_in == tar_in(<<>>)

tar_out(compression, excludes) ==
  Scoped({"excludes file"},
    <<Checks(<<"malloc">>)>> \o compression \o excludes
    \o <<Checks(<<"sysroot_path", "stat", "S_ISDIR", "asprintf">>), Opens("fp")>>
    \o SendContents("fp"))
do_tar_out ==
  tar_out(<<Maybe(<<Checks(<<"unknown compression type">>)>>)>>,
          <<Maybe(<<Sub(make_exclude_from_file)>>)>>)
do_tgz_out == tar_out(<<>>, <<>>)
do_txz_out == tar_out(<<>>, <<>>)

-----------------------------------------------------------------------------
(* daemon/base64.c *)

\* Mutant: a failed write does not cancel the transfer.
do_base64_in_not_cancelled ==
  Fn(<<Try(<<"asprintf">>, Reject), TryTake("fp", Reject),
       receive_file(<<Error, Release("fp")>>, <<Error, Release("fp")>>),
       TryRelease("fp", <<Error>>)>>)
do_base64_in ==
  Fn(<<Try(<<"asprintf">>, Reject), TryTake("fp", Reject),
       receive_file(<<cancel_receive, Error, Release("fp")>>, <<Error, Release("fp")>>),
       TryRelease("fp", <<Error>>)>>)
do_base64_out ==
  Fn(<<Checks(<<"malloc", "sysroot_path", "stat", "S_ISDIR", "asprintf">>), Opens("fp")>>
     \o SendContents("fp"))

-----------------------------------------------------------------------------
(* daemon/checksum.c *)

program_of_csum == Fn(<<Checks(<<"unknown checksum type">>)>>)
checksum ==
  Fn(<<Sub(program_of_csum), pulse_mode_start,
       Call(commandf(<<Closed("fd")>>), <<pulse_mode_cancel, Error>>),
       ReadsOutput, pulse_mode_end>>)
do_checksum == Scoped({"fd"}, <<ChrootOpens("fd"), Sub(checksum)>>)
do_checksum_device == Scoped({"fd"}, <<Opens("fd"), Sub(checksum)>>)
do_checksums_out ==
  Fn(<<Checks(<<"malloc">>), Sub(program_of_csum),
       Checks(<<"sysroot_path", "stat", "S_ISDIR", "asprintf">>), Opens("fp")>>
     \o SendContents("fp"))

-----------------------------------------------------------------------------
(* daemon/compress.c *)

do_compressX_out == Fn(<<Checks(<<"malloc", "asprintf">>), Opens("fp")>> \o SendContents("fp"))
get_filter == Fn(<<Checks(<<"CHECK_SUPPORTED", "level", "unknown compression type">>)>>)
do_compress_out == Fn(<<Sub(get_filter), Sub(do_compressX_out)>>)
do_compress_device_out == Fn(<<Sub(get_filter), Sub(do_compressX_out)>>)

-----------------------------------------------------------------------------
(* daemon/cpio.c *)

do_cpio_out ==
  Fn(<<Checks(<<"malloc", "sysroot_path", "stat", "S_ISDIR", "format", "asprintf">>),
       Opens("fp")>> \o SendContents("fp"))

-----------------------------------------------------------------------------
(* daemon/find.c *)

\* -1 ends the loop of do_find0 as the end of the file does.
input_to_nul == Fn(<<Checks(<<"input string too long">>)>>)
do_find0 ==
  Fn(<<Checks(<<"malloc", "sysroot_path", "stat", "S_ISDIR", "asprintf">>), Opens("fp"),
       reply,
       Loop(<<CallOr(input_to_nul, <<Break>>), Maybe(<<send_file_write(<<Release("fp")>>)>>)>>),
       Try(<<"ferror">>, <<send_file_end(<<>>), Release("fp")>>),
       TryRelease("fp", <<send_file_end(<<>>)>>),
       send_file_end(<<Fail>>)>>)

-----------------------------------------------------------------------------
(* daemon/ls.c *)

\* Mutant: a read error ends the handler, and not the transfer.
do_ls0_unfinished ==
  Fn(<<ChrootOpens("dir"), reply, Loop(<<send_file_write(<<Release("dir")>>)>>),
       Try(<<"readdir">>, <<Release("dir")>>), TryRelease("dir", <<send_file_end(<<>>)>>),
       send_file_end(<<Fail>>)>>)
do_ls0 == Fn(<<ChrootOpens("dir")>> \o SendContents("dir"))
do_ll == Fn(<<ChrootChecks, Checks(<<"sysroot_path", "ls">>), ReturnsOutput>>)
do_llz == Fn(<<ChrootChecks, Checks(<<"sysroot_path", "ls">>), ReturnsOutput>>)

-----------------------------------------------------------------------------
(* daemon/squashfs.c *)

do_mksquashfs ==
  Scoped({"tmpfile", "excludes file"},
    <<Checks(<<"sysroot_path", "strdup">>), Opens("tmp fd"), Take("tmpfile"),
      Release("tmp fd"), Checks(<<"malloc">>),
      Maybe(<<Sub(make_exclude_from_file)>>),
      Checks(<<"mksquashfs">>), Opens("fp")>>
    \o SendContents("fp"))

-----------------------------------------------------------------------------
(* daemon/ntfsclone.c *)

read_error_file_ntfsclone == read_error_file
do_ntfsclone_in ==
  Fn(<<Opens("error fd"), Take("error_file"), Release("error fd"),
       Try(<<"asprintf">>, Reject \o <<Release("error_file")>>),
       TryTake("fp", Reject \o <<Release("error_file")>>),
       receive_file(<<cancel_receive, Ignored(read_error_file_ntfsclone), Error,
                      Release("error_file"), Release("fp")>>,
                    <<Error, Release("fp"), Release("error_file")>>),
       TryRelease("fp", <<Ignored(read_error_file_ntfsclone), Error, Release("error_file")>>),
       Release("error_file")>>)
do_ntfsclone_out == Fn(<<Checks(<<"malloc", "asprintf">>), Opens("fp")>> \o SendContents("fp"))

-----------------------------------------------------------------------------
(* daemon/ntfs.c *)

do_ntfscat_i == Fn(<<Checks(<<"malloc", "inode", "asprintf">>), Opens("fp")>> \o SendContents("fp"))

-----------------------------------------------------------------------------
(* daemon/sleuthkit.c *)

send_command_output == Fn(<<Checks(<<"malloc">>), Opens("fp")>> \o SendContents("fp"))
do_download_inode == Fn(<<Checks(<<"inode", "asprintf">>), Sub(send_command_output)>>)
do_download_blocks ==
  Fn(<<Checks(<<"start", "stop", "asprintf">>), Sub(send_command_output)>>)

-----------------------------------------------------------------------------
(* daemon/tsk.c *)

reply_with_tsk_error == <<Error>>
open_filesystem ==
  Fn(<<TryTake("img", reply_with_tsk_error),
       TryTake("fs", reply_with_tsk_error \o <<Release("img")>>)>>)
send_dirent_info == Fn(<<Try(<<"asprintf", "malloc", "xdr">>, <<>>), send_file_write(<<>>)>>)
fswalk_callback == Fn(<<Maybe(<<Ok>>), Sub(send_dirent_info)>>)
findino_callback == Fn(<<Maybe(<<Ok>>), Sub(send_dirent_info)>>)

tsk_fs_dir_walk(callback) == Fn(<<Loop(<<Sub(callback)>>), Try(<<"walk">>, <<>>)>>)
walk(callback) ==
  LET close == <<Release("fs"), Release("img")>>
  IN  Fn(<<Sub(open_filesystem), reply,
           Call(tsk_fs_dir_walk(callback), <<send_file_end(<<>>)>> \o close),
           send_file_end(close \o <<Fail>>)>> \o close)
do_internal_filesystem_walk == walk(fswalk_callback)
do_internal_find_inode == walk(findino_callback)

-----------------------------------------------------------------------------
(* daemon/yara.c *)

\* The errors of the other yr_ functions are returned without a reply.
compile_rules_file ==
  Scoped({"rule_file", "compiler"},
    <<Opens("compiler"), Opens("rule_file"), Checks(<<"yr_compiler_add_file">>),
      TryTake("yara rules", <<Either(<<Error>>, <<>>)>>)>>)
do_yara_load ==
  LET unlink == <<Release("yara file")>>
  IN  Scoped({"fd"},
        <<Opens("fd"), Take("yara file"),
          Call(upload_to_fd, unlink),
          Maybe(<<Try(<<"yr_initialize">>, <<Error>> \o unlink)>>),
          IfHeld("yara rules", <<Release("yara rules")>>, <<>>),
          Either(<<TryTake("yara rules", unlink)>>,
                 <<Call(compile_rules_file, unlink)>>)>>
        \o unlink)
do_yara_destroy ==
  Fn(<<IfHeld("yara rules", <<>>, <<Error, Fail>>), Release("yara rules")>>)

send_detection_info == Fn(<<Try(<<"malloc", "xdr">>, <<>>), send_file_write(<<>>)>>)
yara_rules_callback == Fn(<<Maybe(<<Sub(send_detection_info)>>)>>)
do_internal_yara_scan ==
  LET scan == Fn(<<Loop(<<Sub(yara_rules_callback)>>), Try(<<"scan">>, <<>>)>>)
  IN  Scoped({"fd"},
        <<IfHeld("yara rules", <<>>, <<Error, Fail>>), ChrootOpens("fd"), reply,
          CallOr(scan, <<send_file_end(<<>>), Ok>>), send_file_end(<<>>)>>)
yara_finalize == Fn(<<IfHeld("yara rules", <<Release("yara rules")>>, <<>>)>>)
=============================================================================
