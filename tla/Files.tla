-------------------------------- MODULE Files --------------------------------
(***************************************************************************)
(* The handlers for the files of the guest.  A path of the guest is        *)
(* resolved inside a chroot, and the chroot must be left before anything   *)
(* else happens: a reply, or a program that is run, from inside it would   *)
(* find the files of the guest where it looks for those of the appliance.  *)
(***************************************************************************)
EXTENDS DaemonUtils

-----------------------------------------------------------------------------
(* daemon/xattr.c *)

split_attr_names == Fn(<<Loop(<<Sub(add_string_nodup)>>), Sub(end_stringsbuf)>>)
_listxattrs == Fn(<<ChrootChecks, Checks(<<"malloc">>), ChrootChecks>>)
\* The value is asked for twice: for its size, and for its bytes.
GetValue == <<ChrootChecks, Checks(<<"XATTR_SIZE_MAX", "strdup", "malloc">>), ChrootChecks>>
getxattrs ==
  Fn(<<Sub(_listxattrs), Sub(split_attr_names), Sub(filter_list), Checks(<<"calloc", "calloc">>),
       Loop(GetValue)>>)
do_getxattrs == getxattrs
do_lgetxattrs == getxattrs
_setxattr == Fn(<<Checks(<<"XATTR_SIZE_MAX">>), ChrootChecks>>)
do_setxattr == _setxattr
do_lsetxattr == _setxattr
_removexattr == Fn(<<ChrootChecks>>)
do_removexattr == _removexattr
do_lremovexattr == _removexattr
do_internal_lxattrlist ==
  LET next == <<CHROOT_IN, CHROOT_OUT>>
      names == <<Sub(split_attr_names), Sub(filter_list), Checks(<<"realloc">>), Loop(GetValue),
                 Checks(<<"strdup">>)>>
  IN  Fn(<<Checks(<<"malloc">>),
           Loop(<<Checks(<<"asprintf", "realloc", "strdup">>)>> \o next \o
                <<Maybe(<<Checks(<<"malloc">>)>> \o next \o <<Maybe(names)>>)>>)>>)
_getxattr ==
  Fn(<<ChrootChecks, Checks(<<"XATTR_SIZE_MAX", "malloc">>), ChrootChecks, Checks(<<"len != r">>),
       Take("size_r")>>)
do_getxattr == _getxattr
do_lgetxattr == _getxattr
copy_xattrs ==
  Fn(<<Sub(_listxattrs), Sub(split_attr_names), Sub(filter_list),
       Loop(<<ChrootChecks, Checks(<<"XATTR_SIZE_MAX", "realloc">>), ChrootChecks, ChrootChecks>>)>>)

-----------------------------------------------------------------------------
(* daemon/file.c *)

WriteAndClose(write) == <<Try(<<write>>, <<Error, Release("fd")>>), TryRelease("fd", <<Error>>)>>

do_touch ==
  Fn(<<CHROOT_IN, CHROOT_OUT, Checks(<<"lstat", "S_ISREG">>), ChrootOpens("fd")>>
     \o WriteAndClose("futimens"))
do_rm == Fn(<<ChrootChecks>>)
do_rm_f == Fn(<<ChrootChecks>>)
do_chmod == Fn(<<Checks(<<"mode">>), ChrootChecks>>)
do_chown == Fn(<<ChrootChecks>>)
do_lchown == Fn(<<ChrootChecks>>)
do_write_file == Fn(<<Checks(<<"size">>), ChrootOpens("fd")>> \o WriteAndClose("xwrite"))
do_internal_write == Fn(<<ChrootOpens("fd")>> \o WriteAndClose("xwrite"))
do_internal_write_append == Fn(<<ChrootOpens("fd")>> \o WriteAndClose("xwrite"))
pread_fd ==
  Fn(<<Try(<<"count", "offset", "GUESTFS_MESSAGE_MAX", "malloc", "pread">>, <<Error, Release("fd")>>),
       TryRelease("fd", <<Error>>), Take("size_r")>>)
do_pread == Fn(<<ChrootOpens("fd"), Sub(pread_fd)>>)
do_pread_device == Fn(<<Opens("fd"), Sub(pread_fd)>>)
pwrite_fd(settle) == Fn(WriteAndClose("pwrite") \o settle)
do_pwrite == Fn(<<Checks(<<"offset">>), ChrootOpens("fd"), Sub(pwrite_fd(<<>>))>>)
do_pwrite_device == Fn(<<Checks(<<"offset">>), Opens("fd"), Sub(pwrite_fd(<<udev_settle>>))>>)
do_zfile ==
  Fn(<<Checks(<<"method", "asprintf">>), Opens("fp"), Try(<<"fgets">>, <<Error, Release("fp")>>),
       TryRelease("fp", <<Error>>), Try(<<"strdup">>, <<>>)>>)
do_filesize == Fn(<<ChrootChecks>>)
do_copy_attributes ==
  Fn(<<ChrootChecks, ChrootChecks, Maybe(<<ChrootChecks>>), Maybe(<<ChrootChecks>>),
       Maybe(<<Sub(copy_xattrs)>>)>>)

-----------------------------------------------------------------------------
(* daemon/dir.c *)

do_rmdir == Fn(<<ChrootChecks>>)
do_rm_rf == Fn(<<Checks(<<"/", "sysroot_path", "rm -rf">>)>>)
do_mkdir == Fn(<<ChrootChecks>>)
do_mkdir_mode == Fn(<<Checks(<<"mode">>), ChrootChecks>>)
\* One level of it: the recursion ends at a parent that is there.
recursive_mkdir ==
  Fn(<<Maybe(<<Try(<<"lstat", "S_ISDIR">>, <<>>), Ok>>),
       Maybe(<<Try(<<"mkdir", "/", "strdup">>, <<>>)>>), Try(<<"mkdir">>, <<>>)>>)
do_mkdir_p == Fn(<<CHROOT_IN, Call(recursive_mkdir, <<CHROOT_OUT, Error>>), CHROOT_OUT>>)

-----------------------------------------------------------------------------
(* daemon/stat.c *)

stat_to_statns == Fn(<<Checks(<<"malloc">>)>>)
do_statns == Fn(<<ChrootChecks, Sub(stat_to_statns)>>)
do_lstatns == Fn(<<ChrootChecks, Sub(stat_to_statns)>>)
do_internal_lstatnslist ==
  Fn(<<Checks(<<"malloc", "calloc">>), ChrootOpens("path_fd"), TryRelease("path_fd", <<Error>>)>>)

-----------------------------------------------------------------------------
(* daemon/link.c *)

do_internal_readlinklist ==
  Fn(<<ChrootOpens("fd_cwd"), Loop(<<Call(add_string, <<Release("fd_cwd")>>)>>), Release("fd_cwd"),
       Sub(end_stringsbuf)>>)
do_ln == Fn(<<ChrootChecks>>)
do_ln_f == Fn(<<ChrootChecks>>)
_symlink == OnPath("ln")
do_ln_s == _symlink
do_ln_sf == _symlink

-----------------------------------------------------------------------------
(* daemon/mknod.c *)

do_mknod == Fn(<<Checks(<<"mode">>), ChrootChecks>>)
do_mkfifo == Fn(<<Checks(<<"CHECK_MODE">>), Sub(do_mknod)>>)
do_mknod_b == Fn(<<Checks(<<"CHECK_MODE">>), Sub(do_mknod)>>)
do_mknod_c == Fn(<<Checks(<<"CHECK_MODE">>), Sub(do_mknod)>>)

-----------------------------------------------------------------------------
(* daemon/mktemp.c *)

do_mkdtemp == Fn(<<Checks(<<"strdup">>), ChrootChecks>>)
do_mktemp == Fn(<<Checks(<<"suffix", "asprintf", "strdup">>), ChrootOpens("fd"), Release("fd")>>)

-----------------------------------------------------------------------------
(* daemon/readdir.c *)

do_readdir ==
  Fn(<<Checks(<<"malloc">>), ChrootOpens("dir"),
       Loop(<<Try(<<"realloc", "strdup">>, <<Error, Release("dir")>>)>>),
       TryRelease("dir", <<Error>>)>>)

-----------------------------------------------------------------------------
(* daemon/rename.c *)

do_rename == Fn(<<ChrootChecks>>)

-----------------------------------------------------------------------------
(* daemon/glob.c *)

do_glob_expand == Fn(<<CHROOT_IN, CHROOT_OUT, Maybe(<<Checks(<<"malloc">>), Ok>>), Checks(<<"glob">>)>>)

-----------------------------------------------------------------------------
(* daemon/grep.c *)

\* A file of the guest, opened in the chroot and given to a program of the
\* appliance as its standard input: the program runs outside the chroot, and
\* commandrvf closes the descriptor.
StdinFrom(runs(_)) == <<ChrootOpens("stdin fd"), Checked(runs(<<Release("stdin fd")>>))>>

Lines == <<ReadsOutput, Sub(split_lines)>>

grep == Fn(<<Checks(<<"extended and fixed">>)>> \o StdinFrom(commandrvf) \o Lines)
do_grep == grep
do_egrep == grep
do_fgrep == grep
do_grepi == grep
do_egrepi == grep
do_fgrepi == grep
do_zgrep == grep
do_zegrep == grep
do_zfgrep == grep
do_zgrepi == grep
do_zegrepi == grep
do_zfgrepi == grep

-----------------------------------------------------------------------------
(* daemon/headtail.c *)

\* Mutant: replies again for split_lines, which has replied.
headtail_checked == Fn(StdinFrom(commandf) \o <<ReadsOutput, Checked(split_lines)>>)
headtail == Fn(StdinFrom(commandf) \o Lines)
do_head == headtail
do_tail == headtail
do_head_n == headtail
do_tail_n == headtail

-----------------------------------------------------------------------------
(* daemon/strings.c *)

do_strings_e == Fn(<<Checks(<<"encoding">>)>> \o StdinFrom(commandf) \o Lines)
do_strings == do_strings_e

-----------------------------------------------------------------------------
(* daemon/wc.c *)

wc == Fn(StdinFrom(commandf) \o <<ReadsOutput, Checks(<<"sscanf">>)>>)
do_wc_l == wc
do_wc_w == wc
do_wc_c == wc

-----------------------------------------------------------------------------
(* daemon/hexdump.c *)

do_hexdump == Fn(StdinFrom(commandf) \o <<ReturnsOutput>>)

-----------------------------------------------------------------------------
(* daemon/du.c *)

do_du ==
  Fn(<<Checks(<<"sysroot_path">>), pulse_mode_start,
       Try(<<"du">>, <<pulse_mode_cancel, Error>>), ReadsOutput,
       Try(<<"sscanf">>, <<pulse_mode_cancel, Error>>), pulse_mode_end>>)

-----------------------------------------------------------------------------
(* daemon/df.c *)

do_df == Fn(<<Checks(<<"NEED_ROOT", "df">>), ReturnsOutput>>)
do_df_h == Fn(<<Checks(<<"NEED_ROOT", "df -h">>), ReturnsOutput>>)

-----------------------------------------------------------------------------
(* daemon/is.c *)

get_mode == Fn(<<ChrootChecks>>)
do_exists == get_mode
do_is_chardev == get_mode
do_is_blockdev == get_mode
do_is_fifo == get_mode
do_is_socket == get_mode

-----------------------------------------------------------------------------
(* daemon/utimens.c *)

do_utimens == Fn(<<ChrootChecks>>)

-----------------------------------------------------------------------------
(* daemon/umask.c *)

do_umask == Fn(<<Checks(<<"mask", "umask">>)>>)
do_get_umask == Fn(<<Checks(<<"umask">>)>>)

-----------------------------------------------------------------------------
(* daemon/initrd.c *)

do_initrd_list ==
  Fn(<<Checks(<<"asprintf">>), Opens("fp"), Loop(<<Call(add_string, <<Release("fp")>>)>>),
       Call(end_stringsbuf, <<Release("fp")>>), TryRelease("fp", <<Error>>)>>)

\* rmdir does nothing to a directory that cpio has put a file in.
do_initrd_cat ==
  LET rmdir == IfHeld("extracted", <<>>, <<Release("tmpdir")>>)
      cleanup == <<Release("extracted"), Release("tmpdir")>>
  IN  Fn(<<Opens("tmpdir"),
           Try(<<"asprintf">>, <<Error, rmdir>>),
           Try(<<"system">>, <<Error, rmdir>>), Maybe(<<Take("extracted")>>),
           Try(<<"exit status", "asprintf">>, <<Error, rmdir>>),
           IfHeld("extracted", <<>>, <<Error, rmdir, Fail>>),
           TryTake("fd", <<Error, rmdir>>),
           Try(<<"fstat", "GUESTFS_MESSAGE_MAX", "malloc", "xread">>,
               <<Error, Release("fd")>> \o cleanup),
           TryRelease("fd", <<Error, Release("fd")>> \o cleanup),
           Take("size_r")>> \o cleanup)

-----------------------------------------------------------------------------
(* daemon/fill.c *)

do_fill ==
  Fn(<<Checks(<<"c", "malloc", "len">>), ChrootOpens("fd"),
       Loop(<<Try(<<"write">>, <<Error, Release("fd")>>)>>), TryRelease("fd", <<Error>>)>>)
do_fill_pattern ==
  Fn(<<Checks(<<"patlen", "len">>), ChrootOpens("fd"),
       Loop(<<Try(<<"xwrite">>, <<Error, Release("fd")>>)>>), TryRelease("fd", <<Error>>)>>)
do_fill_dir ==
  Fn(<<Loop(<<Checks(<<"asprintf">>), ChrootOpens("fd"), TryRelease("fd", <<Error>>)>>)>>)

-----------------------------------------------------------------------------
(* daemon/fallocate.c *)

do_fallocate64 == Fn(<<ChrootOpens("fd")>> \o WriteAndClose("posix_fallocate"))
do_fallocate == Fn(<<Checks(<<"len">>), Sub(do_fallocate64)>>)

-----------------------------------------------------------------------------
(* daemon/truncate.c *)

do_truncate_size == Fn(<<ChrootOpens("fd")>> \o WriteAndClose("ftruncate"))
do_truncate == do_truncate_size

-----------------------------------------------------------------------------
(* daemon/acl.c *)

do_acl_get_file ==
  Fn(<<Checks(<<"acltype">>), ChrootOpens("acl"),
       Try(<<"acl_to_text">>, <<Error, Release("acl")>>), Take("acl text"), Release("acl"),
       Try(<<"strdup">>, <<Error, Release("acl text")>>), Release("acl text")>>)
\* Mutant: the access control list is freed again after the error.
do_acl_set_file_frees_twice ==
  Fn(<<Checks(<<"acltype">>), Opens("acl"),
       ChrootTry(<<Error, Release("acl"), Release("acl")>>), Release("acl")>>)
do_acl_set_file ==
  Fn(<<Checks(<<"acltype">>), Opens("acl"), ChrootTry(<<Error, Release("acl")>>), Release("acl")>>)
do_acl_delete_def_file == Fn(<<ChrootChecks>>)

-----------------------------------------------------------------------------
(* daemon/cap.c *)

do_cap_get_file ==
  Fn(<<Maybe(<<CHROOT_IN, CHROOT_OUT, Checks(<<"strdup">>), Ok>>), ChrootOpens("cap"),
       Try(<<"cap_to_text">>, <<Error, Release("cap")>>), Take("cap text"), Release("cap"),
       Try(<<"strdup">>, <<Error, Release("cap text")>>), Release("cap text")>>)
do_cap_set_file == Fn(<<Opens("cap"), ChrootTry(<<Error, Release("cap")>>), Release("cap")>>)

-----------------------------------------------------------------------------
(* daemon/cmp.c *)

do_equal == Fn(<<Checks(<<"sysroot_path", "sysroot_path", "cmp">>)>>)

-----------------------------------------------------------------------------
(* daemon/cpmv.c *)

\* Mutant: replies while the timer still runs.
cpmv_cmd_cancels_late ==
  Fn(<<Checks(<<"sysroot_path", "sysroot_path">>), pulse_mode_start,
       Try(<<"cp, mv">>, <<Error, pulse_mode_cancel>>), pulse_mode_end>>)
cpmv_cmd ==
  Fn(<<Checks(<<"sysroot_path", "sysroot_path">>), pulse_mode_start,
       Try(<<"cp, mv">>, <<pulse_mode_cancel, Error>>), pulse_mode_end>>)
do_cp == cpmv_cmd
do_cp_a == cpmv_cmd
do_cp_r == cpmv_cmd
do_mv == cpmv_cmd

-----------------------------------------------------------------------------
(* daemon/dd.c *)

do_dd == Fn(<<Ignored(is_device_parameter), Checks(<<"asprintf">>), Ignored(is_device_parameter),
              Checks(<<"asprintf", "dd">>)>>)
do_copy_size ==
  LET close == <<Release("src_fd"), Release("dest_fd")>>
  IN  Fn(<<Ignored(is_device_parameter), Checks(<<"sysroot_path">>), Opens("src_fd"),
           Ignored(is_device_parameter), Try(<<"sysroot_path">>, <<Error, Release("src_fd")>>),
           TryTake("dest_fd", <<Error, Release("src_fd")>>),
           Try(<<"malloc">>, <<Error>> \o close),
           Loop(<<Try(<<"read", "end of file", "xwrite">>, <<Error>> \o close)>>),
           TryRelease("src_fd", <<Error, Release("dest_fd")>>), TryRelease("dest_fd", <<Error>>)>>)

-----------------------------------------------------------------------------
(* daemon/copy.c *)

\* A file that could not be copied in full is removed again, if asked for.
TakeDest(unlinks) == IF unlinks THEN <<Take("dest")>> ELSE <<>>
\* Mutant: leaves the part of it that was copied.
UnlinkDest_forgotten(unlinks) == <<>>
UnlinkDest(unlinks) == IF unlinks THEN <<Release("dest")>> ELSE <<>>
\* One that has been copied is the guest's from then on.
KeepDest(unlinks) == IF unlinks THEN <<Release("dest")>> ELSE <<>>

\* "size == -1" is the case of a copy of unknown length, in pulse mode.
copy(unlinks) ==
  LET close == <<Release("src_fd"), Release("dest_fd")>> \o UnlinkDest(unlinks)
      cancel == If("size == -1", <<pulse_mode_cancel>>, <<>>)
  IN  Fn(<<Checks(<<"malloc", "srcoffset", "destoffset", "size">>),
           Opens("src_fd"), Try(<<"lseek">>, <<Error, Release("src_fd")>>),
           TryTake("dest_fd", <<Error, Release("src_fd")>>)>> \o TakeDest(unlinks) \o
         <<Try(<<"lseek">>, <<Error>> \o close),
           If("size == -1", <<pulse_mode_start>>, <<>>),
           Loop(<<Try(<<"read">>, <<cancel, Error>> \o close),
                  Maybe(<<If("size == -1", <<Break>>, <<Error>> \o close \o <<Fail>>)>>),
                  Try(<<"lseek", "xwrite">>, <<cancel, Error>> \o close)>>),
           If("size == -1", <<pulse_mode_end>>, <<>>),
           TryRelease("src_fd", <<Error, Release("dest_fd")>> \o UnlinkDest(unlinks)),
           TryRelease("dest_fd", <<Error>> \o UnlinkDest(unlinks))>> \o KeepDest(unlinks))
do_copy_device_to_device == Fn(<<Checks(<<"append">>), Sub(copy(FALSE))>>)
do_copy_device_to_file == Fn(<<Checks(<<"sysroot_path">>), Sub(copy(FALSE))>>)
do_copy_file_to_device == Fn(<<Checks(<<"sysroot_path", "append">>), Sub(copy(FALSE))>>)
\* COPY_UNLINK_DEST_ON_FAILURE
do_copy_file_to_file == Fn(<<Checks(<<"sysroot_path", "sysroot_path">>), Sub(copy(TRUE))>>)
==============================================================================
