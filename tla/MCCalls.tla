------------------------------- MODULE MCCalls -------------------------------
EXTENDS Daemon, Library

LibraryEntries == Handlers("library", {}, LibraryFunctions)
MCEntries == DaemonEntries @@ LibraryEntries
MCShared == SharedFunctions

(***************************************************************************)
(* The functions that depart from what Calls asks, by the cause.           *)
(***************************************************************************)

\* wipe_device_before_mkfs ignores the result of test_wipefs_has_f, which has
\* replied when "wipefs --help" fails.
WipeFirst ==
  {"do_mkfs", "do_mkfs_b", "do_mkfs_btrfs", "do_mkswap", "do_mkswap_L", "do_mkswap_U", "do_mke2fs",
   "do_mke2fs_J", "do_mke2fs_JL", "do_mke2fs_JU", "do_mke2journal", "do_mke2journal_L",
   "do_mke2journal_U"}
\* An error of a callee that has replied, replied to again or not noticed.
RepliedTwice ==
  {"do_vfs_label", "do_get_e2label", "do_vfs_minimum_size", "do_part_get_name",
   "do_part_get_disk_guid", "do_part_set_mbr_id", "do_set_uuid", "do_set_uuid_random",
   "do_btrfs_quota_enable", "do_btrfs_quota_rescan", "do_btrfs_qgroup_show",
   "do_btrfs_filesystem_show", "do_find0"}
\* A failed allocation, or an error of a library, returned without a reply.
NotReplied ==
  {"do_zfile", "do_xfs_info", "do_btrfs_subvolume_show", "do_yara_load", "do_statvfs", "do_isoinfo",
   "do_isoinfo_device", "do_part_list", "do_btrfs_subvolume_list",
   "do_internal_list_rpm_applications"}
\* The output of a command, returned as it is when it is NULL (command.c).
ReturnsNoOutput ==
  {"do_ll", "do_llz", "do_df", "do_df_h", "do_dmesg", "do_hexdump", "do_sfdisk_l",
   "do_sfdisk_kernel_geometry", "do_sfdisk_disk_geometry", "do_part_get_bootable", "do_command",
   "do_command_lines", "do_sh", "do_sh_lines", "do_debug"}
\* An upload refused without cancel_receive.
RefusedOnly ==
  {"do_upload_offset", "do_tar_in", "do_ntfsclone_in", "do_yara_load", "do_internal_rhbz914931"}
\* A download that is ended twice, or not at all.
EndedWrongly ==
  {"do_internal_filesystem_walk", "do_internal_find_inode", "do_internal_yara_scan",
   "do_internal_journal_get"}
\* commandrvf returns before waitpid when the close of the descriptor given to
\* the child fails; commandf returns without closing it when malloc fails.
GivesStdin ==
  {"do_grep", "do_egrep", "do_fgrep", "do_grepi", "do_egrepi", "do_fgrepi", "do_zgrep",
   "do_zegrep", "do_zfgrep", "do_zgrepi", "do_zegrepi", "do_zfgrepi", "do_head", "do_tail",
   "do_head_n", "do_tail_n", "do_wc_l", "do_wc_w", "do_wc_c", "do_strings", "do_strings_e",
   "do_hexdump", "do_checksum", "do_checksum_device"}

\* The devices or the partitions are changed, and nobody waits for udev.
DoesNotWait ==
  {"do_lvm_scan", "do_lvm_set_filter", "do_lvm_clear_filter", "do_md_stop",
   "do_ldmtool_create_all", "do_ldmtool_remove_all", "do_blockdev_rereadpt",
   "do_part_set_gpt_type", "do_part_set_gpt_guid", "do_part_set_disk_guid",
   "do_part_set_disk_guid_random", "do_part_expand_gpt"}

\* A label that closes a descriptor whose close has failed a second time.
ClosesAgain ==
  {"read_file", "cat", "read_lines", "find", "ls", "write", "write_append", "journal_get"}
\* The loop of command.c reports a pipe it cannot read and goes on, so that
\* the command succeeds with its output, or its errors, cut short.
ReadsOn ==
  {"disk_create", "disk_format", "disk_has_backing_file", "disk_virtual_size", "remove_tmpdir",
   "remove_sockdir", "remove_drive", "inspect_get_icon", "launch_direct", "launch_libvirt",
   "launch_uml", "add_cdrom", "add_domain", "add_drive_opts", "add_drive_ro",
   "add_drive_ro_with_if", "add_drive_scratch", "add_drive_with_if", "add_libvirt_dom"}
\* The failure of a call that has reported it is overlooked: of guestfs_tar_in
\* and guestfs_tar_out, of guestfs_inspect_get_major_version, of the download
\* of one of several files, of reading the umask before a launch, of looking
\* up the secret or the volume of one of the disks of a domain.
Overlooks ==
  {"copy_in", "copy_out", "inspect_get_osinfo", "inspect_list_applications",
   "inspect_list_applications2", "launch_unix", "add_domain", "add_libvirt_dom"}
\* The end of the file is not told from a failure to read it, the exit status
\* of cp and a backend setting that is no boolean are not reported.
FailsSilently == {"filesystem_walk", "find_inode", "launch_direct", "launch_libvirt"}
\* generic_qmp_test leaves the pipe open when fdopen fails, and waits for
\* qemu while it still has the stream to it.
TalksToQemu == {"launch_direct"}

MCKnown ==
  [OneReply |-> WipeFirst \cup RepliedTwice \cup NotReplied \cup ReturnsNoOutput,
   StreamOver |-> RefusedOnly \cup EndedWrongly,
   AnswerAfterFile |-> RefusedOnly,
   NothingLeft |-> GivesStdin \cup
     {"do_vgmeta", "do_zero_free_space", "do_btrfs_quota_enable", "do_btrfs_quota_rescan",
      "do_initrd_cat", "do_inotify_files"} \cup TalksToQemu,
   QuietWhileApart |-> {},
   ReleasedOnce |-> ClosesAgain \cup
     {"main", "do_yara_load", "do_initrd_cat", "do_checksum", "do_checksum_device"},
   Settled |-> DoesNotWait,
   FailureExplained |-> FailsSilently,
   SuccessIsClean |-> ReadsOn \cup Overlooks,
   ChildCanEnd |-> TalksToQemu]

(***************************************************************************)
(* The handlers of daemon/parted.c, none of them excepted.                 *)
(***************************************************************************)
PartedEntries ==
  [n \in {"do_part_init", "do_part_add", "do_part_del", "do_part_resize", "do_part_disk",
          "do_part_set_bootable", "do_part_set_name", "do_part_set_mbr_id", "do_part_set_gpt_type",
          "do_part_set_gpt_guid", "do_part_set_disk_guid", "do_part_set_disk_guid_random",
          "do_part_expand_gpt"} |-> MCEntries[n]]
NoneKnown == [property \in DOMAIN MCKnown |-> {}]
===============================================================================
