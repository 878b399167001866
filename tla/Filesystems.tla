----------------------------- MODULE Filesystems -----------------------------
(***************************************************************************)
(* The handlers that make, check, resize, label and describe filesystems.  *)
(* Most of them check their arguments and run one program; the ones that   *)
(* are worth a look ask another handler first, probe for a feature of a    *)
(* program, or mount the filesystem for the time of the call.              *)
(***************************************************************************)
EXTENDS Storage, DaemonSessions

\* daemon/blkid.ml
do_vfs_type == CamlString

-----------------------------------------------------------------------------
(* daemon/zero.c *)

do_zero ==
  Fn(<<Opens("fd"), Loop(<<Try(<<"pread", "pwrite">>, <<Error, Release("fd")>>)>>),
       TryRelease("fd", <<Error>>)>>)
wipefs_has_force_option == Fn(<<Maybe(<<Checks(<<"wipefs --help">>), ReadsOutput>>)>>)
do_wipefs == Fn(<<Sub(wipefs_has_force_option), Checks(<<"wipefs">>)>>)
do_zero_device ==
  Fn(<<Sub(do_blockdev_getsize64), Opens("fd"),
       Loop(<<Try(<<"pread", "pwrite">>, <<Error, Release("fd")>>)>>),
       TryRelease("fd", <<Error>>)>>)

IsZero == <<Loop(<<Maybe(<<Release("fd"), Ok>>)>>), Try(<<"read">>, <<Error, Release("fd")>>),
            TryRelease("fd", <<Error>>)>>
do_is_zero == Fn(<<Checks(<<"malloc">>), ChrootOpens("fd")>> \o IsZero)
do_is_zero_device == Fn(<<Checks(<<"malloc">>), Opens("fd")>> \o IsZero)

do_zero_free_space ==
  Fn(<<Checks(<<"asprintf">>), Checked(random_name),
       Opens("fd"), Take("zero file"),
       Try(<<"fstatvfs">>, <<Error, Release("fd")>>),
       Loop(<<Either(<<Break>>, <<>>),
              Try(<<"write">>, <<Error, Release("fd"), Release("zero file")>>)>>),
       Release("fd"), Release("zero file"), Checks(<<"unlink">>)>>)

\* Meant to be best effort: the caller goes on whatever happened.
wipe_device_before_mkfs == Fn(<<CallOr(wipefs_has_force_option, <<Ok>>)>>)

-----------------------------------------------------------------------------
(* daemon/btrfs.c *)

btrfs_get_label == Fn(<<Checks(<<"btrfs filesystem label">>), ReadsOutput>>)
btrfs_set_label == Runs("btrfs filesystem label")
do_btrfs_filesystem_resize == Fn(<<Checks(<<"size", "sysroot_path", "btrfs filesystem resize">>)>>)
do_mkfs_btrfs ==
  Fn(<<Checks(<<"nr_devices", "bytecount", "datatype", "leafsize", "metadata", "nodesize",
                "sectorsize">>),
       Loop(<<Ignored(wipe_device_before_mkfs)>>), Checks(<<"mkfs.btrfs">>)>>)
do_btrfs_subvolume_snapshot ==
  Fn(<<Checks(<<"sysroot_path", "sysroot_path", "btrfs subvolume snapshot">>)>>)
do_btrfs_subvolume_delete == OnPath("btrfs subvolume delete")
do_btrfs_subvolume_create == OnPath("btrfs subvolume create")

mount_vfs_nochroot == Fn(<<Checks(<<"asprintf", "mount">>)>>)
mount ==
  Fn(<<Either(<<Checks(<<"sysroot_path">>)>>,
              <<Checks(<<"strdup">>), Opens("tmpdir"),
                Call(mount_vfs_nochroot, <<Release("tmpdir")>>), Take("mount")>>)>>)
umount ==
  Fn(<<IfHeld("mount", <<Checks(<<"umount">>), Release("mount"),
                         Checks(<<"rmdir">>), Release("tmpdir")>>, <<>>)>>)

do_btrfs_subvolume_set_default == OnPath("btrfs subvolume set-default")
do_btrfs_filesystem_sync == OnPath("btrfs filesystem sync")
do_btrfs_filesystem_balance == OnPath("btrfs balance")
test_btrfs_device_add_needs_force == Fn(<<Checks(<<"btrfs device add --help">>), ReadsOutput>>)
do_btrfs_device_add ==
  Fn(<<Maybe(<<Ok>>), Sub(test_btrfs_device_add_needs_force),
       Checks(<<"sysroot_path", "btrfs device add">>)>>)
do_btrfs_device_delete == Fn(<<Maybe(<<Ok>>), Checks(<<"sysroot_path", "btrfs device delete">>)>>)

\* Returns 1, 0 or -1; the callers test for <= 0 and reply.
test_btrfstune_uuid_opt == Runs("btrfstune --help")
do_btrfs_set_seeding == Runs("btrfstune -S")
btrfs_set_uuid ==
  Fn(<<Call(test_btrfstune_uuid_opt, <<Error>>), Checks(<<"NOT_SUPPORTED", "btrfstune -U">>)>>)
btrfs_set_uuid_random ==
  Fn(<<Call(test_btrfstune_uuid_opt, <<Error>>), Checks(<<"NOT_SUPPORTED", "btrfstune -u">>)>>)
do_btrfs_fsck == Fn(<<Checks(<<"superblock", "btrfsck">>)>>)

do_btrfs_subvolume_show ==
  LET pair == <<Sub(add_string), Sub(add_string)>>
  IN  Fn(<<Checks(<<"sysroot_path", "btrfs subvolume show", "is toplevel subvolume",
                    "is not a subvolume">>), ReadsOutput, Checks(<<"analyze_line">>)>>
         \o pair \o
         <<Loop(<<Either(pair, <<Sub(add_string), Loop(<<Try(<<"realloc">>, <<>>)>>),
                                 Sub(add_string_nodup)>>)>>),
           Sub(end_stringsbuf)>>)

MountedRun(program) ==
  Fn(<<Sub(mount), TryOr(<<program>>, <<Error, Ignored(umount), Fail>>), Sub(umount)>>)
do_btrfs_quota_enable == MountedRun("btrfs quota enable")
do_btrfs_quota_rescan == MountedRun("btrfs quota rescan")

do_btrfs_qgroup_limit == OnPath("btrfs qgroup limit")
do_btrfs_qgroup_create == OnPath("btrfs qgroup create")
do_btrfs_qgroup_destroy == OnPath("btrfs qgroup destroy")
test_btrfs_qgroup_show_raw_opt == Fn(<<Maybe(<<Checks(<<"btrfs qgroup show --help">>), ReadsOutput>>)>>)
do_btrfs_qgroup_show ==
  Fn(<<Ignored(test_btrfs_qgroup_show_raw_opt), Checks(<<"sysroot_path", "btrfs qgroup show">>),
       ReadsOutput, Sub(split_lines), Checks(<<"malloc", "calloc">>), Loop(<<Checks(<<"sscanf">>)>>)>>)
do_btrfs_qgroup_assign == OnPath("btrfs qgroup assign")
do_btrfs_qgroup_remove == OnPath("btrfs qgroup remove")
do_btrfs_scrub_start == OnPath("btrfs scrub start")
do_btrfs_scrub_cancel == OnPath("btrfs scrub cancel")
do_btrfs_scrub_resume == OnPath("btrfs scrub resume")
do_btrfs_balance_pause == OnPath("btrfs balance pause")
do_btrfs_balance_cancel == OnPath("btrfs balance cancel")
do_btrfs_balance_resume == OnPath("btrfs balance resume")
do_btrfs_filesystem_defragment ==
  Fn(<<Checks(<<"sysroot_path", "compress", "btrfs filesystem defragment">>)>>)
do_btrfs_rescue_chunk_recover == Runs("btrfs rescue chunk-recover")
do_btrfs_rescue_super_recover == Runs("btrfs rescue super-recover")

do_btrfs_balance_status ==
  Fn(<<Checks(<<"sysroot_path", "btrfs balance status">>), ReadsOutput, Sub(split_lines),
       Checks(<<"nlines", "calloc">>), Maybe(<<Checks(<<"strdup">>), Ok>>),
       Checks(<<"pcre2_match", "status", "nlines", "sscanf">>)>>)
do_btrfs_scrub_status ==
  Fn(<<Checks(<<"sysroot_path", "btrfs scrub status">>), ReadsOutput, Sub(split_lines),
       Checks(<<"count", "calloc">>),
       Loop(<<Maybe(<<Ok>>), Checks(<<"sscanf">>)>>), Checks(<<"i < 17">>)>>)
do_btrfstune_seeding == Runs("btrfstune -S")
do_btrfstune_enable_extended_inode_refs == Runs("btrfstune -r")
do_btrfstune_enable_skinny_metadata_extent_refs == Runs("btrfstune -x")
do_btrfs_image == Fn(<<Checks(<<"nr_sources", "btrfs-image">>)>>)
do_btrfs_replace == OnPath("btrfs replace start")
do_btrfs_filesystem_show ==
  Fn(<<Checks(<<"btrfs filesystem show">>), ReadsOutput, Sub(split_lines), Checks(<<"count">>),
       Loop(<<Either(<<Ignored(add_sprintf)>>, <<Checks(<<"devices missing", "unknown line">>)>>)>>),
       Sub(end_stringsbuf)>>)
test_btrfs_min_dev_size == Fn(<<Maybe(<<Checks(<<"btrfs --help">>), ReadsOutput>>)>>)
btrfs_minimum_size ==
  Fn(<<Sub(test_btrfs_min_dev_size),
       Checks(<<"NOT_SUPPORTED", "sysroot_path", "btrfs inspect-internal">>), ReadsOutput,
       Checks(<<"xstrtol">>)>>)

-----------------------------------------------------------------------------
(* daemon/mount.c *)

\* setmntent, one round per line of /proc/mounts, endmntent.
Mounts(body) == <<OrDies(<<"setmntent">>), Take("mounts"), Loop(body), Release("mounts")>>

is_root_mounted == Fn(Mounts(<<Maybe(<<Release("mounts"), Ok>>)>>))
is_device_mounted == Fn(<<Checks(<<"stat">>)>> \o Mounts(<<Maybe(<<Release("mounts"), Ok>>)>>))
do_umount == Fn(<<Ignored(is_device_parameter), Checks(<<"sysroot_path", "umount">>)>>)
mounts_or_mountpoints ==
  LET add == Call(add_string, <<Release("mounts")>>)
  IN  Fn(Mounts(<<add, Maybe(<<add>>)>>)
         \o <<Sub(end_stringsbuf), Loop(<<Maybe(<<Sub(lv_canonical)>>)>>)>>)
do_mounts == mounts_or_mountpoints
do_mountpoints == mounts_or_mountpoints

\* The sessions hold files of the guest open, and would keep it mounted.
do_umount_all ==
  Fn(<<Ignored(aug_finalize), Ignored(hivex_finalize), Ignored(journal_finalize)>>
     \o Mounts(<<Maybe(<<Call(add_string, <<Release("mounts")>>)>>)>>)
     \o <<Loop(<<Checks(<<"umount">>)>>)>>)
do_mount_loop == Fn(<<Checks(<<"sysroot_path", "sysroot_path", "mount -o loop">>)>>)
do_remount == Fn(<<Checks(<<"rw", "sysroot_path", "mount -o remount">>)>>)
do_mkmountpoint == Fn(<<Checks(<<"ABS_PATH">>), ChrootChecks>>)
do_rmmountpoint == Fn(<<Checks(<<"ABS_PATH">>), ChrootChecks>>)

-----------------------------------------------------------------------------
(* daemon/ntfs.c *)

ntfs_get_label == Fn(<<Checks(<<"ntfslabel">>), ReadsOutput>>)
ntfs_set_label == Runs("ntfslabel")
do_ntfs_3g_probe == Runs("ntfs-3g.probe")
do_ntfsresize == Fn(<<Checks(<<"size", "ntfsresize">>)>>)
do_ntfsresize_size == do_ntfsresize
ntfs_minimum_size ==
  Fn(<<ReadsOutput, Sub(split_lines),
       TryOr(<<"ntfsresize --info">>,
             <<Loop(<<Checks(<<"sscanf", "xstrtol">>)>>),
               Maybe(<<Checks(<<"cluster_size">>), Ok>>), Error, Fail>>),
       Loop(<<Maybe(<<Checks(<<"xstrtol">>), Ok>>)>>), Error, Fail>>)
do_ntfsfix == Runs("ntfsfix")

-----------------------------------------------------------------------------
(* daemon/blkid.c *)

\* A type that cannot be had has been reported, and the label is asked for.
do_vfs_label ==
  Fn(<<CallOr(do_vfs_type, <<Sub(get_blkid_tag), Ok>>),
       Either(<<Sub(btrfs_get_label)>>,
              <<Either(<<Sub(ntfs_get_label)>>, <<Sub(get_blkid_tag)>>)>>)>>)

-----------------------------------------------------------------------------
(* daemon/swap.c *)

do_mkswap ==
  Fn(<<Checks(<<"SWAP_LABEL_MAX">>), Ignored(wipe_device_before_mkfs), Checks(<<"mkswap">>),
       udev_settle>>)
do_mkswap_L == do_mkswap
do_mkswap_U == do_mkswap
do_mkswap_file == OnPath("mkswap")
swaponoff == RunsAndWaits("swapon, swapoff")
do_swapon_device == swaponoff
do_swapoff_device == swaponoff
do_swapon_file == Fn(<<Checks(<<"sysroot_path">>), Sub(swaponoff)>>)
do_swapoff_file == Fn(<<Checks(<<"sysroot_path">>), Sub(swaponoff)>>)
do_swapon_label == Fn(<<Checks(<<"SWAP_LABEL_MAX">>), Sub(swaponoff)>>)
do_swapoff_label == Fn(<<Checks(<<"SWAP_LABEL_MAX">>), Sub(swaponoff)>>)
do_swapon_uuid == swaponoff
do_swapoff_uuid == swaponoff
swap_set_uuid == Runs("swaplabel -U")
swap_set_label == Fn(<<Checks(<<"SWAP_LABEL_MAX", "swaplabel -L">>)>>)

-----------------------------------------------------------------------------
(* daemon/ext2.c *)

do_tune2fs_l ==
  Fn(<<Checks(<<"tune2fs -l">>), ReadsOutput, Checks(<<"truncated output">>),
       Loop(<<Sub(add_string), Sub(add_string)>>), Sub(end_stringsbuf)>>)
do_set_e2label == Fn(<<Checks(<<"EXT2_LABEL_MAX", "e2label">>)>>)
do_get_e2label == do_vfs_label
do_set_e2uuid == Runs("tune2fs -U")
ext_set_uuid_random == do_set_e2uuid
do_get_e2uuid == do_vfs_uuid
do_e2fsck == Fn(<<Checks(<<"correct and forceall", "e2fsck">>)>>)
do_e2fsck_f == do_e2fsck
if_not_mounted_run_e2fsck == Fn(<<Sub(is_device_mounted), Maybe(<<Sub(do_e2fsck)>>)>>)
do_resize2fs == Fn(<<Sub(if_not_mounted_run_e2fsck), Checks(<<"resize2fs">>)>>)
do_resize2fs_size ==
  Fn(<<Checks(<<"size">>), Sub(if_not_mounted_run_e2fsck), Checks(<<"resize2fs">>)>>)
do_resize2fs_M == Fn(<<Sub(if_not_mounted_run_e2fsck), Checks(<<"resize2fs -M">>)>>)
get_block_size ==
  Fn(<<Sub(do_tune2fs_l), Loop(<<Maybe(<<Checks(<<"xstrtol">>), Ok>>)>>), Error, Fail>>)
ext_minimum_size ==
  Fn(<<Checks(<<"resize2fs -P">>), ReadsOutput, Sub(split_lines),
       Loop(<<Maybe(<<Checks(<<"xstrtol">>), Sub(get_block_size), Checks(<<"overflow">>), Ok>>)>>),
       Error, Fail>>)

WipesAndRuns(checks, program) ==
  Fn(<<Checks(checks), Ignored(wipe_device_before_mkfs), Checks(<<program>>)>>)
do_mke2journal == Fn(<<Ignored(wipe_device_before_mkfs), Checks(<<"mke2fs">>)>>)
do_mke2journal_L == WipesAndRuns(<<"EXT2_LABEL_MAX">>, "mke2fs")
do_mke2journal_U == Fn(<<Ignored(wipe_device_before_mkfs), Checks(<<"mke2fs">>)>>)
do_mke2fs_J == WipesAndRuns(<<"fstype_is_extfs", "asprintf">>, "mke2fs")
do_mke2fs_JL == WipesAndRuns(<<"fstype_is_extfs", "EXT2_LABEL_MAX", "asprintf">>, "mke2fs")
do_mke2fs_JU == WipesAndRuns(<<"fstype_is_extfs", "asprintf">>, "mke2fs")
do_tune2fs ==
  Fn(<<Checks(<<"maxmountcount", "mountcount", "errorbehavior", "group", "intervalbetweenchecks",
                "reservedblockspercentage", "reservedblockscount", "user", "tune2fs">>)>>)
do_get_e2attrs == Fn(<<Checks(<<"sysroot_path", "lsattr">>), ReadsOutput>>)
do_set_e2attrs == Fn(<<Maybe(<<Ok>>), Checks(<<"attrs", "duplicate", "sysroot_path", "chattr">>)>>)
do_get_e2generation ==
  Fn(<<Checks(<<"sysroot_path", "lsattr">>), ReadsOutput, Checks(<<"sscanf", "ret < 0">>)>>)
do_set_e2generation == OnPath("chattr -v")

\* The device of the journal is the one parameter that no stub translates.
do_mke2fs ==
  Fn(<<Checks(<<"sizes and counts">>),
       Maybe(<<CallOr(is_device_parameter, <<>>), Ignored(is_root_device),
               Checks(<<"is_root_device">>), Checked(device_name_translation),
               Checks(<<"malloc">>)>>),
       Checks(<<"sizes and counts", "fstype_is_extfs">>),
       Ignored(wipe_device_before_mkfs), Checks(<<"mke2fs">>)>>)
do_mklost_and_found == Fn(<<Checks(<<"asprintf", "system", "exit status">>)>>)

-----------------------------------------------------------------------------
(* daemon/xfs.c *)

split_strdup == Fn(<<Checks(<<"strndup">>)>>)
parse_uint32 == Fn(<<Checks(<<"sscanf">>)>>)
parse_uint64 == Fn(<<Checks(<<"sscanf">>)>>)
parse_xfs_info ==
  Fn(<<Checks(<<"malloc">>),
       Loop(<<Sub(split_strdup), Maybe(<<Either(<<Sub(parse_uint32)>>, <<Sub(parse_uint64)>>)>>)>>),
       Try(<<"strdup">>, <<>>)>>)
do_xfs_info ==
  Fn(<<Ignored(is_device_parameter), Checks(<<"sysroot_path", "xfs_info">>), ReadsOutput,
       Sub(split_lines),
       Sub(parse_xfs_info)>>)
do_xfs_growfs == Fn(<<Checks(<<"sysroot_path", "sizes", "maxpct", "xfs_growfs">>)>>)
do_xfs_admin == Fn(<<Checks(<<"XFS_LABEL_MAX", "xfs_admin">>)>>)
xfs_set_uuid == do_xfs_admin
xfs_set_uuid_random == do_xfs_admin
xfs_set_label == do_xfs_admin
do_xfs_repair ==
  Fn(<<Checks(<<"maxmem", "ihashsize", "bhashsize", "agstride">>), Ignored(is_device_parameter),
       Checks(<<"sysroot_path", "xfs_repair">>)>>)
xfs_minimum_size == Fn(<<Sub(do_xfs_info), Checks(<<"overflow">>)>>)

-----------------------------------------------------------------------------
(* daemon/mkfs.c *)

do_mkfs ==
  Fn(<<Checks(<<"blocksize">>), Maybe(<<Sub(do_blockdev_getss), Checks(<<"sectors_per_cluster">>)>>),
       Checks(<<"blocksize of btrfs", "inode", "sectorsize", "label">>),
       Ignored(wipe_device_before_mkfs), Checks(<<"mkfs">>)>>)
do_mkfs_b == do_mkfs

-----------------------------------------------------------------------------
(* daemon/labels.c *)

\* STREQ (vfs_type, ...) for each type in turn, then NOT_SUPPORTED.
RECURSIVE Dispatch(_)
Dispatch(fs) ==
  IF fs = <<>> THEN <<Error, Fail>> ELSE <<Either(<<Sub(Head(fs)), Ok>>, Dispatch(Tail(fs)))>>

dosfslabel == Runs("dosfslabel")
xfslabel == Fn(<<Checks(<<"---">>), Sub(xfs_set_label)>>)
do_set_label ==
  Fn(<<Sub(do_vfs_type)>>
     \o Dispatch(<<btrfs_set_label, dosfslabel, do_set_e2label, ntfs_set_label, xfslabel,
                   swap_set_label>>))

-----------------------------------------------------------------------------
(* daemon/uuids.c *)

e2uuid == Fn(<<Checks(<<"clear, random, time">>), Sub(do_set_e2uuid)>>)
xfsuuid == Fn(<<Checks(<<"nil, generate">>), Sub(xfs_set_uuid)>>)
do_set_uuid ==
  Fn(<<Sub(get_blkid_tag)>> \o Dispatch(<<e2uuid, xfsuuid, swap_set_uuid, btrfs_set_uuid>>))
do_set_uuid_random ==
  Fn(<<Sub(get_blkid_tag), Sub(get_random_uuid)>>
     \o Dispatch(<<ext_set_uuid_random, xfs_set_uuid_random, swap_set_uuid, btrfs_set_uuid_random>>))

-----------------------------------------------------------------------------
(* daemon/fs-min-size.c *)

get_mount_point ==
  Fn(<<Call(do_mountpoints, <<Error>>), Loop(<<Maybe(<<Checks(<<"strdup">>), Ok>>)>>), Error, Fail>>)
do_vfs_minimum_size ==
  Fn(<<Sub(do_vfs_type)>>
     \o Dispatch(<<ext_minimum_size, ntfs_minimum_size,
                   Fn(<<Sub(get_mount_point), Sub(btrfs_minimum_size)>>),
                   Fn(<<Sub(get_mount_point), Sub(xfs_minimum_size)>>)>>))

-----------------------------------------------------------------------------
(* daemon/f2fs.c *)

do_f2fs_expand == Runs("resize.f2fs")

-----------------------------------------------------------------------------
(* daemon/fsck.c *)

do_fsck == Runs("fsck")

-----------------------------------------------------------------------------
(* daemon/fstrim.c *)

do_fstrim == Fn(<<Checks(<<"offset", "length", "minimumfreeextent", "sysroot_path", "fstrim">>)>>)

-----------------------------------------------------------------------------
(* daemon/scrub.c *)

do_scrub_device == Runs("scrub")
do_scrub_file == Fn(<<Checked(sysroot_realpath), Checks(<<"scrub -r">>)>>)
do_scrub_freespace == OnPath("scrub -X")

-----------------------------------------------------------------------------
(* daemon/zerofree.c *)

do_zerofree == Runs("zerofree")

-----------------------------------------------------------------------------
(* daemon/syslinux.c *)

do_syslinux == Runs("syslinux")
do_extlinux == OnPath("extlinux")

-----------------------------------------------------------------------------
(* daemon/grub.c *)

do_grub_install == Fn(<<Checks(<<"asprintf", "grub-install">>)>>)
==============================================================================
