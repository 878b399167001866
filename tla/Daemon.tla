------------------------------- MODULE Daemon --------------------------------
(***************************************************************************)
(* The handlers of the daemon, as the generated dispatcher calls them: by  *)
(* the kind of reply that the stub of each writes, with the sessions that  *)
(* each works on.  Each is checked against what Calls asks of every call.  *)
(***************************************************************************)
EXTENDS Calls, Filesystems, Files, Appliance

Handlers(kind, sessions, fns) ==
  [n \in DOMAIN fns |-> Entry(kind, fns[n], sessions)]

Plain ==
  Handlers("plain", {},
    [do_internal_feature_available |-> do_internal_feature_available,
     do_available_all_groups |-> do_available_all_groups,
     do_filesystem_available |-> do_filesystem_available,
     do_blockdev_setra |-> do_blockdev_setra, do_blockdev_setro |-> do_blockdev_setro,
     do_blockdev_setrw |-> do_blockdev_setrw, do_blockdev_getro |-> do_blockdev_getro,
     do_blockdev_getss |-> do_blockdev_getss, do_blockdev_getbsz |-> do_blockdev_getbsz,
     do_blockdev_setbsz |-> do_blockdev_setbsz, do_blockdev_getsz |-> do_blockdev_getsz,
     do_blockdev_getsize64 |-> do_blockdev_getsize64,
     do_blockdev_flushbufs |-> do_blockdev_flushbufs,
     do_blockdev_rereadpt |-> do_blockdev_rereadpt, do_vfs_uuid |-> do_vfs_uuid,
     do_blkid |-> do_blkid, do_checksum |-> do_checksum,
     do_checksum_device |-> do_checksum_device, do_ll |-> do_ll, do_llz |-> do_llz,
     do_setcon |-> do_setcon, do_getcon |-> do_getcon,
     do_part_get_parttype |-> do_part_get_parttype,
     do_part_set_gpt_attributes |-> do_part_set_gpt_attributes,
     do_cryptsetup_open |-> do_cryptsetup_open, do_cryptsetup_close |-> do_cryptsetup_close,
     do_luks_open |-> do_luks_open, do_luks_open_ro |-> do_luks_open_ro,
     do_luks_close |-> do_luks_close, do_pvs_full |-> do_pvs_full,
     do_vgs_full |-> do_vgs_full, do_lvs_full |-> do_lvs_full, do_vgs |-> do_vgs,
     do_pvcreate |-> do_pvcreate, do_vgcreate |-> do_vgcreate, do_lvcreate |-> do_lvcreate,
     do_lvcreate_free |-> do_lvcreate_free, do_lvresize |-> do_lvresize,
     do_lvresize_free |-> do_lvresize_free, do_lvm_remove_all |-> do_lvm_remove_all,
     do_lvremove |-> do_lvremove, do_vgremove |-> do_vgremove, do_pvremove |-> do_pvremove,
     do_pvresize |-> do_pvresize, do_pvresize_size |-> do_pvresize_size,
     do_vg_activate |-> do_vg_activate, do_vg_activate_all |-> do_vg_activate_all,
     do_lvrename |-> do_lvrename, do_vgrename |-> do_vgrename, do_pvuuid |-> do_pvuuid,
     do_vguuid |-> do_vguuid, do_lvuuid |-> do_lvuuid, do_vgpvuuids |-> do_vgpvuuids,
     do_vglvuuids |-> do_vglvuuids, do_lvm_scan |-> do_lvm_scan, do_vgscan |-> do_vgscan,
     do_is_lv |-> do_is_lv, do_pvchange_uuid |-> do_pvchange_uuid,
     do_pvchange_uuid_all |-> do_pvchange_uuid_all, do_vgchange_uuid |-> do_vgchange_uuid,
     do_vgchange_uuid_all |-> do_vgchange_uuid_all, do_lvm_set_filter |-> do_lvm_set_filter,
     do_lvm_clear_filter |-> do_lvm_clear_filter, do_md_create |-> do_md_create,
     do_md_stop |-> do_md_stop, do_md_stat |-> do_md_stat, do_part_init |-> do_part_init,
     do_part_add |-> do_part_add, do_part_del |-> do_part_del,
     do_part_resize |-> do_part_resize, do_part_disk |-> do_part_disk,
     do_part_set_bootable |-> do_part_set_bootable, do_part_set_name |-> do_part_set_name,
     do_part_get_bootable |-> do_part_get_bootable, do_part_set_mbr_id |-> do_part_set_mbr_id,
     do_part_set_gpt_type |-> do_part_set_gpt_type,
     do_part_set_gpt_guid |-> do_part_set_gpt_guid, do_part_get_name |-> do_part_get_name,
     do_part_get_disk_guid |-> do_part_get_disk_guid,
     do_part_set_disk_guid |-> do_part_set_disk_guid,
     do_part_set_disk_guid_random |-> do_part_set_disk_guid_random,
     do_part_expand_gpt |-> do_part_expand_gpt,
     do_ldmtool_create_all |-> do_ldmtool_create_all,
     do_ldmtool_remove_all |-> do_ldmtool_remove_all,
     do_ldmtool_scan_devices |-> do_ldmtool_scan_devices, do_ldmtool_scan |-> do_ldmtool_scan,
     do_ldmtool_diskgroup_name |-> do_ldmtool_diskgroup_name,
     do_ldmtool_diskgroup_volumes |-> do_ldmtool_diskgroup_volumes,
     do_ldmtool_volume_type |-> do_ldmtool_volume_type,
     do_ldmtool_volume_hint |-> do_ldmtool_volume_hint, do_luks_format |-> do_luks_format,
     do_luks_format_cipher |-> do_luks_format_cipher, do_luks_add_key |-> do_luks_add_key,
     do_luks_kill_slot |-> do_luks_kill_slot, do_luks_uuid |-> do_luks_uuid,
     do_sfdisk |-> do_sfdisk, do_sfdisk_N |-> do_sfdisk_N, do_sfdiskM |-> do_sfdiskM,
     do_sfdisk_kernel_geometry |-> do_sfdisk_kernel_geometry,
     do_sfdisk_disk_geometry |-> do_sfdisk_disk_geometry,
     do_internal_hot_add_drive |-> do_internal_hot_add_drive,
     do_internal_hot_remove_drive_precheck |-> do_internal_hot_remove_drive_precheck,
     do_internal_hot_remove_drive |-> do_internal_hot_remove_drive,
     do_blkdiscard |-> do_blkdiscard, do_blkdiscardzeroes |-> do_blkdiscardzeroes,
     do_vfs_type |-> do_vfs_type, do_zero |-> do_zero, do_wipefs |-> do_wipefs,
     do_zero_device |-> do_zero_device, do_is_zero |-> do_is_zero,
     do_is_zero_device |-> do_is_zero_device, do_zero_free_space |-> do_zero_free_space,
     do_btrfs_filesystem_resize |-> do_btrfs_filesystem_resize,
     do_mkfs_btrfs |-> do_mkfs_btrfs,
     do_btrfs_subvolume_snapshot |-> do_btrfs_subvolume_snapshot,
     do_btrfs_subvolume_delete |-> do_btrfs_subvolume_delete,
     do_btrfs_subvolume_create |-> do_btrfs_subvolume_create,
     do_btrfs_subvolume_set_default |-> do_btrfs_subvolume_set_default,
     do_btrfs_filesystem_sync |-> do_btrfs_filesystem_sync,
     do_btrfs_filesystem_balance |-> do_btrfs_filesystem_balance,
     do_btrfs_device_add |-> do_btrfs_device_add,
     do_btrfs_device_delete |-> do_btrfs_device_delete,
     do_btrfs_set_seeding |-> do_btrfs_set_seeding, do_btrfs_fsck |-> do_btrfs_fsck,
     do_btrfs_subvolume_show |-> do_btrfs_subvolume_show,
     do_btrfs_quota_enable |-> do_btrfs_quota_enable,
     do_btrfs_quota_rescan |-> do_btrfs_quota_rescan,
     do_btrfs_qgroup_limit |-> do_btrfs_qgroup_limit,
     do_btrfs_qgroup_create |-> do_btrfs_qgroup_create,
     do_btrfs_qgroup_destroy |-> do_btrfs_qgroup_destroy,
     do_btrfs_qgroup_show |-> do_btrfs_qgroup_show,
     do_btrfs_qgroup_assign |-> do_btrfs_qgroup_assign,
     do_btrfs_qgroup_remove |-> do_btrfs_qgroup_remove,
     do_btrfs_scrub_start |-> do_btrfs_scrub_start,
     do_btrfs_scrub_cancel |-> do_btrfs_scrub_cancel,
     do_btrfs_scrub_resume |-> do_btrfs_scrub_resume,
     do_btrfs_balance_pause |-> do_btrfs_balance_pause,
     do_btrfs_balance_cancel |-> do_btrfs_balance_cancel,
     do_btrfs_balance_resume |-> do_btrfs_balance_resume,
     do_btrfs_filesystem_defragment |-> do_btrfs_filesystem_defragment,
     do_btrfs_rescue_chunk_recover |-> do_btrfs_rescue_chunk_recover,
     do_btrfs_rescue_super_recover |-> do_btrfs_rescue_super_recover,
     do_btrfs_balance_status |-> do_btrfs_balance_status,
     do_btrfs_scrub_status |-> do_btrfs_scrub_status,
     do_btrfstune_seeding |-> do_btrfstune_seeding,
     do_btrfstune_enable_extended_inode_refs |-> do_btrfstune_enable_extended_inode_refs,
     do_btrfstune_enable_skinny_metadata_extent_refs |-> do_btrfstune_enable_skinny_metadata_extent_refs,
     do_btrfs_image |-> do_btrfs_image, do_btrfs_replace |-> do_btrfs_replace,
     do_umount |-> do_umount, do_umount_all |-> do_umount_all,
     do_mount_loop |-> do_mount_loop, do_remount |-> do_remount,
     do_mkmountpoint |-> do_mkmountpoint, do_rmmountpoint |-> do_rmmountpoint,
     do_ntfs_3g_probe |-> do_ntfs_3g_probe, do_ntfsresize |-> do_ntfsresize,
     do_ntfsresize_size |-> do_ntfsresize_size, do_ntfsfix |-> do_ntfsfix,
     do_vfs_label |-> do_vfs_label, do_mkswap |-> do_mkswap, do_mkswap_L |-> do_mkswap_L,
     do_mkswap_U |-> do_mkswap_U, do_mkswap_file |-> do_mkswap_file,
     do_swapon_device |-> do_swapon_device, do_swapoff_device |-> do_swapoff_device,
     do_swapon_file |-> do_swapon_file, do_swapoff_file |-> do_swapoff_file,
     do_swapon_label |-> do_swapon_label, do_swapoff_label |-> do_swapoff_label,
     do_swapon_uuid |-> do_swapon_uuid, do_swapoff_uuid |-> do_swapoff_uuid,
     do_tune2fs_l |-> do_tune2fs_l, do_set_e2label |-> do_set_e2label,
     do_get_e2label |-> do_get_e2label, do_set_e2uuid |-> do_set_e2uuid,
     do_get_e2uuid |-> do_get_e2uuid, do_e2fsck |-> do_e2fsck, do_e2fsck_f |-> do_e2fsck_f,
     do_resize2fs |-> do_resize2fs, do_resize2fs_size |-> do_resize2fs_size,
     do_resize2fs_M |-> do_resize2fs_M, do_mke2journal |-> do_mke2journal,
     do_mke2journal_L |-> do_mke2journal_L, do_mke2journal_U |-> do_mke2journal_U,
     do_mke2fs_J |-> do_mke2fs_J, do_mke2fs_JL |-> do_mke2fs_JL,
     do_mke2fs_JU |-> do_mke2fs_JU, do_tune2fs |-> do_tune2fs,
     do_get_e2attrs |-> do_get_e2attrs, do_set_e2attrs |-> do_set_e2attrs,
     do_get_e2generation |-> do_get_e2generation, do_set_e2generation |-> do_set_e2generation,
     do_mke2fs |-> do_mke2fs, do_mklost_and_found |-> do_mklost_and_found,
     do_xfs_info |-> do_xfs_info, do_xfs_growfs |-> do_xfs_growfs,
     do_xfs_admin |-> do_xfs_admin, do_xfs_repair |-> do_xfs_repair, do_mkfs |-> do_mkfs,
     do_mkfs_b |-> do_mkfs_b, do_set_label |-> do_set_label, do_set_uuid |-> do_set_uuid,
     do_set_uuid_random |-> do_set_uuid_random, do_vfs_minimum_size |-> do_vfs_minimum_size,
     do_f2fs_expand |-> do_f2fs_expand, do_fsck |-> do_fsck, do_fstrim |-> do_fstrim,
     do_scrub_device |-> do_scrub_device, do_scrub_file |-> do_scrub_file,
     do_scrub_freespace |-> do_scrub_freespace, do_zerofree |-> do_zerofree,
     do_syslinux |-> do_syslinux, do_extlinux |-> do_extlinux,
     do_grub_install |-> do_grub_install, do_getxattrs |-> do_getxattrs,
     do_lgetxattrs |-> do_lgetxattrs, do_setxattr |-> do_setxattr,
     do_lsetxattr |-> do_lsetxattr, do_removexattr |-> do_removexattr,
     do_lremovexattr |-> do_lremovexattr, do_internal_lxattrlist |-> do_internal_lxattrlist,
     do_touch |-> do_touch, do_rm |-> do_rm, do_rm_f |-> do_rm_f, do_chmod |-> do_chmod,
     do_chown |-> do_chown, do_lchown |-> do_lchown, do_write_file |-> do_write_file,
     do_internal_write |-> do_internal_write,
     do_internal_write_append |-> do_internal_write_append, do_pwrite |-> do_pwrite,
     do_pwrite_device |-> do_pwrite_device, do_zfile |-> do_zfile,
     do_filesize |-> do_filesize, do_copy_attributes |-> do_copy_attributes,
     do_rmdir |-> do_rmdir, do_rm_rf |-> do_rm_rf, do_mkdir |-> do_mkdir,
     do_mkdir_mode |-> do_mkdir_mode, do_mkdir_p |-> do_mkdir_p, do_statns |-> do_statns,
     do_lstatns |-> do_lstatns, do_internal_lstatnslist |-> do_internal_lstatnslist,
     do_internal_readlinklist |-> do_internal_readlinklist, do_ln |-> do_ln,
     do_ln_f |-> do_ln_f, do_ln_s |-> do_ln_s, do_ln_sf |-> do_ln_sf, do_mknod |-> do_mknod,
     do_mkfifo |-> do_mkfifo, do_mknod_b |-> do_mknod_b, do_mknod_c |-> do_mknod_c,
     do_mkdtemp |-> do_mkdtemp, do_mktemp |-> do_mktemp, do_readdir |-> do_readdir,
     do_rename |-> do_rename, do_glob_expand |-> do_glob_expand, do_grep |-> do_grep,
     do_egrep |-> do_egrep, do_fgrep |-> do_fgrep, do_grepi |-> do_grepi,
     do_egrepi |-> do_egrepi, do_fgrepi |-> do_fgrepi, do_zgrep |-> do_zgrep,
     do_zegrep |-> do_zegrep, do_zfgrep |-> do_zfgrep, do_zgrepi |-> do_zgrepi,
     do_zegrepi |-> do_zegrepi, do_zfgrepi |-> do_zfgrepi, do_head |-> do_head,
     do_tail |-> do_tail, do_head_n |-> do_head_n, do_tail_n |-> do_tail_n,
     do_strings_e |-> do_strings_e, do_strings |-> do_strings, do_wc_l |-> do_wc_l,
     do_wc_w |-> do_wc_w, do_wc_c |-> do_wc_c, do_hexdump |-> do_hexdump, do_du |-> do_du,
     do_df |-> do_df, do_df_h |-> do_df_h, do_exists |-> do_exists,
     do_is_chardev |-> do_is_chardev, do_is_blockdev |-> do_is_blockdev,
     do_is_fifo |-> do_is_fifo, do_is_socket |-> do_is_socket, do_utimens |-> do_utimens,
     do_umask |-> do_umask, do_get_umask |-> do_get_umask, do_initrd_list |-> do_initrd_list,
     do_fill |-> do_fill, do_fill_pattern |-> do_fill_pattern, do_fill_dir |-> do_fill_dir,
     do_fallocate64 |-> do_fallocate64, do_fallocate |-> do_fallocate,
     do_truncate_size |-> do_truncate_size, do_truncate |-> do_truncate,
     do_acl_get_file |-> do_acl_get_file, do_acl_set_file |-> do_acl_set_file,
     do_acl_delete_def_file |-> do_acl_delete_def_file, do_cap_get_file |-> do_cap_get_file,
     do_cap_set_file |-> do_cap_set_file, do_equal |-> do_equal, do_cp |-> do_cp,
     do_cp_a |-> do_cp_a, do_cp_r |-> do_cp_r, do_mv |-> do_mv, do_dd |-> do_dd,
     do_copy_size |-> do_copy_size, do_copy_device_to_device |-> do_copy_device_to_device,
     do_copy_device_to_file |-> do_copy_device_to_file,
     do_copy_file_to_device |-> do_copy_file_to_device,
     do_copy_file_to_file |-> do_copy_file_to_file, do_command |-> do_command,
     do_command_lines |-> do_command_lines, do_sh |-> do_sh, do_sh_lines |-> do_sh_lines,
     do_rsync |-> do_rsync, do_rsync_in |-> do_rsync_in, do_rsync_out |-> do_rsync_out,
     do_list_9p |-> do_list_9p, do_mount_9p |-> do_mount_9p,
     do_internal_parse_mountable |-> do_internal_parse_mountable, do_sync |-> do_sync,
     do_drop_caches |-> do_drop_caches, do_selinux_relabel |-> do_selinux_relabel,
     do_utsname |-> do_utsname, do_dmesg |-> do_dmesg, do_echo_daemon |-> do_echo_daemon,
     do_ping_daemon |-> do_ping_daemon, do_sleep |-> do_sleep, do_modprobe |-> do_modprobe,
     do_internal_autosync |-> do_internal_autosync(do_umount_all),
     do_internal_exit |-> do_internal_exit])

PlainAug ==
  Handlers("plain", {"aug"},
    [do_aug_init |-> do_aug_init, do_aug_close |-> do_aug_close,
     do_aug_defvar |-> do_aug_defvar, do_aug_defnode |-> do_aug_defnode,
     do_aug_get |-> do_aug_get, do_aug_set |-> do_aug_set, do_aug_clear |-> do_aug_clear,
     do_aug_insert |-> do_aug_insert, do_aug_rm |-> do_aug_rm, do_aug_mv |-> do_aug_mv,
     do_aug_match |-> do_aug_match, do_aug_save |-> do_aug_save, do_aug_load |-> do_aug_load,
     do_aug_ls |-> do_aug_ls, do_aug_setm |-> do_aug_setm, do_aug_label |-> do_aug_label,
     do_aug_transform |-> do_aug_transform])

PlainBmap ==
  Handlers("plain", {"bmap fd", "bmap dir"},
    [do_debug |-> do_debug])

PlainHivex ==
  Handlers("plain", {"hivex"},
    [do_hivex_open |-> do_hivex_open, do_hivex_close |-> do_hivex_close,
     do_hivex_root |-> do_hivex_root, do_hivex_node_name |-> do_hivex_node_name,
     do_hivex_node_children |-> do_hivex_node_children,
     do_hivex_node_get_child |-> do_hivex_node_get_child,
     do_hivex_node_parent |-> do_hivex_node_parent,
     do_hivex_node_values |-> do_hivex_node_values,
     do_hivex_node_get_value |-> do_hivex_node_get_value,
     do_hivex_value_key |-> do_hivex_value_key, do_hivex_value_type |-> do_hivex_value_type,
     do_hivex_value_string |-> do_hivex_value_string,
     do_hivex_value_utf8 |-> do_hivex_value_utf8, do_hivex_commit |-> do_hivex_commit,
     do_hivex_node_add_child |-> do_hivex_node_add_child,
     do_hivex_node_delete_child |-> do_hivex_node_delete_child,
     do_hivex_node_set_value |-> do_hivex_node_set_value])

PlainInotify ==
  Handlers("plain", {"inotify"},
    [do_inotify_close |-> do_inotify_close, do_inotify_init |-> do_inotify_init,
     do_inotify_add_watch |-> do_inotify_add_watch,
     do_inotify_rm_watch |-> do_inotify_rm_watch, do_inotify_read |-> do_inotify_read,
     do_inotify_files |-> do_inotify_files])

PlainJournal ==
  Handlers("plain", {"journal"},
    [do_journal_open |-> do_journal_open, do_journal_close |-> do_journal_close,
     do_journal_next |-> do_journal_next, do_journal_skip |-> do_journal_skip,
     do_journal_get_data_threshold |-> do_journal_get_data_threshold,
     do_journal_set_data_threshold |-> do_journal_set_data_threshold,
     do_journal_get_realtime_usec |-> do_journal_get_realtime_usec])

PlainYara ==
  Handlers("plain", {"yara rules"},
    [do_yara_destroy |-> do_yara_destroy])

Device ==
  Handlers("device", {},
    [do_lvs |-> do_lvs, do_pvs |-> do_pvs,
     do_lvm_canonical_lv_name |-> do_lvm_canonical_lv_name,
     do_ldmtool_diskgroup_disks |-> do_ldmtool_diskgroup_disks,
     do_ldmtool_volume_partitions |-> do_ldmtool_volume_partitions,
     do_sfdisk_l |-> do_sfdisk_l, do_list_disk_labels |-> do_list_disk_labels,
     do_btrfs_filesystem_show |-> do_btrfs_filesystem_show, do_mounts |-> do_mounts,
     do_mountpoints |-> do_mountpoints])

BufferOut ==
  Handlers("bufferout", {},
    [do_vgmeta |-> do_vgmeta, do_getxattr |-> do_getxattr, do_lgetxattr |-> do_lgetxattr,
     do_pread |-> do_pread, do_pread_device |-> do_pread_device,
     do_initrd_cat |-> do_initrd_cat])

BufferOutHivex ==
  Handlers("bufferout", {"hivex"},
    [do_hivex_value_value |-> do_hivex_value_value])

FileIn ==
  Handlers("filein", {},
    [do_upload |-> do_upload, do_upload_offset |-> do_upload_offset, do_tar_in |-> do_tar_in,
     do_tgz_in |-> do_tgz_in, do_txz_in |-> do_txz_in, do_base64_in |-> do_base64_in,
     do_ntfsclone_in |-> do_ntfsclone_in])

FileInBmap ==
  Handlers("filein", {"bmap fd", "bmap dir"},
    [do_debug_upload |-> do_debug_upload, do_internal_upload |-> do_internal_upload,
     do_internal_rhbz914931 |-> do_internal_rhbz914931])

FileInYara ==
  Handlers("filein", {"yara rules"},
    [do_yara_load |-> do_yara_load])

FileOut ==
  Handlers("fileout", {},
    [do_download |-> do_download, do_download_offset |-> do_download_offset,
     do_tar_out |-> do_tar_out, do_tgz_out |-> do_tgz_out, do_txz_out |-> do_txz_out,
     do_base64_out |-> do_base64_out, do_checksums_out |-> do_checksums_out,
     do_compress_out |-> do_compress_out, do_compress_device_out |-> do_compress_device_out,
     do_cpio_out |-> do_cpio_out, do_find0 |-> do_find0, do_ls0 |-> do_ls0,
     do_mksquashfs |-> do_mksquashfs, do_ntfsclone_out |-> do_ntfsclone_out,
     do_ntfscat_i |-> do_ntfscat_i, do_download_inode |-> do_download_inode,
     do_download_blocks |-> do_download_blocks,
     do_internal_filesystem_walk |-> do_internal_filesystem_walk,
     do_internal_find_inode |-> do_internal_find_inode])

FileOutJournal ==
  Handlers("fileout", {"journal"},
    [do_internal_journal_get |-> do_internal_journal_get])

FileOutYara ==
  Handlers("fileout", {"yara rules"},
    [do_internal_yara_scan |-> do_internal_yara_scan])

Alike(kind, fn, names) == [n \in names |-> Entry(kind, fn, {})]

WrittenInOCaml ==
  Alike("plain", CamlErr,
    {"do_inspect_get_major_version", "do_inspect_get_minor_version", "do_inspect_is_live",
     "do_inspect_is_netinst", "do_inspect_is_multipart", "do_mount", "do_is_file", "do_is_dir",
     "do_mount_ro", "do_mount_options", "do_mount_vfs", "do_part_get_mbr_id", "do_is_symlink",
     "do_part_to_partnum", "do_nr_devices", "do_part_get_gpt_attributes", "do_is_whole_device",
     "do_btrfs_subvolume_get_default"}) @@
  Alike("device", CamlMountableList,
    {"do_inspect_os", "do_inspect_get_roots", "do_inspect_get_filesystems"}) @@
  Alike("plain", CamlString,
    {"do_inspect_get_type", "do_inspect_get_arch", "do_inspect_get_distro",
     "do_inspect_get_product_name", "do_inspect_get_windows_systemroot",
     "do_inspect_get_package_format", "do_inspect_get_package_management",
     "do_inspect_get_hostname", "do_inspect_get_product_variant",
     "do_inspect_get_windows_current_control_set", "do_inspect_get_windows_software_hive",
     "do_inspect_get_windows_system_hive", "do_inspect_get_format", "do_file",
     "do_realpath", "do_readlink", "do_case_sensitive_path", "do_part_get_gpt_type",
     "do_part_get_gpt_guid", "do_part_get_mbr_part_type", "do_file_architecture"}) @@
  Alike("device", CamlMountpoints,
    {"do_inspect_get_mountpoints"}) @@
  Alike("device", CamlStrings,
    {"do_inspect_get_drive_mappings"}) @@
  Alike("plain", CamlStructList,
    {"do_internal_list_rpm_applications", "do_part_list", "do_btrfs_subvolume_list"}) @@
  Alike("device", CamlStringList,
    {"do_list_devices", "do_list_partitions", "do_list_dm_devices", "do_list_md_devices",
     "do_list_ldm_volumes", "do_list_ldm_partitions"}) @@
  Alike("plain", CamlStruct,
    {"do_statvfs", "do_isoinfo_device", "do_isoinfo"}) @@
  Alike("device", CamlString,
    {"do_findfs_uuid", "do_findfs_label", "do_part_to_dev"}) @@
  Alike("plain", CamlStrings,
    {"do_md_detail"}) @@
  Alike("device", CamlMountables,
    {"do_list_filesystems"})

Started == [main |-> Entry("program", main, {})]

DaemonEntries ==
  Plain @@ PlainAug @@ PlainBmap @@ PlainHivex @@ PlainInotify @@ PlainJournal @@ PlainYara @@
  Device @@ BufferOut @@ BufferOutHivex @@ FileIn @@ FileInBmap @@ FileInYara @@ FileOut @@ FileOutJournal @@ FileOutYara @@ WrittenInOCaml @@ Started
Handles == {"aug", "hivex", "journal", "inotify", "yara rules", "bmap fd", "bmap dir"}
==============================================================================
