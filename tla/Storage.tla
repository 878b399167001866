------------------------------- MODULE Storage -------------------------------
(***************************************************************************)
(* The handlers for what is between disks and filesystems: partitions,     *)
(* logical volumes, RAID, Windows dynamic disks, LUKS.  What they add and  *)
(* remove appears under /dev when udev gets round to it, so a handler that *)
(* changes the device nodes waits for udev before it replies; or the next  *)
(* request may name a node that is not there yet, or still is.             *)
(***************************************************************************)
EXTENDS DaemonUtils

-----------------------------------------------------------------------------
(* daemon/lvm.c *)

\* daemon/lvm.ml, daemon/parted.ml and daemon/cryptsetup.ml.
do_lvs == CamlStringList
do_part_get_parttype == CamlString
do_part_set_gpt_attributes == Caml(<<Nodes, udev_settle>>)
do_cryptsetup_open == Caml(<<Nodes, udev_settle>>)
do_cryptsetup_close == Caml(<<Nodes, udev_settle>>)
do_luks_open == do_cryptsetup_open
do_luks_open_ro == do_cryptsetup_open
do_luks_close == do_cryptsetup_close

convert_lvm_output == Fn(<<Loop(<<Sub(add_string)>>), Sub(end_stringsbuf)>>)
do_pvs == Fn(<<Checks(<<"lvm pvs">>), Sub(convert_lvm_output)>>)
do_vgs == Fn(<<Checks(<<"lvm vgs">>), Sub(convert_lvm_output)>>)
parse_command_line ==
  Fn(<<Checks(<<"malloc", "lvm">>), Loop(<<Checks(<<"realloc", "lvm_tokenize">>)>>)>>)
do_pvs_full == parse_command_line
do_vgs_full == parse_command_line
do_lvs_full == parse_command_line
do_pvcreate == RunsAndWaits("lvm pvcreate")
do_vgcreate == Fn(<<Checks(<<"malloc", "lvm vgcreate">>), udev_settle>>)
do_lvcreate == RunsAndSettles("lvm lvcreate")
do_lvcreate_free == Fn(<<Checks(<<"percent", "lvm lvcreate">>), Nodes, udev_settle>>)
ignore_same_size_error == Maybe(<<Ok>>)
do_lvresize == Fn(<<TryOr(<<"lvm lvresize">>, <<ignore_same_size_error, Error, Fail>>)>>)
do_lvresize_free ==
  Fn(<<Checks(<<"percent">>), TryOr(<<"lvm lvresize">>, <<ignore_same_size_error, Error, Fail>>)>>)
do_lvm_remove_all ==
  Fn(<<Sub(do_lvs), Loop(<<Nodes, udev_settle, Checks(<<"lvm lvremove">>), Nodes>>),
       Sub(do_vgs), Loop(<<Nodes, udev_settle, Checks(<<"lvm vgremove">>), Nodes>>),
       Sub(do_pvs), Loop(<<Checks(<<"lvm pvremove">>)>>), udev_settle>>)
do_lvremove == RunsAndSettles("lvm lvremove")
do_vgremove == RunsAndSettles("lvm vgremove")
do_pvremove == RunsAndWaits("lvm pvremove")
do_pvresize == Runs("lvm pvresize")
do_pvresize_size == Runs("lvm pvresize")
do_vg_activate == Fn(<<Checks(<<"malloc", "lvm vgchange -a">>), Nodes, udev_settle>>)
do_vg_activate_all == do_vg_activate
do_lvrename == RunsAndSettles("lvm lvrename")
do_vgrename == RunsAndSettles("lvm vgrename")
get_lvm_field == Fn(<<Checks(<<"lvm">>), ReadsOutput>>)
do_pvuuid == get_lvm_field
do_vguuid == get_lvm_field
do_lvuuid == get_lvm_field
get_lvm_fields == Fn(<<Checks(<<"lvm">>), ReadsOutput, Sub(split_lines)>>)
do_vgpvuuids == get_lvm_fields
do_vglvuuids == get_lvm_fields
\* With "activate", pvscan makes the nodes of the logical volumes it finds.
do_lvm_scan == Fn(<<Either(<<Checks(<<"lvm pvscan --activate">>), Nodes>>,
                           <<Checks(<<"lvm pvscan">>)>>)>>)
do_vgscan == Runs("lvm pvscan")
lv_canonical ==
  Fn(<<Checks(<<"stat">>), Sub(do_lvs), Loop(<<Checks(<<"stat", "strdup">>)>>)>>)
do_is_lv == Fn(<<Maybe(<<Ok>>), Sub(lv_canonical)>>)
do_lvm_canonical_lv_name ==
  Fn(<<Checks(<<"STRPREFIX">>), Sub(lv_canonical), Checks(<<"r == 0">>)>>)
do_vgmeta ==
  Fn(<<Opens("fd"), Take("vgmeta file"), Release("fd"),
       Checks(<<"lvm vgcfgbackup">>), Opens("fd"),
       Loop(<<Try(<<"alloc > max", "realloc", "read">>, <<Error, Release("fd")>>)>>),
       TryRelease("fd", <<Error>>), Release("vgmeta file"), Take("size_r")>>)
do_pvchange_uuid == RunsAndWaits("lvm pvchange")
do_pvchange_uuid_all == RunsAndWaits("lvm pvchange")
do_vgchange_uuid == RunsAndWaits("lvm vgchange")
do_vgchange_uuid_all == RunsAndWaits("lvm vgchange")

-----------------------------------------------------------------------------
(* daemon/lvm-filter.c *)

set_filter == Fn(<<Checks(<<"asprintf">>), Opens("fp"), Release("fp")>>)
vgchange == Fn(<<Checks(<<"lvm vgchange">>), Nodes>>)
deactivate == vgchange
reactivate == vgchange
rescan == Runs("lvm vgscan --cache")
make_filter_strings ==
  Fn(<<Loop(<<Sub(add_sprintf), Maybe(<<Sub(add_sprintf)>>)>>), Sub(add_string),
       Sub(end_stringsbuf)>>)
do_lvm_set_filter ==
  Fn(<<Sub(make_filter_strings), Sub(deactivate), Sub(set_filter), Sub(rescan), Sub(reactivate)>>)
do_lvm_clear_filter == Fn(<<Sub(deactivate), Sub(set_filter), Sub(rescan), Sub(reactivate)>>)

-----------------------------------------------------------------------------
(* daemon/md.c *)

guestfs_int_daemon_is_raid_device == Fn(<<Maybe(<<Take("fd"), Release("fd")>>)>>)
MdArguments == <<"spare", "nrdevices", "level", "chunk", "devices + missing">>
\* Mutant: does not wait for udev.
do_md_create_unsettled == Fn(<<Checks(MdArguments), Checks(<<"mdadm --create">>), Nodes>>)
do_md_create ==
  Fn(<<Checks(MdArguments), Checks(<<"mdadm --create">>), Nodes, udev_settle>>)
do_md_stop == Fn(<<Checks(<<"mdadm --stop">>), Nodes>>)
parse_md_stat_line ==
  Fn(<<Checks(<<"malloc", "calloc">>),
       Loop(<<Maybe(<<Checks(<<"p == line", "asprintf", "sscanf", "malloc">>)>>)>>)>>)
do_md_stat ==
  Fn(<<Opens("fp"), Loop(<<Maybe(<<Call(parse_md_stat_line, <<Release("fp")>>), Break>>)>>),
       TryRelease("fp", <<Error>>), Checks(<<"MD device not found">>)>>)

-----------------------------------------------------------------------------
(* daemon/parted.c *)

check_parttype == Fn(<<Try(<<"unknown partition type">>, <<>>)>>)
PartedSettled(checks) ==
  Fn(<<Checks(checks), udev_settle, Checks(<<"parted">>), Nodes, udev_settle>>)
do_part_init ==
  Fn(<<Checked(check_parttype), udev_settle, Checks(<<"parted mklabel">>), Nodes, udev_settle>>)
do_part_add == PartedSettled(<<"prlogex", "startsect">>)
do_part_del == PartedSettled(<<"partnum">>)
do_part_resize == PartedSettled(<<"partnum">>)
do_part_disk ==
  Fn(<<Checked(check_parttype), udev_settle, Checks(<<"parted mklabel mkpart">>), Nodes,
       udev_settle>>)
do_part_set_bootable == PartedSettled(<<"partnum">>)
do_part_set_name == PartedSettled(<<"partnum">>)
get_table_field == Fn(<<Checks(<<"fields", "strndup">>)>>)
print_partition_table ==
  Fn(<<udev_settle, udev_settle, Checks(<<"parted print">>), ReturnsOutput>>)
PartitionRow ==
  <<Sub(print_partition_table), Sub(split_lines), Checks(<<"BYT;", "lines[1]">>),
    Loop(<<Checks(<<"sscanf">>)>>), Checks(<<"partition not found">>)>>
do_part_get_bootable ==
  Fn(<<Checks(<<"partnum">>)>> \o PartitionRow \o <<Sub(get_table_field)>>)
test_sfdisk_has_part_type == Fn(<<Maybe(<<Checks(<<"sfdisk --help">>), ReadsOutput>>)>>)
do_part_set_mbr_id ==
  Fn(<<Checks(<<"partnum">>), Ignored(test_sfdisk_has_part_type), udev_settle,
       Checks(<<"sfdisk">>), Nodes, udev_settle>>)
do_part_set_gpt_type == Fn(<<Checks(<<"partnum", "asprintf", "sgdisk -t">>), Nodes>>)
do_part_set_gpt_guid == Fn(<<Checks(<<"partnum", "asprintf", "sgdisk -u">>), Nodes>>)
do_part_get_name ==
  Fn(<<Sub(do_part_get_parttype), Checks(<<"gpt">>)>> \o PartitionRow
     \o <<Call(get_table_field, <<Error>>)>>)
extract_uuid == Fn(<<Checks(<<"malloc">>)>>)
do_part_get_disk_guid ==
  Fn(<<Checks(<<"sgdisk -p">>), Call(split_lines, <<Error>>),
       Maybe(<<Sub(extract_uuid), Ok>>), Error, Fail>>)
do_part_set_disk_guid == Fn(<<Checks(<<"sgdisk -U">>), Nodes>>)
do_part_set_disk_guid_random == Fn(<<Checks(<<"sgdisk -U R">>), Nodes>>)
do_part_expand_gpt == Fn(<<Checks(<<"sgdisk -e">>), Nodes>>)

-----------------------------------------------------------------------------
(* daemon/ldm.c *)

do_ldmtool_create_all == Fn(<<Checks(<<"ldmtool create all">>), Nodes>>)
do_ldmtool_remove_all == Fn(<<Checks(<<"ldmtool remove all">>), Nodes>>)
parse_json == Fn(<<Checks(<<"json_loads">>)>>)
\* A third way to return, TYPE_ERROR, is not an error reported; the callers are.
json_value_to_string_list == Fn(<<Loop(<<Sub(add_string)>>), Sub(end_stringsbuf)>>)
parse_json_get_string_list ==
  Fn(<<Sub(parse_json), Either(<<Sub(json_value_to_string_list)>>, <<Error, Fail>>)>>)
parse_json_get_object_string == Fn(<<Sub(parse_json), Checks(<<"bad_type", "strdup">>)>>)
parse_json_get_object_string_list ==
  Fn(<<Sub(parse_json), Checks(<<"bad_type">>), Sub(json_value_to_string_list)>>)
do_ldmtool_scan_devices ==
  Fn(<<Checks(<<"malloc", "ldmtool scan">>), Sub(parse_json_get_string_list)>>)
do_ldmtool_scan == do_ldmtool_scan_devices
do_ldmtool_diskgroup_name ==
  Fn(<<Checks(<<"ldmtool show diskgroup">>), Sub(parse_json_get_object_string)>>)
do_ldmtool_diskgroup_volumes ==
  Fn(<<Checks(<<"ldmtool show diskgroup">>), Sub(parse_json_get_object_string_list)>>)
do_ldmtool_diskgroup_disks ==
  Fn(<<Checks(<<"ldmtool show diskgroup">>), Sub(parse_json_get_object_string_list)>>)
do_ldmtool_volume_type ==
  Fn(<<Checks(<<"ldmtool show volume">>), Sub(parse_json_get_object_string)>>)
do_ldmtool_volume_hint ==
  Fn(<<Checks(<<"ldmtool show volume">>), Sub(parse_json_get_object_string)>>)
do_ldmtool_volume_partitions ==
  Fn(<<Checks(<<"ldmtool show volume">>), Sub(parse_json_get_object_string_list)>>)

-----------------------------------------------------------------------------
(* daemon/luks.c *)

write_key_to_temp(r) ==
  Fn(<<Checks(<<"strdup">>), Opens("key fd"), Take(r),
       Try(<<"xwrite">>, <<Error, Release("key fd"), Release(r)>>),
       TryRelease("key fd", <<Error, Release(r)>>)>>)
remove_temp(r) == Release(r)
luks_format ==
  Fn(<<Sub(write_key_to_temp("tempfile")),
       Try(<<"cryptsetup luksFormat">>, <<remove_temp("tempfile"), Error>>),
       remove_temp("tempfile"), udev_settle>>)
do_luks_format == luks_format
do_luks_format_cipher == luks_format
do_luks_add_key ==
  LET removed == <<remove_temp("keyfile"), remove_temp("newkeyfile")>>
  IN  Fn(<<Sub(write_key_to_temp("keyfile")),
           Call(write_key_to_temp("newkeyfile"), <<remove_temp("keyfile")>>),
           Try(<<"cryptsetup luksAddKey">>, removed \o <<Error>>)>> \o removed)
do_luks_kill_slot ==
  Fn(<<Sub(write_key_to_temp("tempfile")),
       Try(<<"cryptsetup luksKillSlot">>, <<remove_temp("tempfile"), Error>>),
       remove_temp("tempfile")>>)
do_luks_uuid == Fn(<<Checks(<<"cryptsetup luksUUID">>), ReadsOutput>>)

-----------------------------------------------------------------------------
(* daemon/sfdisk.c *)

sfdisk ==
  Fn(<<Checks(<<"extra_flag", "device">>), Opens("fp"),
       Loop(<<Try(<<"fprintf">>, <<Error, Release("fp")>>)>>),
       TryRelease("fp", <<Error>>), Nodes, udev_settle>>)
do_sfdisk == sfdisk
do_sfdisk_N == sfdisk
do_sfdiskM == sfdisk
sfdisk_flag == Fn(<<Checks(<<"sfdisk">>), udev_settle, ReturnsOutput>>)
do_sfdisk_l == sfdisk_flag
do_sfdisk_kernel_geometry == sfdisk_flag
do_sfdisk_disk_geometry == sfdisk_flag

-----------------------------------------------------------------------------
(* daemon/devsparts.c *)

do_list_disk_labels ==
  LET error == <<Release("dir"), Fail>>
  IN  Fn(<<Maybe(<<Sub(empty_list), Ok>>), Opens("dir"),
           Loop(<<TryOr(<<"asprintf", "realpath">>, <<Error>> \o error),
                  CallOr(add_string, error), CallOr(add_string_nodup, error)>>),
           TryOr(<<"readdir">>, <<Error>> \o error),
           TryRelease("dir", <<Error>>), Sub(end_stringsbuf)>>)

-----------------------------------------------------------------------------
(* daemon/hotplug.c *)

hotplug_error == Error
do_internal_hot_add_drive ==
  Fn(<<Checks(<<"asprintf">>), Nodes,
       Loop(<<udev_settle, Checks(<<"access">>), Maybe(<<Ok>>)>>), hotplug_error, Fail>>)
do_internal_hot_remove_drive_precheck ==
  Fn(<<udev_settle, Checks(<<"asprintf", "fuser", "r == 0">>)>>)
do_internal_hot_remove_drive ==
  Fn(<<Checks(<<"asprintf">>), Nodes,
       Loop(<<udev_settle, Checks(<<"access">>), Maybe(<<Ok>>)>>), hotplug_error, Fail>>)

-----------------------------------------------------------------------------
(* daemon/blkdiscard.c *)

do_blkdiscard ==
  Fn(<<Sub(do_blockdev_getsize64), Opens("fd"), Try(<<"BLKDISCARD">>, <<Error, Release("fd")>>),
       Release("fd")>>)
do_blkdiscardzeroes ==
  Fn(<<Opens("fd"), Try(<<"BLKDISCARDZEROES">>, <<Error, Release("fd")>>), Release("fd")>>)
==============================================================================
