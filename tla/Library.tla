------------------------------- MODULE Library -------------------------------
(***************************************************************************)
(* The functions of the API that the library implements itself, by name    *)
(* as in guestfs_impl_NAME, with launch once for every backend, and what   *)
(* guestfs_close calls to remove the directories of the handle.            *)
(***************************************************************************)
EXTENDS LibraryLaunch

LibraryFunctions ==
  [add_cdrom |-> add_cdrom, add_domain |-> add_domain, add_drive_opts |-> add_drive_opts,
   add_drive_ro |-> add_drive_ro, add_drive_ro_with_if |-> add_drive_ro_with_if,
   add_drive_scratch |-> add_drive_scratch, add_drive_with_if |-> add_drive_with_if,
   add_libvirt_dom |-> add_libvirt_dom, available |-> available,
   canonical_device_name |-> canonical_device_name, cat |-> cat,
   clear_backend_setting |-> clear_backend_setting, config |-> config,
   copy_in |-> copy_in, copy_out |-> copy_out, device_index |-> device_index,
   disk_create |-> disk_create, disk_format |-> disk_format,
   disk_has_backing_file |-> disk_has_backing_file, disk_virtual_size |-> disk_virtual_size,
   feature_available |-> feature_available, filesystem_walk |-> filesystem_walk,
   find |-> find, find_inode |-> find_inode, get_backend_setting |-> get_backend_setting,
   get_libvirt_requested_credential_challenge |-> get_libvirt_requested_credential_challenge,
   get_libvirt_requested_credential_defresult |-> get_libvirt_requested_credential_defresult,
   get_libvirt_requested_credential_prompt |-> get_libvirt_requested_credential_prompt,
   get_libvirt_requested_credentials |-> get_libvirt_requested_credentials,
   get_pid |-> get_pid, inspect_get_icon |-> inspect_get_icon,
   inspect_get_osinfo |-> inspect_get_osinfo,
   inspect_list_applications |-> inspect_list_applications,
   inspect_list_applications2 |-> inspect_list_applications2,
   internal_get_console_socket |-> internal_get_console_socket, journal_get |-> journal_get,
   launch_direct |-> launch(launch_direct), launch_libvirt |-> launch(launch_libvirt),
   launch_uml |-> launch(launch_uml), launch_unix |-> launch(launch_unix),
   ls |-> ls, lstat |-> lstat, lstatlist |-> lstatlist, lstatnslist |-> lstatnslist,
   lxattrlist |-> lxattrlist, max_disks |-> max_disks, mountable_device |-> mountable_device,
   mountable_subvolume |-> mountable_subvolume, parse_environment |-> parse_environment,
   parse_environment_list |-> parse_environment_list, read_file |-> read_file,
   read_lines |-> read_lines, readlinklist |-> readlinklist, remove_drive |-> remove_drive,
   remove_sockdir |-> remove_sockdir, remove_tmpdir |-> remove_tmpdir,
   set_backend |-> set_backend, set_backend_setting |-> set_backend_setting,
   set_backend_settings |-> set_backend_settings, set_cachedir |-> set_cachedir,
   set_identifier |-> set_identifier,
   set_libvirt_requested_credential |-> set_libvirt_requested_credential,
   set_libvirt_supported_credentials |-> set_libvirt_supported_credentials,
   set_memsize |-> set_memsize, set_smp |-> set_smp, set_tmpdir |-> set_tmpdir,
   stat |-> stat, wait_ready |-> wait_ready, write |-> write, write_append |-> write_append,
   yara_scan |-> yara_scan]

SharedFunctions ==
  [disk_create |-> disk_create, disk_format |-> disk_format, create_overlay |-> create_overlay,
   create_drive_non_file |-> create_drive_non_file, add_drive_opts |-> add_drive_opts,
   build_appliance |-> build_appliance, appliance_command_line |-> appliance_command_line,
   construct_libvirt_xml_disk |-> construct_libvirt_xml_disk]
==============================================================================
