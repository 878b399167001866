---------------------------- MODULE LibraryLaunch ----------------------------
(***************************************************************************)
(* The calls of the library that configure a handle, add its drives and    *)
(* prepare its appliance.  The sockets and processes of a launch, and the  *)
(* labels that undo it, are in Launch; here a launch is the functions that *)
(* it calls on the way, and what each of them reports.                     *)
(***************************************************************************)
EXTENDS LibraryCalls

\* A loop over items, in whose body Break is "continue".
ForEach(body) == Loop(<<Loop(body \o <<Break>>)>>)

-----------------------------------------------------------------------------
(* lib/handle.c *)

set_memsize == Fn(<<Checks(<<"memsize">>)>>)
set_smp == Fn(<<Checks(<<"v > 255", "v < 1">>)>>)
set_identifier == Fn(<<Checks(<<"disallowed characters">>)>>)
set_backend == Fn(<<Checks(<<"g->state", "guestfs_int_set_backend">>)>>)
get_backend_setting == Fn(<<Checks(<<"ESRCH">>)>>)
clear_backend_setting == Fn(<<>>)
set_backend_settings == Fn(<<>>)
set_backend_setting == Fn(<<Sub(clear_backend_setting)>>)

\* A setting that is no boolean is an error that nobody reports.
get_backend_setting_bool ==
  Fn(<<Silently(<<Try(<<"guestfs_int_is_true">>, <<>>)>>, <<Ok>>)>>)

parse_environment ==
  Fn(<<Checks(<<"LIBGUESTFS_TRACE", "LIBGUESTFS_DEBUG">>),
       Sub(set_tmpdir), Sub(set_cachedir), Sub(set_env_tmpdir),
       Maybe(<<Checks(<<"LIBGUESTFS_MEMSIZE">>), Sub(set_memsize)>>),
       Maybe(<<Sub(set_backend)>>),
       Maybe(<<Checks(<<"split_string">>), Sub(set_backend_settings)>>),
       Sub(set_env_runtimedir)>>)
parse_environment_list == parse_environment

-----------------------------------------------------------------------------
(* lib/qemu.c *)

read_cache_qemu_stat(run_the_test) ==
  <<Maybe(run_the_test), Opens("fp"), Release("fp"), Maybe(run_the_test)>>
write_cache_qemu_stat == Scoped({"fp"}, <<Opens("fp"), Checks(<<"fprintf">>)>>)

generic_read_cache(run_the_test) == <<Maybe(run_the_test), Sub(guestfs_int_read_whole_file)>>
generic_write_cache == Scoped({"fd"}, <<Opens("fd"), Checks(<<"full_write">>)>>)

test_qemu_help == Scoped(struct_command, RunsAndTests(CapturedAndRead))
test_qemu_devices == Scoped(struct_command, RunsAndTests(ReadOnly))

(***************************************************************************)
(* A stream that fdopen does not make of the pipe leaves the pipe open.    *)
(* Output that is not understood is no failure; the stream is the last     *)
(* variable declared and so is closed before guestfs_int_cmd_close waits.  *)
(***************************************************************************)
generic_qmp_test ==
  LET talk == Scoped({"pipe"},
                <<Loop(<<Maybe(<<Ok>>)>>), Ignored(cmd_pipe_wait)>>)
  IN  Scoped(struct_command, <<Sub(cmd_pipe_run), Checks(<<"fdopen">>), Sub(talk)>>)
test_qmp_schema == generic_qmp_test
test_query_kvm == generic_qmp_test

test_qemu ==
  LET do_test == <<Sub(test_qemu_help), Sub(test_qemu_devices), Sub(test_qmp_schema),
                   Sub(test_query_kvm), Loop(<<Sub(generic_write_cache)>>),
                   Sub(write_cache_qemu_stat), Ok>>
  IN  Fn(<<Checks(<<"stat">>), Sub(lazy_make_supermin_appliance_dir)>>
         \o read_cache_qemu_stat(do_test) \o <<Maybe(do_test)>>
         \o <<Loop(generic_read_cache(do_test))>>)

drive_source_qemu_param == Fn(<<Checks(<<"realpath">>)>>)

\* A protocol without discard is reported, and discard said to be possible.
discard_possible ==
  Fn(<<Checks(<<"qemu15", "overlay", "format", "qemu16">>), Maybe(<<Error>>)>>)

-----------------------------------------------------------------------------
(* lib/appliance.c *)

run_supermin_build == Scoped(struct_command, RunsAndTests(Captured))
build_supermin_appliance ==
  Fn(<<Sub(lazy_make_supermin_appliance_dir), Sub(run_supermin_build)>>)
\* 1, -1, or 0: this directory has none of the three kinds of appliance.
locate_or_build_appliance(none) ==
  Either(<<Sub(build_supermin_appliance), Ok>>, <<Either(<<Ok>>, none)>>)
search_appliance == Fn(<<Loop(<<locate_or_build_appliance(<<>>)>>), Error, Fail>>)
build_appliance == Fn(<<Sub(search_appliance)>>)

-----------------------------------------------------------------------------
(* lib/appliance-kcmdline.c *)

get_root_uuid_with_file ==
  Fn(<<Opens("fd"),
       Try(<<"lseek", "read", "magic", "lseek", "read">>, <<Error, Release("fd")>>),
       Release("fd")>>)
run_qemu_img_dd ==
  Scoped(struct_command, <<Checked(cmd_run(Captured)), Checks(<<"exit status">>)>>)
\* What the first attempt has reported stays recorded when the second succeeds.
get_root_uuid ==
  LET from_qcow2 == <<Sub(make_temp_path), Take("tmpfile"), Sub(run_qemu_img_dd),
                      Checked(get_root_uuid_with_file)>>
  IN  Scoped({"tmpfile"}, <<CallOr(get_root_uuid_with_file, from_qcow2)>>)
appliance_command_line ==
  Fn(<<Maybe(<<Ignored(get_lpj)>>), Maybe(<<Sub(get_root_uuid)>>)>>)

-----------------------------------------------------------------------------
(* lib/appliance-uefi.c *)

\* A copy that exits with a bad status is a failure that nobody reports.
get_uefi ==
  Scoped(struct_command,
    <<Maybe(<<Ok>>), Sub(make_temp_path), Sub(cmd_run(Captured)), Try(<<"exit status">>, <<>>)>>)

-----------------------------------------------------------------------------
(* lib/launch.c *)

create_socketname == Fn(<<Sub(lazy_make_sockdir), Checks(<<"sockpath too long">>)>>)

-----------------------------------------------------------------------------
(* lib/drives.c *)

add_dummy_appliance_drive == Fn(<<>>)

-----------------------------------------------------------------------------
(* lib/launch-direct.c *)

create_cow_overlay_direct ==
  Fn(<<Sub(drive_source_qemu_param), Sub(make_temp_path), Sub(ByName("disk_create"))>>)

\* The file parameter is used whether or not there is one.
add_drive_standard_params ==
  Fn(<<Maybe(<<Ignored(drive_source_qemu_param),
               Maybe(<<Sub(discard_possible)>>)>>),
       Checks(<<"qemuopts">>)>>)
add_device_blocksize_params == Fn(<<Checks(<<"qemuopts">>)>>)
add_drive_direct ==
  Fn(<<Sub(add_drive_standard_params),
       Either(<<Checks(<<"'ide' interface", "qemuopts">>)>>,
              <<Checks(<<"qemuopts">>), Sub(add_device_blocksize_params)>>)>>)
add_drives == Fn(<<Loop(<<Sub(add_drive_direct)>>)>>)

launch_direct ==
  Fn(<<Checks(<<"g->nr_drives">>),
       Sub(ByName("build_appliance")),
       Maybe(<<Sub(test_qemu)>>),
       Sub(get_backend_setting_bool), Sub(get_backend_setting_bool),
       Checks(<<"force_tcg && force_kvm", "force_kvm && !has_kvm">>),
       Sub(create_socketname),
       Checks(<<"socket", "bind", "listen", "socketpair", "qemuopts">>),
       Ignored(get_backend_setting_bool),
       Checks(<<"qemuopts">>),
       Sub(get_uefi),
       Checks(<<"UEFI_FLAG_SECURE_BOOT_REQUIRED", "qemuopts">>),
       Sub(add_drives),
       Checks(<<"qemuopts">>),
       Ignored(ByName("appliance_command_line")),
       Checks(<<"qemuopts", "fork", "guestfs_int_new_conn_socket_listening",
                "accept_connection", "recv_from_daemon", "state != READY">>),
       Maybe(<<Sub(add_dummy_appliance_drive)>>)>>)
get_pid_direct == Fn(<<Checks(<<"no qemu subprocess">>)>>)

-----------------------------------------------------------------------------
(* lib/launch-uml.c *)

make_cow_overlay == Scoped(struct_command, <<Sub(make_temp_path)>> \o RunsAndTests(Captured))
create_cow_overlay_uml == Fn(<<Sub(make_cow_overlay)>>)
uml_supported ==
  Fn(<<Checks(<<"enable_network", "smp">>),
       Loop(<<Checks(<<"protocol", "format", "iface", "label", "discard", "blocksize">>)>>)>>)
launch_uml ==
  Fn(<<Sub(uml_supported), Checks(<<"g->nr_drives", "guestfs_int_random_string">>),
       Sub(ByName("build_appliance")), Maybe(<<Sub(make_cow_overlay)>>),
       Checks(<<"socketpair", "socketpair">>),
       Checks(<<"fork", "guestfs_int_new_conn_socket_connected", "recv_from_daemon",
                "state != READY">>),
       Maybe(<<Sub(add_dummy_appliance_drive)>>)>>)
get_pid_uml == Fn(<<Checks(<<"no vmlinux subprocess">>)>>)

-----------------------------------------------------------------------------
(* lib/launch-unix.c *)

launch_unix ==
  Fn(<<Checks(<<"qemu_params", "path too long", "socket", "connect",
                "guestfs_int_new_conn_socket_connected", "recv_from_daemon",
                "state != READY">>)>>)

-----------------------------------------------------------------------------
(* lib/launch-libvirt.c *)

get_source_format_or_autodetect ==
  Fn(<<Maybe(<<Ok>>), Maybe(<<Sub(ByName("disk_format")), Checks(<<"unknown">>), Ok>>), Error, Fail>>)
make_qcow2_overlay == Fn(<<Sub(make_temp_path), Sub(ByName("disk_create"))>>)
create_cow_overlay_libvirt ==
  Fn(<<Sub(drive_source_qemu_param), Sub(get_source_format_or_autodetect),
       Sub(make_qcow2_overlay),
       guestfs_push_error_handler, Ignored(get_backend_setting), guestfs_pop_error_handler>>)

parse_capabilities ==
  Fn(<<Checks(<<"xmlReadMemory", "xmlXPathNewContext", "xmlXPathEvalExpression">>),
       Sub(get_backend_setting_bool), Checks(<<"seen_kvm">>),
       Sub(get_backend_setting_bool), Checks(<<"force_kvm && force_tcg">>)>>)
parse_domcapabilities ==
  Fn(<<Checks(<<"xmlReadMemory", "xmlXPathNewContext", "xmlXPathEvalExpression">>)>>)

\* The SELinux label of the sockets this thread creates.
set_socket_create_context == Maybe(<<Take("socket context")>>)
clear_socket_create_context == IfHeld("socket context", <<Release("socket context")>>, <<>>)

debug_permissions == Scoped(struct_command, <<Ignored(cmd_run(CapturedAndRead))>>)
debug_appliance_permissions == debug_permissions
debug_socket_permissions == debug_permissions

\* The macros start_element, attribute, string, single_element, end_element.
element == Checks(<<"xmlTextWriter">>)

construct_libvirt_xml_name == Fn(<<element>>)
construct_libvirt_xml_cpu == Fn(<<element>>)
\* A command line that could not be made leaves its element empty.
construct_libvirt_xml_boot == Fn(<<Ignored(ByName("appliance_command_line")), element>>)
construct_libvirt_xml_seclabel == Fn(<<Maybe(<<element>>)>>)
construct_libvirt_xml_lifecycle == Fn(<<element>>)
construct_libvirt_xml_disk_target == Fn(<<element>>)
construct_libvirt_xml_disk_address == Fn(<<element>>)
construct_libvirt_xml_disk_blockio == Fn(<<Maybe(<<element>>)>>)
construct_libvirt_xml_disk_source_seclabel == Fn(<<Maybe(<<element>>)>>)
construct_libvirt_xml_disk_source_hosts == Fn(<<Loop(<<Checks(<<"realpath">>), element>>)>>)
construct_libvirt_xml_disk_driver_qemu(enable) ==
  Fn(<<Maybe(enable), element>>)

construct_libvirt_xml_disk ==
  LET seclabel == Sub(construct_libvirt_xml_disk_source_seclabel)
      overlay == <<element, seclabel, Sub(construct_libvirt_xml_disk_target),
                   Sub(construct_libvirt_xml_disk_driver_qemu(<<>>))>>
      file == <<Checks(<<"realpath">>), element, seclabel>>
      network == <<element, Sub(construct_libvirt_xml_disk_source_hosts), seclabel,
                   Maybe(<<element>>)>>
      curl == <<Error, Fail>>
      writable == <<Either(file, <<Either(network, curl)>>),
                    Sub(construct_libvirt_xml_disk_target),
                    Sub(get_source_format_or_autodetect),
                    Sub(construct_libvirt_xml_disk_driver_qemu(<<Sub(discard_possible)>>))>>
  IN  Fn(<<Checks(<<"iface">>), element, Either(overlay, writable),
           Maybe(<<element>>), Sub(construct_libvirt_xml_disk_address),
           Sub(construct_libvirt_xml_disk_blockio)>>)
construct_libvirt_xml_appliance ==
  Fn(<<element, Sub(construct_libvirt_xml_disk_driver_qemu(<<>>)),
       Sub(construct_libvirt_xml_disk_address)>>)
construct_libvirt_xml_devices ==
  Fn(<<element, Loop(<<Sub(ByName("construct_libvirt_xml_disk"))>>),
       Maybe(<<Sub(construct_libvirt_xml_appliance)>>), element>>)
construct_libvirt_xml_qemu_cmdline == Fn(<<element>>)
construct_libvirt_xml_domain ==
  Fn(<<element, Sub(construct_libvirt_xml_name), Sub(construct_libvirt_xml_cpu),
       Sub(construct_libvirt_xml_boot), Sub(construct_libvirt_xml_seclabel),
       Sub(construct_libvirt_xml_lifecycle), Sub(construct_libvirt_xml_devices),
       Sub(construct_libvirt_xml_qemu_cmdline)>>)

\* The buffer and the writer around one document.
Document(contents) ==
  Fn(<<Checks(<<"xmlBufferCreate", "xmlNewTextWriter", "xmlTextWriterStartDocument">>),
       Sub(contents), Checks(<<"xmlTextWriterEndDocument", "xmlBufferDetach">>)>>)
construct_libvirt_xml == Document(construct_libvirt_xml_domain)
construct_libvirt_xml_hot_add_disk == Document(construct_libvirt_xml_disk)
construct_libvirt_xml_secret == Fn(<<element>>)

add_secret ==
  Scoped({"secret"},
    <<Maybe(<<Ok>>), Sub(Document(construct_libvirt_xml_secret)), Opens("secret"),
      Checks(<<"base64_decode_alloc", "virSecretSetValue", "virSecretGetUUIDString">>)>>)

hot_add_drive_libvirt ==
  Fn(<<Checks(<<"conn", "dom">>), Sub(add_secret), Sub(construct_libvirt_xml_hot_add_disk),
       Checks(<<"virDomainAttachDeviceFlags">>)>>)
hot_remove_drive_libvirt ==
  Fn(<<Checks(<<"conn", "dom">>), Sub(construct_libvirt_xml_hot_add_disk),
       Checks(<<"virDomainDetachDeviceFlags">>)>>)

\* Every failure after the connection goes through the label "cleanup".
launch_libvirt ==
  LET sock == Checks(<<"socket", "bind", "listen">>)
      appliance ==
        Fn(<<Checks(<<"guestfs_int_open_libvirt_connection", "virConnectGetCapabilities">>),
             Sub(parse_capabilities), Checks(<<"virConnectGetDomainCapabilities">>),
             Sub(parse_domcapabilities),
             Sub(get_uefi), Checks(<<"UEFI_FLAG_SECURE_BOOT_REQUIRED">>),
             guestfs_push_error_handler, Ignored(get_backend_setting),
             Ignored(get_backend_setting), Ignored(get_backend_setting),
             guestfs_pop_error_handler,
             Sub(ByName("build_appliance")), Maybe(<<Sub(make_qcow2_overlay)>>),
             Sub(create_socketname), set_socket_create_context, sock,
             Sub(create_socketname), sock, clear_socket_create_context,
             Maybe(<<Checks(<<"chmod", "chmod", "chown", "chown">>)>>),
             Loop(<<Sub(add_secret)>>), Sub(construct_libvirt_xml),
             Maybe(<<Sub(debug_appliance_permissions), Sub(debug_socket_permissions)>>),
             Checks(<<"virDomainCreateXML", "accept", "close",
                      "guestfs_int_new_conn_socket_listening", "accept_connection",
                      "recv_from_daemon", "state != READY">>),
             Maybe(<<Sub(add_dummy_appliance_drive)>>)>>)
  IN  Fn(<<Checks(<<"direct_mode", "libvirt version", "guestfs_int_random_string">>),
           Call(appliance, <<clear_socket_create_context>>)>>)

-----------------------------------------------------------------------------
(* lib/launch.c *)

max_disks == Fn(<<Checks(<<"max_disks == NULL">>)>>)
get_pid ==
  Fn(<<Checks(<<"g->state", "get_pid == NULL">>), Either(<<Sub(get_pid_direct)>>, <<Sub(get_pid_uml)>>)>>)
wait_ready == Fn(<<Checks(<<"g->state">>)>>)
config == Fn(<<Checks(<<"hv_param">>)>>)
launch(backend) ==
  Fn(<<Checks(<<"g->state">>),
       guestfs_push_error_handler, Ignored(max_disks), guestfs_pop_error_handler,
       Checks(<<"g->nr_drives">>), Sub(lazy_make_tmpdir),
       Maybe(<<Ignored(getumask)>>),
       Sub(backend)>>)

-----------------------------------------------------------------------------
(* lib/drives.c *)

create_overlay ==
  Fn(<<Checks(<<"create_cow_overlay == NULL">>)>>
     \o OneOf(<<create_cow_overlay_direct, create_cow_overlay_uml, create_cow_overlay_libvirt>>))
create_drive_file == Fn(<<Maybe(<<Sub(ByName("create_overlay"))>>)>>)
create_drive_non_file == Fn(<<Maybe(<<Sub(ByName("create_overlay"))>>)>>)
create_drive_curl ==
  Fn(<<Checks(<<"servers", "transport", "pathname">>), Sub(ByName("create_drive_non_file"))>>)
create_drive_gluster ==
  Fn(<<Checks(<<"username", "secret", "servers", "volume">>), Sub(ByName("create_drive_non_file"))>>)
create_drive_nbd ==
  Fn(<<Checks(<<"username", "secret", "servers">>), Sub(ByName("create_drive_non_file"))>>)
create_drive_rbd ==
  Fn(<<Checks(<<"transport", "port", "image">>), Sub(ByName("create_drive_non_file"))>>)
create_drive_sheepdog ==
  Fn(<<Checks(<<"username", "secret", "transport", "port", "volume">>),
       Sub(ByName("create_drive_non_file"))>>)
create_drive_ssh ==
  Fn(<<Checks(<<"servers", "transport", "pathname", "username">>), Sub(ByName("create_drive_non_file"))>>)
create_drive_iscsi ==
  Fn(<<Checks(<<"servers", "transport", "target">>), Sub(ByName("create_drive_non_file"))>>)
create_drive_dev_null ==
  Fn(<<Checks(<<"format">>), Sub(make_temp_path), Sub(ByName("disk_create")), Sub(create_drive_file)>>)

parse_one_server == Fn(<<Checks(<<"socket path", "port", "hostname">>)>>)
parse_servers == Fn(<<Loop(<<Sub(parse_one_server)>>)>>)

add_drive_opts ==
  LET file == <<Checks(<<"servers", "username", "secret">>),
                Either(<<Sub(create_drive_dev_null)>>,
                       <<Checks(<<"access">>), Sub(create_drive_file)>>)>>
      network == OneOf(<<create_drive_curl, create_drive_gluster, create_drive_nbd,
                         create_drive_rbd, create_drive_sheepdog, create_drive_ssh,
                         create_drive_iscsi>>)
      hotplug == <<Checks(<<"hot_add_drive == NULL", "label">>), Sub(hot_add_drive_libvirt),
                   Checks(<<"guestfs_internal_hot_add_drive">>)>>
  IN  Fn(<<Maybe(<<Sub(parse_servers)>>),
           Checks(<<"discard", "readonly", "format", "iface", "label", "cachemode", "blocksize">>),
           Either(file, <<Checks(<<"protocol">>)>> \o network),
           Maybe(hotplug)>>)
add_drive_ro == Fn(<<Sub(ByName("add_drive_opts"))>>)
add_drive_with_if == Fn(<<Sub(ByName("add_drive_opts"))>>)
add_drive_ro_with_if == Fn(<<Sub(ByName("add_drive_opts"))>>)
add_drive_scratch == Fn(<<Sub(make_temp_path), Sub(ByName("disk_create")), Sub(ByName("add_drive_opts"))>>)
add_cdrom == Fn(<<Sub(add_drive_ro)>>)

remove_drive ==
  Fn(<<Checks(<<"label">>),
       Maybe(<<Checks(<<"hot_remove_drive == NULL",
                        "guestfs_internal_hot_remove_drive_precheck">>),
               Sub(hot_remove_drive_libvirt),
               Checks(<<"guestfs_internal_hot_remove_drive">>)>>)>>)
device_index == Fn(<<Checks(<<"guestfs_int_drive_index">>)>>)

-----------------------------------------------------------------------------
(* lib/libvirt-auth.c *)

set_libvirt_supported_credentials == Fn(<<Loop(<<Checks(<<"credtype", "too long">>)>>)>>)
CHECK_IN_EVENT_HANDLER == Checks(<<"requested_credentials == NULL">>)
get_libvirt_requested_credentials == Fn(<<CHECK_IN_EVENT_HANDLER>>)
get_libvirt_requested_credential_prompt == Fn(<<CHECK_IN_EVENT_HANDLER, Checks(<<"index">>)>>)
get_libvirt_requested_credential_challenge == Fn(<<CHECK_IN_EVENT_HANDLER, Checks(<<"index">>)>>)
get_libvirt_requested_credential_defresult == Fn(<<CHECK_IN_EVENT_HANDLER, Checks(<<"index">>)>>)
set_libvirt_requested_credential == Fn(<<CHECK_IN_EVENT_HANDLER, Checks(<<"index">>)>>)

\* The connection, or NULL, of which only libvirt knows the reason.
open_libvirt_connection == Fn(<<TryTake("conn", <<>>)>>)

-----------------------------------------------------------------------------
(* lib/libvirt-domain.c *)

get_domain_xml == Fn(<<Checks(<<"virDomainGetXMLDesc", "xmlReadMemory">>)>>)

\* A volume that is no file has no name, and nobody says so.
filename_from_pool ==
  LET free_pool == <<Release("pool")>>
      free_both == <<Release("vol"), Release("pool")>>
  IN  Fn(<<TryTake("pool", <<Error>>), TryTake("vol", <<Error>> \o free_pool),
           Try(<<"virStorageVolGetInfo">>, <<Error>> \o free_both),
           Try(<<"VIR_STORAGE_VOL_FILE">>, free_both),
           Try(<<"virStorageVolGetPath">>, <<Error>> \o free_both)>> \o free_both)

libvirt_selinux_label ==
  Fn(<<Checks(<<"xmlXPathNewContext", "xmlXPathEvalExpression">>), Maybe(<<Ok>>),
       Checks(<<"XML_ELEMENT_NODE">>)>>)

add_disk == Fn(<<Maybe(<<Ok>>), Checks(<<"readonlydisk">>), Sub(ByName("add_drive_opts"))>>)

\* The secret of a disk, by UUID or usage; a disk without it is left out.
Secret(skip) ==
  <<TryOr(<<"auth/secret">>, skip), Either(<<Take("sec")>>, <<Error>> \o skip),
    TryOr(<<"virSecretGetValue">>, <<Error, Release("sec")>> \o skip), Release("sec"),
    Checks(<<"base64_encode_alloc">>)>>

for_each_disk ==
  LET skip == <<Break>>
      network == <<Maybe(Secret(skip)), TryOr(<<"source/host">>, skip), Checks(<<"asprintf">>)>>
      volume == <<TryOr(<<"source/@pool">>, skip), CallOr(filename_from_pool, skip)>>
  IN  Fn(<<Checks(<<"xmlXPathNewContext", "xmlXPathEvalExpression">>),
           ForEach(<<TryOr(<<"@type">>, skip),
                     Either(network, <<Maybe(volume)>>), Sub(add_disk)>>),
           Checks(<<"nr_added">>)>>)

connect_live ==
  Fn(<<Sub(get_domain_xml), Checks(<<"xmlXPathNewContext", "xmlXPathEvalExpression", "path">>),
       Sub(set_backend)>>)

checkpoint_drives == Take("checkpoint")
rollback_drives == Release("checkpoint")

add_libvirt_dom ==
  Fn(<<Checks(<<"readonlydisk", "live && readonly">>),
       Maybe(<<Checks(<<"virDomainGetInfo">>),
               Maybe(<<Maybe(<<Sub(connect_live), Ok>>), Error, Fail>>)>>),
       Sub(get_domain_xml), Sub(libvirt_selinux_label),
       Either(<<Ignored(set_backend_setting)>>, <<Ignored(clear_backend_setting)>>),
       checkpoint_drives, Call(for_each_disk, <<rollback_drives>>),
       HandedOver("checkpoint")>>)

add_domain ==
  LET close == <<Release("conn")>>
      free_dom == <<Release("dom")>> \o close
  IN  Fn(<<Checks(<<"live && readonly">>), Checked(open_libvirt_connection),
           TryTake("dom", <<Error>> \o close),
           Call(add_libvirt_dom, free_dom)>> \o free_dom)
==============================================================================
