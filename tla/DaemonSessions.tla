--------------------------- MODULE DaemonSessions ----------------------------
(***************************************************************************)
(* The handlers that share a handle kept in a static variable between the  *)
(* requests: Augeas, hivex, the journal, inotify, and the file that the    *)
(* block-map debugging command reads.                                      *)
(***************************************************************************)
EXTENDS DaemonUtils

\* NEED_AUG, NEED_HANDLE, NEED_INOTIFY: the handle has to be open.
Need(handle) == IfHeld(handle, <<>>, <<Error, Fail>>)
\* The handle of an earlier request is closed first.
CloseOld(handle) == IfHeld(handle, <<Release(handle)>>, <<>>)
\* A handler that asks the library behind the handle one question.
Asks(handle, what) == Fn(<<Need(handle), Checks(what)>>)

-----------------------------------------------------------------------------
(* daemon/augeas.c *)

aug_read_version == Scoped({"ah"}, <<Maybe(<<Ok>>), TryTake("ah", <<>>),
                                     Try(<<"aug_error", "aug_get", "sscanf">>, <<>>)>>)
aug_finalize == Fn(<<CloseOld("aug")>>)
do_aug_init ==
  Fn(<<CloseOld("aug"), Checks(<<"sysroot_path">>), Opens("aug"),
       Try(<<"aug_error">>, <<Error, Release("aug")>>)>>)
do_aug_close == Fn(<<Need("aug"), Release("aug")>>)
do_aug_defvar == Asks("aug", <<"aug_defvar">>)
do_aug_defnode == Asks("aug", <<"aug_defnode", "malloc">>)
do_aug_get == Asks("aug", <<"aug_get", "strdup">>)
do_aug_set == Asks("aug", <<"aug_set">>)
do_aug_clear == Asks("aug", <<"aug_set">>)
do_aug_insert == Asks("aug", <<"aug_insert">>)
do_aug_rm == Asks("aug", <<"aug_rm">>)
do_aug_mv == Asks("aug", <<"aug_mv">>)
do_aug_match == Asks("aug", <<"aug_match", "realloc">>)
do_aug_save == Asks("aug", <<"aug_save">>)
do_aug_load == Asks("aug", <<"aug_load">>)
do_aug_ls == Fn(<<Need("aug"), Checks(<<"path">>), Maybe(<<Checks(<<"asprintf">>)>>), Sub(do_aug_match)>>)
do_aug_setm == Asks("aug", <<"aug_setm">>)
do_aug_label == Asks("aug", <<"aug_label", "strdup">>)
do_aug_transform == Asks("aug", <<"aug_transform">>)

-----------------------------------------------------------------------------
(* daemon/hivex.c *)

hivex_finalize == Fn(<<CloseOld("hivex")>>)
do_hivex_open == Fn(<<CloseOld("hivex"), Checks(<<"sysroot_path">>), Opens("hivex")>>)
do_hivex_close == Fn(<<Need("hivex"), Release("hivex")>>)
do_hivex_root == Asks("hivex", <<"hivex_root">>)
do_hivex_node_name == Asks("hivex", <<"hivex_node_name">>)
do_hivex_node_children == Asks("hivex", <<"hivex_node_children", "malloc">>)
do_hivex_node_get_child == Asks("hivex", <<"hivex_node_get_child">>)
do_hivex_node_parent == Asks("hivex", <<"hivex_node_parent">>)
do_hivex_node_values == Asks("hivex", <<"hivex_node_values", "malloc">>)
do_hivex_node_get_value == Asks("hivex", <<"hivex_node_get_value">>)
do_hivex_value_key == Asks("hivex", <<"hivex_value_key">>)
do_hivex_value_type == Asks("hivex", <<"hivex_value_type">>)
do_hivex_value_value == Fn(<<Need("hivex"), Checks(<<"hivex_value_value">>), Take("size_r")>>)
do_hivex_value_string == Asks("hivex", <<"hivex_value_string">>)
do_hivex_value_utf8 == do_hivex_value_string
do_hivex_commit ==
  Fn(<<Need("hivex"), Maybe(<<Checks(<<"ABS_PATH", "NEED_ROOT", "sysroot_path">>)>>),
       Checks(<<"hivex_commit">>)>>)
do_hivex_node_add_child == Asks("hivex", <<"hivex_node_add_child">>)
do_hivex_node_delete_child == Asks("hivex", <<"hivex_node_delete_child">>)
do_hivex_node_set_value == Asks("hivex", <<"hivex_node_set_value">>)

-----------------------------------------------------------------------------
(* daemon/journal.c *)

journal_finalize == Fn(<<CloseOld("journal")>>)
do_journal_open == Fn(<<CloseOld("journal"), Checks(<<"sysroot_path">>), Opens("journal")>>)
do_journal_close == Fn(<<Need("journal"), Release("journal")>>)
do_journal_next == Asks("journal", <<"sd_journal_next">>)
do_journal_skip == Fn(<<Need("journal"), Maybe(<<Ok>>), Checks(<<"sd_journal_skip">>)>>)
\* The length is 8 bytes; a field can be longer than GUESTFS_MAX_CHUNK_SIZE.
do_internal_journal_get ==
  Fn(<<Need("journal"), reply,
       Loop(<<send_file_write(<<>>), send_file_write_unbounded(<<>>)>>),
       Try(<<"sd_journal_enumerate_data">>, <<send_file_end(<<>>)>>),
       send_file_end(<<Fail>>)>>)
do_journal_get_data_threshold == Asks("journal", <<"sd_journal_get_data_threshold">>)
do_journal_set_data_threshold == Asks("journal", <<"sd_journal_set_data_threshold">>)
do_journal_get_realtime_usec == Asks("journal", <<"sd_journal_get_realtime_usec">>)

-----------------------------------------------------------------------------
(* daemon/inotify.c *)

\* When close fails the number stays in inotify_fd.
do_inotify_close ==
  Fn(<<Need("inotify"), Checks(<<"close">>), Release("inotify")>>)
do_inotify_init ==
  Fn(<<Checks(<<"NEED_ROOT", "max_events">>),
       Maybe(<<Opens("mqe"), Release("mqe")>>),
       IfHeld("inotify", <<Sub(do_inotify_close)>>, <<>>),
       Opens("inotify")>>)
do_inotify_add_watch ==
  Asks("inotify", <<"sysroot_path", "inotify_add_watch">>)
do_inotify_rm_watch == Asks("inotify", <<"inotify_rm_watch">>)
do_inotify_read ==
  Fn(<<Need("inotify"), Checks(<<"malloc">>),
       Loop(<<Maybe(<<Break>>),
              Checks(<<"read", "end of file">>),
              Loop(<<Maybe(<<Break>>), Checks(<<"event->len", "realloc", "strdup">>)>>)>>)>>)
do_inotify_files ==
  LET error == <<IfHeld("fp", <<Release("fp")>>, <<>>), Release("tempfile"), Fail>>
  IN  Fn(<<Need("inotify"), Opens("fd"), Take("tempfile"),
           TryTake("sort", <<Error>>),
           Loop(<<CallOr(do_inotify_read, <<Release("tempfile"), Fail>>),
                  Maybe(<<Break>>)>>),
           Release("sort"),
           TryOr(<<"fdopen">>, <<Error, Release("tempfile"), Release("fd"), Fail>>),
           Release("fd"), Take("fp"),
           Loop(<<CallOr(add_string, error)>>),
           Release("fp"),
           CallOr(end_stringsbuf, error),
           Release("tempfile")>>)
inotify_finalize == Fn(<<CloseOld("inotify")>>)

-----------------------------------------------------------------------------
(* daemon/selinux.c *)

do_setcon == Fn(<<Checks(<<"setcon">>)>>)
do_getcon == Fn(<<Checks(<<"getcon", "strdup">>)>>)
=============================================================================
