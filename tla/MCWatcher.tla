------------------------------ MODULE MCWatcher -------------------------------
(* Constants for the run of module Watcher. *)
EXTENDS Watcher, TLC

CONSTANTS root, pkg, sub, vendor, locked

FiveDirs == {root, pkg, sub, vendor, locked}
(* pkg, vendor and locked lie in root, sub lies in pkg. *)
Tree == root :> NoDir @@ pkg :> root @@ sub :> pkg
        @@ vendor :> root @@ locked :> root
JustVendor == {vendor}
JustLocked == {locked}
=============================================================================
