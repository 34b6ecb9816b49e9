---------------------------- MODULE MCTenantPool ----------------------------
(* Small instances of TenantPool for TLC. *)
EXTENDS TenantPool

\* Writers before writers before readers, with each kind in some place.
Mix == << {"create", "ingest"}, {"create", "patch", "login"}, {"patch", "read"} >>
=============================================================================
