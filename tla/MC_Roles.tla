------------------------------ MODULE MC_Roles ------------------------------
(***************************************************************************)
(* Instances of Roles for TLC.                                             *)
(***************************************************************************)
EXTENDS Roles

MCUsers == {"postgres", "alice"}
MCRoles == PredefinedRoles \union {"postgres"}
None == {}
Alice == {"alice"}
OneKind == {FALSE}

\* Two of the predefined names serve as roles an administrator manages.
TwoRoles == {"readonly", "readwrite"}
Parents == {"readonly", "postgres"}
SelectAll == {Permit("Select", AllResources)}
SelectTable == {Permit("Select", Table("public", "t"))}
SelectSchema == {Permit("Select", Schema("public"))}
=============================================================================
