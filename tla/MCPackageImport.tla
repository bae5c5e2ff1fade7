---------------------------- MODULE MCPackageImport ----------------------------
(* Two candidate roots besides the default, for TLC. *)
EXTENDS PackageImportProps

MCRoots == <<"/usr/share/dotnet", "~/.dotnet">>
=============================================================================
