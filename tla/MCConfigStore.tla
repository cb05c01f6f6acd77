---------------------------- MODULE MCConfigStore ----------------------------
(***************************************************************************)
(* Two settings with one value each besides "never chosen", one client,    *)
(* one file of an older launcher.                                          *)
(***************************************************************************)
EXTENDS ConfigStoreProps

CONSTANTS debug, server, on, client, legacy

MCSettings      == {debug, server}
MCValues        == {on}
MCInstallations == {client}
MCLegacyPaths   == <<legacy>>
==============================================================================
