----------------------------- MODULE MCIndexing -----------------------------
(***************************************************************************)
(* app uses lib and, by an alias that the two settings direct to different *)
(* files, theme; lib and dark use app again, and lib uses a file that does *)
(* not exist.  lib is in the second workspace folder.                      *)
(***************************************************************************)
EXTENDS Indexing

CONSTANTS app, lib, light, dark, s1, s2, home, folder

MCFile == {app, lib, light, dark}
MCSpecifier == {"app", "lib", "theme", "gone"}
MCSetting == {s1, s2}

MCResolve == [c \in MCSetting |->
                [s \in MCSpecifier |->
                   CASE s = "app" -> app [] s = "lib" -> lib
                     [] s = "gone" -> None
                     [] s = "theme" -> IF c = s1 THEN light ELSE dark]]

\* app -> lib -> app, and app -> theme -> app
Cyclic == [u \in MCFile |-> CASE u = app -> {"lib", "theme"}
                              [] u = lib -> {"app", "gone"}
                              [] u = dark -> {"app"}
                              [] OTHER -> {}]

PrependTheme == [c \in MCSetting |-> IF c = s1 THEN {"theme"} ELSE {"theme", "lib"}]
NoPrepends == [c \in MCSetting |-> {}]

MCRootOf == [u \in MCFile |-> IF u = lib THEN folder ELSE home]
MCRootsOf == [c \in MCSetting |-> {home}]
=============================================================================
