------------------------------- MODULE MCClean -------------------------------
(* Two names, two sizes, three kinds of machine. *)
EXTENDS Clean

MCFile == 1..2
MCSize == {1, 2}
MCHost == {{}, {"flatpak", "dnf"}, {"pacman", "apt-get"}, {"apt-get"}}
==============================================================================
