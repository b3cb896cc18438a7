------------------------------ MODULE MCPrograms ------------------------------
(***************************************************************************)
(* Two discs for the model checker: one with directories in directories    *)
(* and the same name in each of them, and one that has other files where   *)
(* the first one has its own.                                              *)
(***************************************************************************)
EXTENDS ProgramsRefinement

CONSTANTS d1, d2,                    \* the discs
          Main, Dir, Sub, Psx  \* names

Entry(start, sectors, parent, dir, name) ==
  [start |-> start, sectors |-> sectors, parent |-> parent, dir |-> dir, name |-> name]

(* Directories first, files first, by sector downwards, by sector upwards. *)
Orders(top, sub, one, two, three) ==
  {<<top, sub, one, two, three>>, <<one, two, three, top, sub>>,
   <<three, two, top, one, sub>>, <<top, one, sub, two, three>>}

MC_Discs == {d1, d2}

MC_Listings ==
  d1 :> Orders(Entry(2, 1, 0, TRUE, Dir), Entry(3, 2, 2, TRUE, Sub), Entry(5, 2, 0, FALSE, Main),
               Entry(7, 1, 2, FALSE, Main), Entry(8, 3, 3, FALSE, Main))
  @@
  d2 :> Orders(Entry(7, 1, 0, TRUE, Dir), Entry(4, 1, 7, TRUE, Sub), Entry(5, 2, 0, FALSE, Psx),
               Entry(8, 1, 7, FALSE, Main), Entry(9, 2, 0, FALSE, Main))

Path(mount, rooted, names) == [mount |-> mount, rooted |-> rooted, names |-> names]

MC_BootPath ==
  d1 :> Path(Cdrom, TRUE, <<Dir, Main>>) @@ d2 :> NoPath

MC_PsxExe == Path(NoMount, FALSE, <<Psx>>)

MC_Paths == {Path(Cdrom, FALSE, <<Main>>), Path(Cdrom, TRUE, <<Main>>), MC_PsxExe}

MC_Directories == {Path(Cdrom, TRUE, <<Dir>>), NoPwd}
=============================================================================
