----------------------------- MODULE MCRecords -----------------------------
(* Formats and data of Records for TLC.                                     *)
EXTENDS Records

MCData ==
  UNION {{integer(v) : v \in {-128, -9, -8, -3, -2, -1, 0, 1, 2, 3, 4, 7, 8, 15, 16, 32, 127}},
         {box(5), box(0), nil}}
MCFormats ==
  {<<"b", "h", "i">>, <<"B", "Q">>, <<"b", ">", "H", "i">>, <<"h", "l">>, <<">", "q", "@", "b">>,
   <<"<", "l">>, <<"=", "L", "B">>, <<"L", "x", "h">>, <<">", "x", "I">>,
   <<"b", "P", "v">>, <<"p", ">", "P", "s">>, <<"S", "b", "Z">>, <<"Q", "H">>,
   <<"[", "b", "h", "]", "b">>, <<"[", ">", "[", "h", "]", "H", "]", "h">>, <<"[", "]", "B">>,
   <<"[", "b">>, <<"b", "]", "h">>, <<"?">>}
=============================================================================
