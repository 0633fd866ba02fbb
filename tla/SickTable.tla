------------------------------- MODULE SickTable -------------------------------
(***************************************************************************)
(* The two tables of tim561.c: the requests that the sensor knows          *)
(* (tim561_index) and, at the same place of the other table, its answers   *)
(* (tim561_respons).  A read request "sRI X" stands here as "X", an answer  *)
(* "sRA X ..." as "X": what an answer says after the name it answers is     *)
(* left out.  Everything else stands as it is, answers up to their name.   *)
(***************************************************************************)
EXTENDS Sequences, TLC

index0 == <<
    "0", "1", "3", "4", "6", "2", "7", "sMI 5 1 0", "sEI 2 1", "148", "1B7",
    "30", "188", "29", "16D", "3A", "3F", "173", "82", "D9", "160", "C8",
    "104", "217", "1C3", "1BF", "1AD", "44", "5D", "154", "133", "14E", "2D",
    "3D", "15D", "166", "CF", "46", "143", "1B4", "E8", "1A6", "1D2", "7F",
    "FD", "125", "1E", "5B", "1B0", "60", "2B", "24", "C5", "1C2", "CA", "1C9",
    "1A5", "1A7", "1C1", "20C", "8E", "F1", "1A1", "74", "1A", "184", "207",
    "208", "27", "72", "1EB", "19A", "126", "165", "141", "21A", "11C", "162",
    "1F3", "10B", "170", "EF", "123", "2C", "F3", "1CB", "CC", "131", "40",
    "1E8", "6B", "182", "195", "21", "F6", "8", "6C", "1D8", "C7", "19B", "87",
    "84", "8D", "10", "FE", "5F", "7A", "DA", "7B", "D8", "37", "93", "1BD",
    "205", "1C5", "1FE", "1C", "75", "1EE", "DE", "153", "15E", "14C", "19D",
    "1CE", "112", "54", "69", "220", "52", "115", "11A", "2A", "1D7", "45",
    "140", "211", "138", "210", "20F", "132", "19F", "20E">>

index1 == <<
    "56", "10E", "16", "59", "E4", "168", "113", "204", "117", "1EF", "149",
    "E0", "179", "6E", "1E5", "18C", "1D6", "1FF", "100", "42", "189", "128",
    "F5", "F8", "B", "55", "68", "1AF", "5A", "1FB", "47", "201", "1C6", "157",
    "163", "1FA", "190", "1E4", "5", "1F9", "C6", "35", "1E6", "167", "13B",
    "194", "1EC", "58", "11", "63", "19C", "202", "9", "1F7", "61", "4A", "48",
    "156", "108", "21C", "1B2", "12B", "127", "EC", "D4", "11E", "147", "D",
    "14A", "151", "43", "139", "77", "1BA", "FC", "15F", "17C", "8A", "F9",
    "185", "D5", "1C4", "78", "171", "101", "11B", "1B5", "FF", "21F", "142",
    "1DE", "219", "155", "11F", "114", "36", "10C", "1E0", "1A3", "4F", "13C",
    "D6", "1D9", "15C", "183", "20A", "33", "1ED", "1C0", "1DF", "86", "169",
    "14D", "17B", "21E", "1C8", "102", "E5", "21D", "50", "1BC", "150", "13D",
    "53", "18E", "5C", "13F", "1AB", "10D", "EA", "18A", "22", "D7", "1DB",
    "4C", "18B", "21B", "28", "62", "13E", "15", "1F1", "175">>

index2 == <<
    "1E7", "83", "FB", "181", "129", "209", "88", "14F", "39", "E2", "1B8",
    "4E", "119", "16E", "1AE", "1E3", "EB", "172", "DC", "5E", "85", "9E",
    "9D", "216", "91", "9C", "9B", "9A", "99", "98", "180", "97", "96", "95",
    "F2", "E9", "158", "12D", "152", "65", "176", "64", "1D", "8C", "31", "26",
    "13A", "134", "196", "177", "1B", "17E", "38", "192", "1B9", "12F", "1A9",
    "135", "CE", "174", "80", "19E", "1F5", "7D", "10F", "A", "66", "81", "E7",
    "120", "C", "14B", "19", "12E", "191", "C9", "51", "32", "89", "1AC",
    "186", "1D5", "1EA", "144", "193", "76", "1FC", "1AA", "11D", "1A2", "218",
    "12A", "F", "DF", "7E", "12", "FA", "136", "2F", "1F8", "107", "6A", "1CA",
    "197", "121", "122", "17F", "E3", "1B6", "1BB", "106", "70", "2E", "116",
    "6F", "CB", "10A", "E1", "D1", "18", "D3", "18D", "1CF", "25", "DB", "41",
    "1D1", "1F0", "57", "203", "161", "14", "164", "D0", "73", "EE", "1E9",
    "3E", "18F", "145", "130", "1B3", "146">>

index3 == <<
    "103", "16F", "1A4", "1D4", "94", "1C7", "F4", "E", "8B", "17D", "109",
    "17A", "4B", "A8", "49", "A7", "1A0", "A6", "20D", "A5", "CD", "A4", "A3",
    "A2", "A1", "A0", "9F", "1FD", "16C", "1F", "20", "67", "12C", "B2", "178",
    "20B", "B1", "ED", "B0", "AF", "199", "AE", "1DA", "AD", "AC", "110", "AB",
    "1D3", "AA", "A9", "6D", "1BE", "137", "16B", "206", "3B", "71", "1CD",
    "1F6", "3C", "4D", "BC", "BB", "BA", "B9", "B8", "B7", "B6", "B5", "B4",
    "B3", "111", "79", "D2", "F7", "90", "16A", "118", "200", "1E1", "1A8",
    "7C", "C4", "C3", "C2", "1F2", "215", "C1", "C0", "213", "BF", "DD", "1CC",
    "214", "BE", "BD", "198", "8F", "1E2", "1B1", "1D0", "105", "34", "212",
    "1F4", "sMI D 0 0", "sMI B 0", "sMI A 8 Manifest 1 r", "13", "23", "92",
    "17", "187", "1DD", "18", "E6", "1DC", "15B", "124", "sMI 5 3 F4724744",
    "sEI 55 1", "sEI 57 1", "sEI 62 1", "sEI 1 1", "A", "sEI 85 1", "18A",
    "sEI 55 0", "sEI 57 0", "sEI 62 0", "sEI 1 0", "sEI 85 0", "sEI 1C 1",
    "sEI 17 1", "sEI 1C 0", "sEI 17 0", "18A", "sEI 5A 1", "sEI 5A 0",
    "sMI 3F", "sMI 3E", "sMI 0 3 F4724744", "sMI 2">>

respons0 == <<
    "0", "1", "3", "4", "6", "2", "7", "sAI 5", "sEA 2", "148", "1B7", "30",
    "188", "29", "16D", "3A", "3F", "173", "82", "D9", "160", "C8", "104",
    "217", "1C3", "1BF", "1AD", "44", "5D", "154", "133", "14E", "2D", "3D",
    "15D", "166", "CF", "46", "143", "1B4", "E8", "1A6", "1D2", "7F", "FD",
    "125", "1E", "5B", "1B0", "60", "2B", "24", "C5", "1C2", "CA", "1C9",
    "1A5", "1A7", "1C1", "20C", "8E", "F1", "1A1", "74", "1A", "184", "207",
    "208", "27", "72", "1EB", "19A", "126", "165", "141", "21A", "11C", "162",
    "1F3", "10B", "170", "EF", "123", "2C", "F3", "1CB", "CC", "131", "40",
    "1E8", "6B", "182", "195", "21", "F6", "8", "6C", "1D8", "C7", "19B", "87",
    "84", "8D", "10", "FE", "5F", "7A", "DA", "7B", "D8", "37", "93", "1BD",
    "205", "1C5", "1FE", "1C", "75", "1EE", "DE", "153", "15E", "14C", "19D",
    "1CE", "112", "54", "69", "220", "52", "115", "11A", "2A", "1D7", "45",
    "140", "211", "138", "210", "20F", "132", "19F", "20E">>

respons1 == <<
    "56", "10E", "16", "59", "E4", "168", "113", "204", "117", "1EF", "149",
    "E0", "179", "6E", "1E5", "18C", "1D6", "1FF", "100", "42", "189", "128",
    "F5", "F8", "B", "55", "68", "1AF", "5A", "1FB", "47", "201", "1C6", "157",
    "163", "1FA", "190", "1E4", "5", "1F9", "C6", "35", "1E6", "167", "13B",
    "194", "1EC", "58", "11", "63", "19C", "202", "9", "1F7", "61", "4A", "48",
    "156", "108", "21C", "1B2", "12B", "127", "EC", "D4", "11E", "147", "D",
    "14A", "151", "43", "139", "77", "1BA", "FC", "15F", "17C", "8A", "F9",
    "185", "D5", "1C4", "78", "171", "101", "11B", "1B5", "FF", "21F", "142",
    "1DE", "219", "155", "11F", "114", "36", "10C", "1E0", "1A3", "4F", "13C",
    "D6", "1D9", "15C", "183", "20A", "33", "1ED", "1C0", "1DF", "86", "169",
    "14D", "17B", "21E", "1C8", "102", "E5", "21D", "50", "1BC", "150", "13D",
    "53", "18E", "5C", "13F", "1AB", "10D", "EA", "18A", "22", "D7", "1DB",
    "4C", "18B", "21B", "28", "62", "13E", "15", "1F1", "175">>

respons2 == <<
    "1E7", "83", "FB", "181", "129", "209", "88", "14F", "39", "E2", "1B8",
    "4E", "119", "16E", "1AE", "1E3", "EB", "172", "DC", "5E", "85", "9E",
    "9D", "216", "91", "9C", "9B", "9A", "99", "98", "180", "97", "96", "95",
    "F2", "E9", "158", "12D", "152", "65", "176", "64", "1D", "8C", "31", "26",
    "13A", "134", "196", "177", "1B", "17E", "38", "192", "1B9", "12F", "1A9",
    "135", "CE", "174", "80", "19E", "1F5", "7D", "10F", "A", "66", "81", "E7",
    "120", "C", "14B", "19", "12E", "191", "C9", "51", "32", "89", "1AC",
    "186", "1D5", "1EA", "144", "193", "76", "1FC", "1AA", "11D", "1A2", "218",
    "12A", "F", "DF", "7E", "12", "FA", "136", "2F", "1F8", "107", "6A", "1CA",
    "197", "121", "122", "17F", "E3", "1B6", "1BB", "106", "70", "2E", "116",
    "6F", "CB", "10A", "E1", "D1", "18", "D3", "18D", "1CF", "25", "DB", "41",
    "1D1", "1F0", "57", "203", "161", "14", "164", "D0", "73", "EE", "1E9",
    "3E", "18F", "145", "130", "1B3", "146">>

respons3 == <<
    "103", "16F", "1A4", "1D4", "94", "1C7", "F4", "E", "8B", "17D", "109",
    "17A", "4B", "A8", "49", "A7", "1A0", "A6", "20D", "A5", "CD", "A4", "A3",
    "A2", "A1", "A0", "9F", "1FD", "16C", "1F", "20", "67", "12C", "B2", "178",
    "20B", "B1", "ED", "B0", "AF", "199", "AE", "1DA", "AD", "AC", "110", "AB",
    "1D3", "AA", "A9", "6D", "1BE", "137", "16B", "206", "3B", "71", "1CD",
    "1F6", "3C", "4D", "BC", "BB", "BA", "B9", "B8", "B7", "B6", "B5", "B4",
    "B3", "111", "79", "D2", "F7", "90", "16A", "118", "200", "1E1", "1A8",
    "7C", "C4", "C3", "C2", "1F2", "215", "C1", "C0", "213", "BF", "DD", "1CC",
    "214", "BE", "BD", "198", "8F", "1E2", "1B1", "1D0", "105", "34", "212",
    "1F4", "sAI D", "sAI B", "sAI A", "13", "23", "92", "17", "187", "1DD",
    "18", "E6", "1DC", "15B", "124", "sAI 5", "sEA 55", "sEA 57", "sEA 62",
    "sEA 1", "A", "sEA 85", "18A", "sEA 55", "sEA 57", "sEA 62", "sEA 1",
    "sEA 85", "sEA 1C", "sEA 17", "sEA 1C", "sEA 17", "18A", "sEA 5A",
    "sEA 5A", "sAI 3F", "sAI 3E", "sSI 2", "sAI 2">>

tim561_index == index0 \o index1 \o index2 \o index3
tim561_respons == respons0 \o respons1 \o respons2 \o respons3

(* The protocol's rule: a method sMI X is answered by sAI X, an event sEI X   *)
(* by sEA X; a variable read with sRI X, by its name.                        *)
reference ==
    "sMI 5 1 0" :> "sAI 5" @@ "sEI 2 1" :> "sEA 2" @@
    "sMI D 0 0" :> "sAI D" @@ "sMI B 0" :> "sAI B" @@
    "sMI A 8 Manifest 1 r" :> "sAI A" @@ "sMI 5 3 F4724744" :> "sAI 5" @@
    "sEI 55 1" :> "sEA 55" @@ "sEI 57 1" :> "sEA 57" @@
    "sEI 62 1" :> "sEA 62" @@ "sEI 1 1" :> "sEA 1" @@
    "sEI 85 1" :> "sEA 85" @@ "sEI 55 0" :> "sEA 55" @@
    "sEI 57 0" :> "sEA 57" @@ "sEI 62 0" :> "sEA 62" @@
    "sEI 1 0" :> "sEA 1" @@ "sEI 85 0" :> "sEA 85" @@
    "sEI 1C 1" :> "sEA 1C" @@ "sEI 17 1" :> "sEA 17" @@
    "sEI 1C 0" :> "sEA 1C" @@ "sEI 17 0" :> "sEA 17" @@
    "sEI 5A 1" :> "sEA 5A" @@ "sEI 5A 0" :> "sEA 5A" @@
    "sMI 3F" :> "sAI 3F" @@ "sMI 3E" :> "sAI 3E" @@
    "sMI 0 3 F4724744" :> "sAI 0" @@ "sMI 2" :> "sAI 2"

=============================================================================
