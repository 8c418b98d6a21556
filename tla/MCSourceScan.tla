---------------------------- MODULE MCSourceScan ----------------------------
(* A small photo library: one year directory, two albums and the root.     *)
EXTENDS SourceScan

CONSTANTS Year, AlbumA, AlbumB, Summer

Media(stm, idx, ext) == [stem |-> stm, idx |-> idx, ext |-> ext, upper |-> FALSE]
In(dir, name) == [dir |-> dir, name |-> name]
Json(base, num, mark) == [base |-> base, num |-> num, mark |-> mark, ext |-> "json"]
Ini == [ext |-> "ini"]
jpg == Media("a", 0, "jpg")
cut == Media("a", 0, None)
AlbumDocument == Json(Media("metadata", 0, None), 0, "none")

MCFields == {"description", "location"}
MCLenOf == [c \in {"p1", "p2", "long", "mov", "doc1", "doc2", "doc3", "named",
                   "unnamed", "ini1", "empty"} |->
              CASE c = "long" -> 3 [] c \in {"p1", "p2"} -> 2 [] c = "empty" -> 0
                [] OTHER -> 1]
Facts(description, location) == [f \in MCFields |-> IF f = "description" THEN description ELSE location]
NoDocument == [status |-> "invalid", title |-> None, facts |-> Facts(None, None)]
MCDocOf == [c \in DOMAIN MCLenOf |->
              CASE c = "doc1" -> [status |-> "ok", title |-> jpg, facts |-> Facts("x", None)]
                [] c = "doc2" -> [status |-> "ok", title |-> jpg, facts |-> Facts("y", None)]
                [] c = "doc3" -> [status |-> "ok", title |-> jpg, facts |-> Facts(None, "z")]
                [] c = "named" -> [status |-> "ok", title |-> Summer, facts |-> Facts(None, None)]
                [] c = "unnamed" -> [status |-> "ok", title |-> None, facts |-> Facts(None, None)]
                [] OTHER -> NoDocument]
MCIniOf == [c \in DOMAIN MCLenOf |->
              IF c = "ini1" THEN [status |-> "ok", album |-> Summer, captions |-> [n \in {jpg} |-> "x"]]
              ELSE [status |-> "invalid", album |-> None, captions |-> [n \in {} |-> "x"]]]

File(path, form, content) == [path |-> path, form |-> form, content |-> content]
Link == File(In(None, Ini), "nfc", "ini1")
MCNatives == {File(In(Year, jpg), "nfc", "p1"), File(In(Year, jpg), "nfd", "p1"),
              File(In(Year, Media("a", 0, "mov")), "nfc", "mov"),
              File(In(Year, Json(jpg, 0, "none")), "nfc", "doc1"),
              File(In(Year, Ini), "nfc", "ini1"),
              File(In(None, jpg), "nfc", "p1"),
              File(In(None, AlbumDocument), "nfc", "unnamed"),
              Link}
MCSpecials == {Link}

Entry(path, content) == [path |-> path, content |-> content, time |-> 0]
AppleDouble == In(AlbumB, Media("._a", 0, "jpg"))
MCEntries == {Entry(In(Year, jpg), "p1"), Entry(In(Year, jpg), "p2"),
              [Entry(In(Year, jpg), "p1") EXCEPT !.time = 1],
              Entry(In(AlbumA, jpg), "p1"), Entry(In(AlbumB, jpg), "p1"),
              Entry(In(Year, Media("a", 1, "jpg")), "p2"),
              Entry(In(Year, Media("a", 0, "mov")), "mov"),
              Entry(In(Year, Media("a", 0, "heic")), "p2"),
              Entry(In(Year, Json(jpg, 0, "none")), "doc1"),
              Entry(In(AlbumA, Json(jpg, 0, "full")), "doc2"),
              Entry(In(AlbumB, Json(cut, 0, "none")), "doc3"),
              Entry(In(Year, Json(jpg, 1, "cut")), "doc2"),
              Entry(In(AlbumA, AlbumDocument), "named"),
              Entry(In(AlbumB, AlbumDocument), "unnamed"),
              Entry(In(Year, [base |-> cut, num |-> 0, mark |-> "none", ext |-> "xmp"]), "empty"),
              Entry(In(None, jpg), "empty"),
              Entry(In(AlbumA, Ini), "ini1"),
              Entry(AppleDouble, "p1")}
MCNoisePaths == {AppleDouble}
MCYearDirs == {Year}
MCUnnamableDirs == {None}
=============================================================================
