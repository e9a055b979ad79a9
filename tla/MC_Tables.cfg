SPECIFICATION TablesSpec
CONSTANTS
  Links = {1, 2}
  Users = {1}
  ServerTypes <- MCServerTypes
  IDSpan = 2
  IndexSpan = 2
  MaxID = 6
  Names = {2, 3}
  Fields <- MCFields
  Datas = {a, b}
  Mid = 2
  Top = 4
  Width = 2
  Indices <- MCIndices
  MaxKeys = 3
INVARIANTS MapsAgree FindsAgree RangesAgree
PROPERTIES SearchEnds ListsImplement
