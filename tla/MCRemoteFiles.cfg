SPECIFICATION Spec
CONSTANTS
    f = f  g = g  D = D  a = a  b = b  None = None
    save1 = save1 save2 = save2 create = create rename = rename delete = delete rmdir = rmdir
    list = list search = search searchFew = searchFew preview = preview put = put putAll = putAll putAsk = putAsk get = get getAgain = getAgain
    Names = {f, g}
    Versions = {a, b}
    Inodes = {1, 2, 3, 4, 5}
    FirstInode = 1
    OldVersion = a
    Saves = {save1, save2}
    Creates = {create}
    Renames = {rename}
    Deletes = {delete, rmdir}
    Lists = {list}
    Searches = {search, searchFew}
    Previews = {preview}
    HitsIn <- MCHitsIn
    MaxResults <- MCMaxResults
    MaxBytes = 1
    Uploads = {put, putAll, putAsk}
    Downloads = {get, getAgain}
    Directory = D
    Size <- MCSize
    Target <- MCTarget
    NewName <- MCNewName
    Data <- MCData
    FilesOf <- MCFilesOf
    Strategy <- MCStrategy
    Edited = f
    Edition <- MCEdition
    Mixes <- MCMixes
    MaxConnects = 2
CHECK_DEADLOCK FALSE
INVARIANTS TypeOK PartsAreWhole TempIsWhole NoLitter CacheIsCurrent ReadsAreHonest
PROPERTIES SavePromise
